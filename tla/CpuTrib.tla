------------------------------ MODULE CpuTrib ------------------------------
(***************************************************************************)
(* The boot of the processors.  The boot processor goes through the        *)
(* chipset's maps: it gives every CPU a stream, sends it INIT, and asks    *)
(* for a timer event; then, once for each CPU, it waits for an event and   *)
(* sends the event's CPU the start-up interrupt, a second one if need be,  *)
(* or gives it up.  The CPUs that wake up run beside it.                   *)
(***************************************************************************)
EXTENDS Integers, Sequences, FiniteSets, FiniteSetsExt, SequencesExt

CONSTANTS
  Maps,         \* the maps a chipset may report: records of numa and smp
  BankOf,       \* the bank the NUMA map gives a CPU
  ShBank,       \* CHIPSET_NUMA_SHBANKID
  bspCpuId,
  MaxNCpus,     \* CONFIG_MAX_NCPUS
  OldLapic,     \* the CPUs whose LAPIC starts them on INIT
  Faults        \* whether spawning, timers and sends may fail

Ids == DOMAIN BankOf
Aps == Ids \ {bspCpuId}

VARIABLES
  map,            \* the map of this boot
  bsp,            \* start, parse, confirm, act, done or crashed
  highestCpuId,   \* the last bit of the bitmaps of CPUs
  phase, entry,   \* the map it goes through, and its place there
  cpuStreams,     \* the CPUs that have a stream
  bankCpus,       \* <<bank, CPU>>: the banks' bitmaps
  availableCpus, onlineCpus,
  powerStatus,    \* per CPU
  ap,             \* per CPU: off, started, awake, bound or up
  events,         \* the CPUs a timer event is out for
  cs, seen,       \* the event's CPU, and the power status read for it
  verdicts,       \* per CPU: how often it was found booted or failed
  lost            \* whether a stream or a timer failed

board == <<map, highestCpuId>>
progress == <<bsp, phase, entry>>
vars == <<board, progress, cpuStreams, bankCpus, availableCpus, onlineCpus, powerStatus, ap,
          events, cs, seen, verdicts, lost>>

\* numaInit(): the NUMA map, then the SMP map: all of it if there is no NUMA
\* map, or the CPUs that the NUMA map leaves out.
Phases ==
  LET Others(s) == SelectSeq(s, LAMBDA c : c # bspCpuId)
      holes == SelectSeq(Others(map.smp), LAMBDA c : c \notin ToSet(map.numa))
      numa == [kind |-> "numa", cpus |-> Others(map.numa)]
      rest == IF map.numa = <<>> THEN [kind |-> "smp", cpus |-> Others(map.smp)]
              ELSE [kind |-> "holes", cpus |-> holes]
  IN  (IF map.numa = <<>> THEN <<>> ELSE <<numa>>) \o (IF map.smp = <<>> THEN <<>> ELSE <<rest>>)

Current == Phases[phase].cpus[entry]
Bank(c) == IF Phases[phase].kind = "numa" THEN BankOf[c] ELSE ShBank

\* Where the boot processor is after the present entry of parsing or waiting.
Advance(stage) ==
  LET next == IF stage = "parse" THEN <<"confirm", phase>> ELSE <<"parse", phase + 1>> IN
  IF entry < Len(Phases[phase].cpus)
  THEN bsp' = stage /\ entry' = entry + 1 /\ UNCHANGED phase
  ELSE /\ phase' = next[2] /\ entry' = 1
       /\ bsp' = next[1]

Init ==
  /\ map \in Maps
  /\ bsp = "start" /\ highestCpuId = bspCpuId /\ phase = 1 /\ entry = 1
  /\ cpuStreams = {bspCpuId}
  /\ bankCpus = {<<IF bspCpuId \in ToSet(map.numa) THEN BankOf[bspCpuId] ELSE ShBank, bspCpuId>>}
  /\ availableCpus = {bspCpuId} /\ onlineCpus = {bspCpuId}
  /\ powerStatus = [c \in Ids |-> IF c = bspCpuId THEN "C0" ELSE "OFF"]
  /\ ap = [c \in Aps |-> "off"]
  /\ events = {} /\ cs = bspCpuId /\ seen = "C0"
  /\ verdicts = [c \in Aps |-> 0] /\ lost = FALSE

findHighestId(ids, highest) ==
  Max({highest} \union {c \in ToSet(ids) : c < MaxNCpus})

\* The bitmaps are made to hold every CPU of the maps; a chipset that is not
\* safe for several CPUs, or fails to change its mode, starts none.
initializeAllCpus ==
  /\ bsp = "start"
  /\ \/ /\ highestCpuId' = findHighestId(map.smp, findHighestId(map.numa, highestCpuId))
        /\ bsp' \in {"parse"} \union (IF Faults THEN {"done"} ELSE {})
     \/ Faults /\ bsp' = "done" /\ UNCHANGED highestCpuId
  /\ UNCHANGED <<map, phase, entry, cpuStreams, bankCpus, availableCpus, onlineCpus, powerStatus,
                 ap, events, cs, seen, verdicts, lost>>

\* No CPUs in this part of the maps, or no parts left.
PhaseEmpty ==
  /\ bsp = "parse"
  /\ IF phase > Len(Phases) THEN bsp' = "done" /\ UNCHANGED phase
     ELSE Phases[phase].cpus = <<>> /\ phase' = phase + 1 /\ UNCHANGED bsp
  /\ UNCHANGED <<board, entry, cpuStreams, bankCpus, availableCpus, onlineCpus, powerStatus, ap,
                 events, cs, seen, verdicts, lost>>

Parsing == bsp = "parse" /\ phase <= Len(Phases) /\ Phases[phase].cpus # <<>>

\* bootPowerOn() of a CPU that has its stream.
PowerOn(c) ==
  /\ ap' = IF c \in OldLapic THEN [ap EXCEPT ![c] = "started"] ELSE ap
  /\ \/ events' = events \union {c} /\ UNCHANGED lost
     \/ Faults /\ lost' = TRUE /\ UNCHANGED events

SpawnStream ==
  /\ Parsing /\ Current < MaxNCpus
  /\ cpuStreams' = cpuStreams \union {Current}
  /\ bankCpus' = bankCpus \union {<<Bank(Current), Current>>}
  /\ PowerOn(Current)
  /\ Advance("parse")
  /\ UNCHANGED <<board, availableCpus, onlineCpus, powerStatus, cs, seen, verdicts>>

\* The ID is too large, or memory runs out, before or after the bank has its
\* bit.  The CPU is passed over; but the loop over the holes calls
\* bootPowerOn() on the stream that is not there.
SpawnFails ==
  /\ Parsing /\ (Current >= MaxNCpus \/ Faults)
  /\ bankCpus' \in {bankCpus} \union
       (IF Current < MaxNCpus THEN {bankCpus \union {<<Bank(Current), Current>>}} ELSE {})
  /\ IF Phases[phase].kind = "holes"
     THEN bsp' = "crashed" /\ UNCHANGED <<phase, entry>>
     ELSE Advance("parse")
  /\ lost' = TRUE
  /\ UNCHANGED <<board, cpuStreams, availableCpus, onlineCpus, powerStatus, ap, events, cs, seen,
                 verdicts>>
-----------------------------------------------------------------------------
(* bootWaitForCpuToPowerOn(), on the stream of the present entry; but the  *)
(* event may be another CPU's.                                             *)

PullEvent ==
  /\ bsp = "confirm"
  /\ \E c \in events : events' = events \ {c} /\ cs' = c /\ seen' = powerStatus[c]
  /\ bsp' = "act"
  /\ UNCHANGED <<board, phase, entry, cpuStreams, bankCpus, availableCpus, onlineCpus, powerStatus,
                 ap, verdicts, lost>>

\* The event's CPU is done with, and so is this wait.
Verdict(status) ==
  /\ powerStatus' = [powerStatus EXCEPT ![cs] = status]
  /\ verdicts' = [verdicts EXCEPT ![cs] = @ + 1]
  /\ Advance("confirm")

\* No more than a notice; the status is not looked at again.
FoundBooted ==
  /\ bsp = "act" /\ seen \notin {"OFF", "POWERING_ON", "POWERING_ON_RETRY"}
  /\ verdicts' = [verdicts EXCEPT ![cs] = @ + 1]
  /\ Advance("confirm")
  /\ UNCHANGED <<board, cpuStreams, bankCpus, availableCpus, onlineCpus, powerStatus, ap, events,
                 cs, seen, lost>>

\* Variant: a CPU whose time is up gets another event.
GiveUpAgain ==
  /\ bsp = "act"
  /\ seen = "POWERING_ON_RETRY" \/ (seen = "OFF" /\ cs \in OldLapic)
  /\ powerStatus' = [powerStatus EXCEPT ![cs] = "FAILED_BOOT"]
  /\ events' = events \union {cs}
  /\ verdicts' = [verdicts EXCEPT ![cs] = @ + 1]
  /\ Advance("confirm")
  /\ UNCHANGED <<board, cpuStreams, bankCpus, availableCpus, onlineCpus, ap, cs, seen, lost>>

GiveUp ==
  /\ bsp = "act"
  /\ seen = "POWERING_ON_RETRY" \/ (seen = "OFF" /\ cs \in OldLapic)
  /\ Verdict("FAILED_BOOT")
  /\ UNCHANGED <<board, cpuStreams, bankCpus, availableCpus, onlineCpus, ap, events, cs, seen, lost>>

\* The status is set from what was read before, over what the CPU may have
\* set since; then the start-up interrupt goes out through the LAPIC of the
\* stream that is waited on, if there is one.
SendSipi ==
  /\ bsp = "act"
  /\ seen = "POWERING_ON" \/ (seen = "OFF" /\ cs \notin OldLapic)
  /\ \/ /\ Current \in cpuStreams
        /\ powerStatus' = [powerStatus EXCEPT ![cs] =
                             IF seen = "OFF" THEN "POWERING_ON" ELSE "POWERING_ON_RETRY"]
        /\ ap' = IF ap[cs] = "off" THEN [ap EXCEPT ![cs] = "started"] ELSE ap
        /\ \/ events' = events \union {cs} /\ UNCHANGED lost
           \/ Faults /\ lost' = TRUE /\ UNCHANGED events
        /\ bsp' = "confirm" /\ UNCHANGED <<phase, entry, verdicts>>
     \/ /\ Current \in cpuStreams /\ Faults
        /\ Verdict("FAILED_BOOT") /\ UNCHANGED <<ap, events, lost>>
     \/ /\ Current \notin cpuStreams
        /\ bsp' = "crashed" /\ UNCHANGED <<phase, entry, powerStatus, ap, events, verdicts, lost>>
  /\ UNCHANGED <<board, cpuStreams, bankCpus, availableCpus, onlineCpus, cs, seen>>
-----------------------------------------------------------------------------
(* A CPU that wakes up: __kcpuPowerOnMain().  It may never do so.          *)

Wake(c) ==
  /\ ap[c] = "started"
  /\ ap' = [ap EXCEPT ![c] = "awake"]
  /\ powerStatus' = [powerStatus EXCEPT ![c] = "C0"]
  /\ UNCHANGED <<board, progress, cpuStreams, bankCpus, availableCpus, onlineCpus, events,
                 cs, seen, verdicts, lost>>

Bind(c) ==
  /\ ap[c] = "awake"
  /\ ap' = [ap EXCEPT ![c] = "bound"]
  /\ availableCpus' = availableCpus \union {c}
  /\ UNCHANGED <<board, progress, cpuStreams, bankCpus, onlineCpus, powerStatus, events,
                 cs, seen, verdicts, lost>>

\* cooperativeBind(); without memory for its thread the CPU pulls all the
\* same, out of sight.
CooperativeBind(c) ==
  /\ ap[c] = "bound"
  /\ ap' = [ap EXCEPT ![c] = "up"]
  /\ onlineCpus' \in {onlineCpus \union {c}} \union (IF Faults THEN {onlineCpus} ELSE {})
  /\ UNCHANGED <<board, progress, cpuStreams, bankCpus, availableCpus, powerStatus, events,
                 cs, seen, verdicts, lost>>

Next ==
  \/ initializeAllCpus \/ PhaseEmpty \/ SpawnStream \/ SpawnFails
  \/ PullEvent \/ FoundBooted \/ GiveUp \/ SendSipi
  \/ \E c \in Aps : Wake(c) \/ Bind(c) \/ CooperativeBind(c)

Spec == Init /\ [][Next]_vars
-----------------------------------------------------------------------------
TypeOK ==
  /\ map \in Maps
  /\ bsp \in {"start", "parse", "confirm", "act", "done", "crashed"}
  /\ phase \in 1 .. 3 /\ entry \in 1 .. Cardinality(Ids) /\ lost \in BOOLEAN
  /\ cpuStreams \subseteq Ids /\ availableCpus \subseteq Ids /\ onlineCpus \subseteq Ids
  /\ powerStatus \in [Ids -> {"OFF", "C0", "POWERING_ON", "POWERING_ON_RETRY", "FAILED_BOOT"}]
  /\ ap \in [Aps -> {"off", "started", "awake", "bound", "up"}]
  /\ events \subseteq Aps /\ cs \in Ids /\ verdicts \in [Aps -> Nat]

\* numaInit(): the boot processor waits once for each CPU, and each of them
\* has just one chain of events, so that no wait is in vain and no event is
\* left over; every CPU ends up running or failed.  A stream or a timer that
\* failed breaks the count; then the boot hangs or crashes
\* (bootConfirmNumaCpusBooted() does not ask).
BootAccounted ==
  ~ lost =>
    /\ bsp # "crashed"
    /\ bsp = "confirm" => events # {}
    /\ \A c \in Aps : verdicts[c] <= 1 /\ (c \in events => verdicts[c] = 0)
    /\ bsp = "done" =>
         /\ events = {}
         /\ \A c \in Aps \intersect cpuStreams :
              verdicts[c] = 1 /\ powerStatus[c] \in {"C0", "FAILED_BOOT"}

\* cpuInit.txt: an online CPU is available, has its stream, and is a member
\* of the one bank the maps give it; the bitmaps have a bit for it.
CpusListed ==
  /\ \A c \in cpuStreams : c <= highestCpuId
  /\ onlineCpus \subseteq availableCpus /\ availableCpus \subseteq cpuStreams
  /\ \A c \in cpuStreams : Cardinality({b \in bankCpus : b[2] = c}) = 1
=============================================================================
