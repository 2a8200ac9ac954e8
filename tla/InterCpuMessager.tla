-------------------------- MODULE InterCpuMessager --------------------------
(***************************************************************************)
(* Translation flushes between CPUs.  smpFlushEntryRange() runs on one CPU *)
(* and asks every other available CPU for the flush: a message is put in   *)
(* that CPU's queue and, unless its status says that it is dispatching     *)
(* already, an inter-processor interrupt is sent to it.  The interrupt's   *)
(* handler empties the queue.  Every access to a queue or to a status is   *)
(* under a WaitLock, so it is one step here; the code between two of them  *)
(* is open to the other CPUs, and to the handler on its own CPU.           *)
(***************************************************************************)
EXTENDS Integers, Sequences, Functions

CONSTANTS
  NCpus,        \* CPUs 0 .. NCpus - 1; CPU 0 boots the others
  MaxFlushes    \* bound: flushes asked for by one CPU

ASSUME NCpusAssumption == NCpus \in Nat \ {0}
ASSUME MaxFlushesAssumption == MaxFlushes \in Nat

Cpus == 0 .. NCpus - 1

VARIABLES
  statusFlag,     \* per CPU: NOT_TAKING_REQUESTS, NOT_PROCESSING or PROCESSING
  messageQueue,   \* per CPU: messages not yet dispatched
  availableCpus,  \* the CPU Tributary's bitmap
  irqsOn,         \* per CPU: whether it takes interrupts
  ipi,            \* per CPU: whether its LAPIC holds an interrupt back
  handler,        \* per CPU: none, pop or done, the place in dispatch()
  pc,             \* per CPU: the place in smpFlushEntryRange()
  target,         \* per CPU: the bit it looks at
  flushes,        \* per CPU: flushes asked for so far
  skipped         \* per CPU: messages it was sent no interrupt for

vars == <<statusFlag, messageQueue, availableCpus, irqsOn, ipi, handler, pc, target, flushes,
          skipped>>
bringUpVars == <<availableCpus, irqsOn>>

\* The message for the range, and the one for the page that message lies on.
Msg(c) == [from |-> c, n |-> flushes[c], kind |-> "range"]
PageMsg(c) == [from |-> c, n |-> flushes[c], kind |-> "page"]

Init ==
  /\ statusFlag = [c \in Cpus |-> IF c = 0 THEN "NOT_PROCESSING" ELSE "NOT_TAKING_REQUESTS"]
  /\ messageQueue = [c \in Cpus |-> <<>>]
  /\ availableCpus = {0}
  /\ irqsOn = [c \in Cpus |-> c = 0]
  /\ ipi = [c \in Cpus |-> FALSE]
  /\ handler = [c \in Cpus |-> "none"]
  /\ pc = [c \in Cpus |-> "idle"]
  /\ target = [c \in Cpus |-> 0]
  /\ flushes = [c \in Cpus |-> 0]
  /\ skipped = [c \in Cpus |-> {}]

-----------------------------------------------------------------------------
(* A CPU that wakes up: CpuStream::bind().                                 *)

\* setupLapic(): the messager takes requests from here on.
Bind(c) ==
  /\ statusFlag[c] = "NOT_TAKING_REQUESTS"
  /\ statusFlag' = [statusFlag EXCEPT ![c] = "NOT_PROCESSING"]
  /\ UNCHANGED <<messageQueue, availableCpus, irqsOn, ipi, handler, pc, target, flushes, skipped>>

\* Variant: the bit is set whether the messager is bound or not.
AnnounceEarly(c) ==
  /\ c \notin availableCpus
  /\ availableCpus' = availableCpus \union {c}
  /\ UNCHANGED <<statusFlag, messageQueue, irqsOn, ipi, handler, pc, target, flushes, skipped>>

\* The bit in availableCpus.
Announce(c) ==
  /\ statusFlag[c] # "NOT_TAKING_REQUESTS" /\ c \notin availableCpus
  /\ availableCpus' = availableCpus \union {c}
  /\ UNCHANGED <<statusFlag, messageQueue, irqsOn, ipi, handler, pc, target, flushes, skipped>>

EnableInterrupts(c) ==
  /\ c \in availableCpus /\ ~ irqsOn[c]
  /\ irqsOn' = [irqsOn EXCEPT ![c] = TRUE]
  /\ UNCHANGED <<statusFlag, messageQueue, availableCpus, ipi, handler, pc, target, flushes,
                 skipped>>
-----------------------------------------------------------------------------
(* smpFlushEntryRange() and, for each target, flushTlbRange().             *)

\* The thread on c runs: the handler has not interrupted it.
Running(c, label) == pc[c] = label /\ handler[c] = "none" /\ irqsOn[c]

Goto(c, label) == pc' = [pc EXCEPT ![c] = label]

\* On to the next bit.
NextTarget(c) == Goto(c, "scan") /\ target' = [target EXCEPT ![c] = @ + 1]

FlushCall(c) ==
  /\ Running(c, "idle") /\ flushes[c] < MaxFlushes
  /\ flushes' = [flushes EXCEPT ![c] = @ + 1]
  /\ Goto(c, "scan") /\ target' = [target EXCEPT ![c] = 0]
  /\ UNCHANGED <<statusFlag, messageQueue, bringUpVars, ipi, handler, skipped>>

\* The bitmap is locked for each bit.
Scan(c) ==
  /\ Running(c, "scan")
  /\ \/ /\ target[c] = NCpus /\ Goto(c, "idle") /\ UNCHANGED target
     \/ /\ target[c] < NCpus
        /\ IF target[c] \in availableCpus \ {c}
           THEN Goto(c, "status") /\ UNCHANGED target
           ELSE NextTarget(c)
  /\ UNCHANGED <<statusFlag, messageQueue, bringUpVars, ipi, handler, flushes, skipped>>

\* A CPU that takes no requests is passed over, an error that
\* smpFlushEntryRange() does not look at; as is a lack of memory.  The
\* message's memory may lie on a page that was mapped just now, which the
\* target must flush too.
Allocate(c) ==
  /\ Running(c, "status")
  /\ IF statusFlag[target[c]] = "NOT_TAKING_REQUESTS"
     THEN NextTarget(c)
     ELSE \/ Goto(c, "insert") /\ UNCHANGED target
          \/ Goto(c, "insertPage") /\ UNCHANGED target
          \/ NextTarget(c)
  /\ UNCHANGED <<statusFlag, messageQueue, bringUpVars, ipi, handler, flushes, skipped>>

InsertPage(c) ==
  /\ Running(c, "insertPage")
  /\ messageQueue' = [messageQueue EXCEPT ![target[c]] = Append(@, PageMsg(c))]
  /\ Goto(c, "insert")
  /\ UNCHANGED <<statusFlag, bringUpVars, ipi, handler, target, flushes, skipped>>

Insert(c) ==
  /\ Running(c, "insert")
  /\ messageQueue' = [messageQueue EXCEPT ![target[c]] = Append(@, Msg(c))]
  /\ Goto(c, "check")
  /\ UNCHANGED <<statusFlag, bringUpVars, ipi, handler, target, flushes, skipped>>

\* The status is read again, after the message is in the queue.
Check(c) ==
  /\ Running(c, "check")
  /\ IF statusFlag[target[c]] = "NOT_PROCESSING"
     THEN Goto(c, "ipi") /\ UNCHANGED <<target, skipped>>
     ELSE /\ NextTarget(c)
          /\ skipped' = [skipped EXCEPT ![target[c]] = @ \union {Msg(c), PageMsg(c)}]
  /\ UNCHANGED <<statusFlag, messageQueue, bringUpVars, ipi, handler, flushes>>

\* A time-out of the send is an error nobody looks at; the interrupt stays
\* with the LAPIC.
SendIpi(c) ==
  /\ Running(c, "ipi")
  /\ ipi' = [ipi EXCEPT ![target[c]] = TRUE]
  /\ NextTarget(c)
  /\ UNCHANGED <<statusFlag, messageQueue, bringUpVars, handler, flushes, skipped>>
-----------------------------------------------------------------------------
(* The interrupt's handler, with the CPU's interrupts off: dispatch().     *)

IpiEnter(c) ==
  /\ ipi[c] /\ irqsOn[c] /\ handler[c] = "none"
  /\ ipi' = [ipi EXCEPT ![c] = FALSE]
  /\ statusFlag' = [statusFlag EXCEPT ![c] = "PROCESSING"]
  /\ handler' = [handler EXCEPT ![c] = "pop"]
  /\ UNCHANGED <<messageQueue, bringUpVars, pc, target, flushes, skipped>>

Dispatch(c) ==
  /\ handler[c] = "pop" /\ messageQueue[c] # <<>>
  /\ messageQueue' = [messageQueue EXCEPT ![c] = Tail(@)]
  /\ skipped' = [skipped EXCEPT ![c] = @ \ {Head(messageQueue[c])}]
  /\ UNCHANGED <<statusFlag, bringUpVars, ipi, handler, pc, target, flushes>>

DispatchEmpty(c) ==
  /\ handler[c] = "pop" /\ messageQueue[c] = <<>>
  /\ handler' = [handler EXCEPT ![c] = "done"]
  /\ UNCHANGED <<statusFlag, messageQueue, bringUpVars, ipi, pc, target, flushes, skipped>>

DispatchEnd(c) ==
  /\ handler[c] = "done"
  /\ statusFlag' = [statusFlag EXCEPT ![c] = "NOT_PROCESSING"]
  /\ handler' = [handler EXCEPT ![c] = "none"]
  /\ UNCHANGED <<messageQueue, bringUpVars, ipi, pc, target, flushes, skipped>>

Next ==
  \E c \in Cpus :
    \/ Bind(c) \/ Announce(c) \/ EnableInterrupts(c)
    \/ FlushCall(c) \/ Scan(c) \/ Allocate(c) \/ InsertPage(c) \/ Insert(c) \/ Check(c)
    \/ SendIpi(c)
    \/ IpiEnter(c) \/ Dispatch(c) \/ DispatchEmpty(c) \/ DispatchEnd(c)

Spec == Init /\ [][Next]_vars
-----------------------------------------------------------------------------
Statuses == {"NOT_TAKING_REQUESTS", "NOT_PROCESSING", "PROCESSING"}
Messages == [from : Cpus, n : 0 .. MaxFlushes, kind : {"range", "page"}]

TypeOK ==
  /\ statusFlag \in [Cpus -> Statuses]
  /\ messageQueue \in [Cpus -> Seq(Messages)]
  /\ availableCpus \subseteq Cpus
  /\ irqsOn \in [Cpus -> BOOLEAN] /\ ipi \in [Cpus -> BOOLEAN]
  /\ handler \in [Cpus -> {"none", "pop", "done"}]
  /\ pc \in [Cpus -> {"idle", "scan", "status", "insertPage", "insert", "check", "ipi"}]
  /\ target \in [Cpus -> 0 .. NCpus]
  /\ flushes \in [Cpus -> 0 .. MaxFlushes]
  /\ skipped \in [Cpus -> SUBSET Messages]

\* The sender of m is still on the way to its second look at c's status.
Deciding(c, m) == target[m.from] = c /\ pc[m.from] \in {"insert", "check", "ipi"}

\* InterCpuMessager::bind() says that no CPU is sent a message before it can
\* take it; so flushTlbRange() refuses none.
NoneRefused == \A c \in Cpus : pc[c] # "idle" => \A t \in availableCpus :
                 statusFlag[t] # "NOT_TAKING_REQUESTS"

\* flushTlbRange() and dispatch(): a message that waits in a CPU's queue is
\* about to be dispatched, or will be when an interrupt comes in that is sent
\* or about to be sent; all but those whose sender saw the CPU at its
\* dispatching, which the last, empty pop() may have missed.
MessageServed ==
  \A c \in Cpus : \A m \in Range(messageQueue[c]) :
    Deciding(c, m) \/ ipi[c] \/ handler[c] = "pop" \/ m \in skipped[c]

\* flushTlbRange(): the page a message lies on is flushed before the message
\* is read.
PageFirst ==
  \A c \in Cpus : \A i, j \in 1 .. Len(messageQueue[c]) :
    LET a == messageQueue[c][i] b == messageQueue[c][j] IN
    a.kind = "page" /\ b.kind = "range" /\ a.from = b.from /\ a.n = b.n => i < j

\* The three together: what the CPUs ask of one another is done, in order.
MessagesServed == NoneRefused /\ MessageServed /\ PageFirst
=============================================================================
