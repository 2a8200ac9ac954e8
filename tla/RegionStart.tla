----------------------------- MODULE RegionStart -----------------------------
(***************************************************************************)
(* Instantiation of a device: commonlibs/libzbzcore/driverPath.cpp (the    *)
(* main thread of a driver process) and devicePath.cpp (one thread for     *)
(* every region of the device), with the calls of kernel/common/           *)
(* floodplainn/{zudi,udi_channel,device}.cpp they make.                    *)
(*                                                                         *)
(* The main thread spawns the region threads and fills in their places in  *)
(* the device instance, while those already spawned run.  A region asks    *)
(* the main thread twice: for the driver's cached information, and, to be  *)
(* sure that the main thread has finished its loop, for nothing at all     *)
(* (REGION_INIT_SYNC_REQ).  Only then it spawns its bind channels.         *)
(***************************************************************************)
EXTENDS Naturals, Sequences, SequencesExt

CONSTANTS
  NRegions,    \* driver->nRegions, index 0 is the primary region
  TagRegion    \* for every parent tag of the device, the region of its parent bop

Regions == 0 .. NRegions - 1

VARIABLES
  main,      \* where the main thread is in instantiateDeviceReq
  mainQ,     \* its queue
  reg,       \* the region threads
  regQ,      \* their queues
  inst,      \* dev->instance: the region array, the counters, the channels
  parentCh,  \* channels added to the parent device's instance
  ctxt,      \* the sKernelCallMsg every region thread was handed
  acks,      \* answers to the requester, TRUE for ERROR_SUCCESS
  outcome    \* "stray": freed memory was used; "panic": an assertion failed

startVars == <<main, mainQ, reg, regQ, inst, parentCh, ctxt, acks, outcome>>

NoInstance == [live |-> FALSE, info |-> {}, pointer |-> {}, initialized |-> 0, failed |-> 0, channels |-> {}]
Instance == [NoInstance EXCEPT !.live = TRUE]

Init ==
  /\ main = [pc |-> "loop", i |-> 0] /\ mainQ = <<>>
  /\ reg = [r \in Regions |-> [pc |-> "none", told |-> "nothing"]]
  /\ regQ = [r \in Regions |-> <<>>]
  /\ inst = NoInstance /\ parentCh = {}
  /\ ctxt = "none" /\ acks = <<>> /\ outcome = "runs"

Running == outcome = "runs"
Halt(o) == outcome' = o /\ UNCHANGED <<main, mainQ, reg, regQ, inst, parentCh, ctxt, acks>>

-----------------------------------------------------------------------------
(* zudi.cpp: the request and the answer.                                   *)

\* The instance is created and the driver process is told; when either fails
\* the caller has the error at once.
instantiateDeviceReq ==
  /\ Running /\ ~inst.live /\ acks = <<>> /\ mainQ = <<>>
  /\ \/ inst' = Instance /\ mainQ' = <<[fn |-> "kcall"]>> /\ UNCHANGED acks
     \/ acks' = <<FALSE>> /\ UNCHANGED <<inst, mainQ>>
  /\ UNCHANGED <<main, reg, regQ, parentCh, ctxt, outcome>>

\* An error takes the instance away again; the region threads stay.
Answered(ok) ==
  /\ acks' = Append(acks, ok)
  /\ inst' = IF ok THEN inst ELSE NoInstance

\* driverPath.cpp: the copy of the request is deleted with the answer.
instantiateDeviceAck(ok) == Answered(ok) /\ ctxt' = "freed"

-----------------------------------------------------------------------------
(* driverPath.cpp: the main thread.                                        *)

\* __kcontrol::handler: without a copy of the message there is only the answer.
KControlHandler ==
  /\ main.pc = "loop" /\ mainQ # <<>> /\ Head(mainQ).fn = "kcall"
  /\ mainQ' = Tail(mainQ)
  /\ \/ Answered(FALSE) /\ UNCHANGED <<main, ctxt>>
     \/ main' = [pc |-> "spawn", i |-> 0] /\ ctxt' = "held" /\ UNCHANGED <<inst, acks>>
  /\ UNCHANGED <<reg, regQ, parentCh, outcome>>

\* The loop of instantiateDeviceReq: the thread runs from here on, and its
\* place in the instance is filled in by the two steps after this one.
SpawnRegion ==
  /\ main.pc = "spawn"
  /\ \/ /\ reg' = [reg EXCEPT ![main.i].pc = "main"]
        /\ main' = [main EXCEPT !.pc = "info"]
        /\ UNCHANGED <<inst, ctxt, acks>>
     \/ instantiateDeviceAck(FALSE) /\ main' = [main EXCEPT !.pc = "loop"] /\ UNCHANGED reg
  /\ UNCHANGED <<mainQ, regQ, parentCh, outcome>>

setRegionInfo ==
  /\ main.pc = "info"
  /\ inst' = [inst EXCEPT !.info = @ \union {main.i}]
  /\ main' = [main EXCEPT !.pc = "pointer"]
  /\ UNCHANGED <<mainQ, reg, regQ, parentCh, ctxt, acks, outcome>>

setThreadRegionPointer ==
  /\ main.pc = "pointer"
  /\ inst' = [inst EXCEPT !.pointer = @ \union {main.i}]
  /\ main' = IF main.i + 1 = NRegions THEN [pc |-> "loop", i |-> 0] ELSE [pc |-> "spawn", i |-> main.i + 1]
  /\ UNCHANGED <<mainQ, reg, regQ, parentCh, ctxt, acks, outcome>>

\* localService::handler: the two requests of the regions are echoed.
LocalServiceHandler ==
  /\ main.pc = "loop" /\ mainQ # <<>> /\ Head(mainQ).fn \in {"info", "sync"}
  /\ mainQ' = Tail(mainQ)
  /\ regQ' = [regQ EXCEPT ![Head(mainQ).r] = Append(@, Head(mainQ).fn)]
  /\ UNCHANGED <<main, reg, inst, parentCh, ctxt, acks, outcome>>

\* Counts one report; the last one decides the answer.
Counted(ok) == [inst EXCEPT !.initialized = IF ok THEN @ + 1 ELSE @, !.failed = IF ok THEN @ ELSE @ + 1]
LastReport_SuccessesOnly(n) == n.initialized = NRegions
LastReport(n) == n.initialized + n.failed = NRegions

regionInitInd ==
  /\ main.pc = "loop" /\ mainQ # <<>> /\ Head(mainQ).fn = "ind"
  /\ IF ctxt = "freed" \/ ~inst.live THEN Halt("stray")
     ELSE LET n == Counted(Head(mainQ).ok)
              ok == n.failed = 0
          IN  /\ mainQ' = Tail(mainQ)
              /\ IF LastReport(n) THEN /\ acks' = Append(acks, ok) /\ ctxt' = "freed"
                                       /\ inst' = IF ok THEN n ELSE NoInstance
                 ELSE inst' = n /\ UNCHANGED <<acks, ctxt>>
              /\ UNCHANGED <<main, reg, regQ, parentCh, outcome>>

-----------------------------------------------------------------------------
(* devicePath.cpp: a region thread.                                        *)

postRegionInitInd(r, ok) == mainQ' = Append(mainQ, [fn |-> "ind", r |-> r, ok |-> ok])
Post(fn, r) == mainQ' = Append(mainQ, [fn |-> fn, r |-> r])

\* region::main up to the first request.
RegionMain(r) ==
  /\ reg[r].pc = "main"
  /\ IF ctxt = "freed" \/ ~inst.live THEN Halt("stray")
     ELSE /\ \/ postRegionInitInd(r, FALSE) /\ reg' = [reg EXCEPT ![r] = [pc |-> "gone", told |-> "failure"]]
             \/ Post("info", r) /\ reg' = [reg EXCEPT ![r].pc = "index"]
          /\ UNCHANGED <<main, regQ, inst, parentCh, ctxt, acks, outcome>>

\* The assertion on the region's own index: the places at and after the
\* one the main thread is about to fill in hold no thread yet.
RegionIndex(r) ==
  /\ reg[r].pc = "index"
  /\ IF ~inst.live THEN Halt("stray")
     ELSE IF r \notin inst.info THEN Halt("panic")
     ELSE reg' = [reg EXCEPT ![r].pc = "loop"]
          /\ UNCHANGED <<main, mainQ, regQ, inst, parentCh, ctxt, acks, outcome>>

\* The region data: no secondary_init entry, or no memory, is a failure.
main1(r) ==
  /\ reg[r].pc = "loop" /\ regQ[r] # <<>> /\ Head(regQ[r]) = "info"
  /\ regQ' = [regQ EXCEPT ![r] = Tail(@)]
  /\ \/ Post("sync", r) /\ UNCHANGED reg
     \/ postRegionInitInd(r, FALSE) /\ reg' = [reg EXCEPT ![r].told = "failure"]
  /\ UNCHANGED <<main, inst, parentCh, ctxt, acks, outcome>>

\* The steps of main2 as the outcomes they may have: whether the region goes
\* on, and the channels added by then.  createChannel adds the channel to the
\* instances before the steps that may still fail.
Tried(o, own, up) ==
  {[o EXCEPT !.ok = FALSE],
   [o EXCEPT !.ok = FALSE, !.own = @ \union {own}, !.up = @ \union up],
   [o EXCEPT !.own = @ \union {own}, !.up = @ \union up]}

spawnInternalBindChannel(r) ==
  LET o == [ok |-> TRUE, own |-> inst.channels, up |-> parentCh]
  IN  IF r = 0 THEN {o} ELSE Tried(o, [type |-> "internal", region |-> r], {})

\* One parent tag: only the region of the tag's parent bop binds.
BindToParent(o, r, t) ==
  IF ~o.ok \/ TagRegion[t] # r THEN {o}
  ELSE Tried(o, [type |-> "child", region |-> r, tag |-> t], {[type |-> "child", tag |-> t]})

ParentTagLoop(r) ==
  FoldLeft(LAMBDA os, t : UNION {BindToParent(o, r, t) : o \in os},
           spawnInternalBindChannel(r), [t \in 1 .. Len(TagRegion) |-> t])

main2(r) ==
  /\ reg[r].pc = "loop" /\ regQ[r] # <<>> /\ Head(regQ[r]) = "sync"
  /\ IF ctxt = "freed" \/ ~inst.live THEN Halt("stray")
     ELSE IF {0, r} \ inst.info # {} \/ {0, r} \ inst.pointer # {} THEN Halt("panic")
     ELSE \E o \in ParentTagLoop(r) :
            /\ regQ' = [regQ EXCEPT ![r] = Tail(@)]
            /\ inst' = [inst EXCEPT !.channels = o.own] /\ parentCh' = o.up
            /\ postRegionInitInd(r, o.ok)
            /\ reg' = [reg EXCEPT ![r].told = IF o.ok THEN "success" ELSE "failure"]
            /\ UNCHANGED <<main, ctxt, acks, outcome>>

Next ==
  \/ instantiateDeviceReq
  \/ Running /\ (KControlHandler \/ SpawnRegion \/ setRegionInfo \/ setThreadRegionPointer
                 \/ LocalServiceHandler \/ regionInitInd)
  \/ \E r \in Regions : Running /\ (RegionMain(r) \/ RegionIndex(r) \/ main1(r) \/ main2(r))

Spec == Init /\ [][Next]_startVars

-----------------------------------------------------------------------------
(* Properties.                                                             *)

Spawned == {r \in Regions : reg[r].pc # "none"}

\* The main thread gave up between two regions.
Abandoned == acks = <<FALSE>> /\ Spawned # {} /\ Spawned # Regions

\* The main thread is between the spawn of r and the step that fills in its place.
Unplaced(r) == main.pc = "info" /\ main.i = r

\* Nothing is under way.
Quiet == /\ Running /\ main.pc = "loop" /\ mainQ = <<>>
         /\ \A r \in Regions : regQ[r] = <<>> /\ reg[r].pc \in {"none", "gone", "loop"}

\* The device is answered for once, and for good: the requester hears of
\* success only when every region has reported it, has its place and its
\* thread pointer, every secondary region has its internal bind channel and
\* every parent tag its channel in both instances; when nothing is under way
\* any more the requester has its answer.  The context the regions share
\* outlives them all, and the channels are spawned only when every place is
\* filled in, unless a spawn failed part way; the assertion in region::main
\* fails only for a region that overtook the main thread.
DeviceStarted ==
  /\ Len(acks) <= 1
  /\ acks = <<TRUE>> =>
       /\ \A r \in Regions : reg[r].told = "success"
       /\ inst.info = Regions /\ inst.pointer = Regions
       /\ inst.channels = {[type |-> "internal", region |-> r] : r \in Regions \ {0}}
                          \union {[type |-> "child", region |-> TagRegion[t], tag |-> t] : t \in DOMAIN TagRegion}
       /\ parentCh = {[type |-> "child", tag |-> t] : t \in DOMAIN TagRegion}
  /\ (Quiet /\ inst.live) => acks = <<TRUE>>
  /\ (Quiet /\ Spawned # {}) => acks # <<>>
  /\ outcome = "stray" => Abandoned
  /\ outcome = "panic" => \E r \in Regions : Unplaced(r) /\ reg[r].pc = "index"
=============================================================================
