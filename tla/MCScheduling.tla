---------------------------- MODULE MCScheduling ----------------------------
(***************************************************************************)
(* The scheduler under three users, one in each behaviour: a MessageStream *)
(* on two CPUs, a SingleWaiterQueue on one, and threads that block, wake   *)
(* and halt each other on one.  th1 runs first on cpu0 and receives.       *)
(***************************************************************************)
EXTENDS MessageStream, TLC

CONSTANTS cpu0, cpu1, th1, th2, th3, MaxItems, UrgentReceiver

VARIABLES
  user,
  thread, items, added

queueVars == <<thread, items, added>>
allVars == <<user, vars, queueVars>>

\* The constants of the stream's scheduler.
MCCpuOf == th1 :> cpu0 @@ th2 :> cpu0 @@ th3 :> cpu1
MCBooting == cpu0 :> th1 @@ cpu1 :> th3
MCPrio == [t \in Threads |-> IF t = th1 /\ UrgentReceiver THEN 16 ELSE 8]
MCRealTime == IF UrgentReceiver THEN {th1} ELSE {}

Q ==
  INSTANCE SingleWaiterQueue WITH
    Cpus <- {cpu0}, CpuOf <- [t \in Threads |-> cpu0], Booting <- (cpu0 :> th1),
    RealTime <- {}, Unscheduled <- {}, Yielders <- {th2, th3},
    Queues <- {th1}, Server <- th1, Clients <- {th2, th3}, IsrCpus <- {cpu0},
    IsrAdds <- FALSE

C ==
  INSTANCE ThreadControl WITH
    Cpus <- {cpu0}, CpuOf <- [t \in Threads |-> cpu0], Booting <- (cpu0 :> th1),
    RealTime <- {}, Unscheduled <- {th3}, Yielders <- Threads,
    Queues <- {th1}, Callers <- Threads, Sleepers <- {th2, th3}, Foreign <- TRUE

\* No message was sent; nobody waits for an item.
NoStream ==
  /\ queues = [r \in Receivers |-> [s \in Subsystems |-> 0]]
  /\ pendingSubsystems = [r \in Receivers |-> {}]
  /\ want = [r \in Receivers |-> {}]
  /\ sent = 0
NoQueue == thread = Nobody /\ items = 0 /\ added = 0

MCInit ==
  \/ user = "stream" /\ Init /\ NoQueue
  \/ user = "queue" /\ Q!Init /\ NoStream
  \/ user = "control" /\ C!SchedInit /\ NoStream /\ NoQueue

OfStream(A) == user = "stream" /\ A /\ UNCHANGED <<user, queueVars>>
OfQueue(A) == user = "queue" /\ A /\ UNCHANGED <<user, streamVars>>
OfControl(A) == user = "control" /\ A /\ UNCHANGED <<user, streamVars, queueVars>>

MCNext == OfStream(Next) \/ OfQueue(Q!Next) \/ OfControl(C!Next)

MCSpec == MCInit /\ [][MCNext]_allVars

\* The fairness of the three modules, CPU by CPU.
MCThreadStep(c) ==
  OfStream(ThreadStep(c)) \/ OfQueue(Q!ThreadStep(c)) \/ OfControl(C!ThreadStep(c))
MCThreadYields(c) ==
  OfStream(ThreadYields(c)) \/ OfQueue(Q!ThreadYields(c)) \/ OfControl(C!ThreadYields(c))
MCPull(c) ==
  \/ OfStream(Pull(c) /\ UNCHANGED streamVars)
  \/ OfQueue(Q!Pull(c) /\ UNCHANGED queueVars)
  \/ OfControl(C!Pull(c))
MCIsrStep(c) == OfStream(IsrStep(c)) \/ OfQueue(Q!IsrStep(c)) \/ OfControl(C!IsrStep(c))
MCTick(c) == OfStream(Tick(c)) \/ OfQueue(Q!Tick(c)) \/ OfControl(C!Tick(c))

MCFairSpec ==
  /\ MCSpec
  /\ SF_allVars(MCThreadStep(cpu0)) /\ SF_allVars(MCThreadYields(cpu0)) /\ SF_allVars(MCPull(cpu0))
  /\ WF_allVars(MCIsrStep(cpu0)) /\ WF_allVars(MCTick(cpu0))
  /\ SF_allVars(OfStream(ThreadStep(cpu1))) /\ SF_allVars(OfStream(ThreadYields(cpu1)))
  /\ SF_allVars(OfStream(Pull(cpu1) /\ UNCHANGED streamVars)) /\ WF_allVars(OfStream(IsrStep(cpu1)))
-----------------------------------------------------------------------------
(* The properties are stated, with their comments, in the modules; so is   *)
(* NoLostWakeup, of MessageStream.                                         *)


\* Scheduler: the holder of a WaitLock keeps its CPU.
HolderKeepsCpu == user = "stream" => HolderNotSwitchedOut

\* MessageStream: a pull() for a message that is there returns.
PullReturns ==
  (user = "stream" /\ ~ Returns(th1) /\ HasMessage(th1)) ~> (user = "stream" => Returns(th1))



\* ThreadControl: a dormant thread stays so until wake().
DormantHalts == C!DormantHalts

=============================================================================
