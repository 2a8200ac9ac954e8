------------------------------ MODULE MCTimers ------------------------------
(***************************************************************************)
(* Timers, and below them the interrupts of the timer's pin; a behaviour   *)
(* is about one of them.  The timers are of two processes of one thread    *)
(* each, or of one of two threads; the queues have periods 2 and 1.        *)
(***************************************************************************)
EXTENDS TimerQueue

CONSTANTS p1, p2, c1, c2

MCProcOf == c1 :> p1 @@ c2 :> p2
MCOneProc == c1 :> p1 @@ c2 :> p1
MCPeriods == <<2, 1>>
MCDelays == {-1, 1, 2}

\* The processes with their threads exchanged.
MCSymmetry ==
  {f \in Permutations({p1, p2, c1, c2}) :
     f[p1] \in {p1, p2} /\ f[c1] \in {c1, c2} /\ (f[p1] = p1 <=> f[c1] = c1)}

VARIABLES
  layer,
  machine, head, node, desc, inService, masked, raised, inFlight, pit, act, nOps, nIrqs, overlap, missed, end

irqVars == <<machine, head, node, desc, inService, masked, raised, inFlight, pit, act, nOps, nIrqs, overlap,
             missed, end>>

\* One CPU, with the PIC; two, with the I/O APIC; the timer alone on its pin,
\* or with another driver.
Machine(cpus, drivers, trigger, mode, ops, irqs, identified) ==
  [cpus |-> cpus, drivers |-> drivers, trigger |-> trigger, mode |-> mode, ops |-> ops, irqs |-> irqs,
   identified |-> identified]

Pins == INSTANCE InterruptTrib WITH
  Addresses <- {1, 2}, Statuses <- {"NOT_MINE", "SUCCESS", "RETIRE", "ERROR"},
  Machines <- {Machine(1, {"pit"}, "level", "PERIODIC", 4, 4, {"pin"}),
               Machine(1, {"pit"}, "edge", "ONESHOT", 3, 3, {"pin", "spurious", "gone"}),
               Machine(2, {"pit"}, "edge", "PERIODIC", 3, 2, {"pin"}),
               Machine(2, {"pit", "other"}, "edge", "PERIODIC", 2, 2, {"pin"}),
               Machine(1, {"pit", "other"}, "level", "PERIODIC", 3, 2, {"pin"})}

MCInit ==
  /\ layer \in {"queues", "pin"}
  /\ Init
  /\ Pins!Init /\ (layer = "queues" => machine.trigger = "edge" /\ machine.cpus = 1)

MCNext ==
  \/ layer = "queues" /\ Next /\ UNCHANGED <<layer, irqVars>>
  \/ layer = "pin" /\ Pins!Next /\ UNCHANGED <<layer, vars>>

MCSpec == MCInit /\ [][MCNext]_<<layer, vars, irqVars>>

\* The timers alone.
QueuesInit == layer = "queues" /\ MCInit
QueuesSpec == QueuesInit /\ [][MCNext]_<<layer, vars, irqVars>>
QueuesFairSpec == QueuesSpec /\ Fairness

\* TimerQueue: of the requests of a process one is in a queue, and never two.
OneIsActive == OnePerProcess /\ NotSilenced

\* InterruptTrib: the list of a pin's ISRs, its mask and the driver agree.
InterruptsServed == layer = "pin" => Pins!InterruptsServed
=============================================================================
