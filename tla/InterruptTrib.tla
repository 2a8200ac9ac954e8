--------------------------- MODULE InterruptTrib ---------------------------
(***************************************************************************)
(* The interrupts of one pin: pinIrqMain, registerPinIsr, retirePinIsr,    *)
(* __kpinEnable and __kpinDisable of kernel/common/interruptTrib, over the *)
(* list of ISRs that the pin keeps (__kclasses/heapList.h), and the driver *)
(* that uses them, the i8254 timer of chipset/ibmPc, with the switch to    *)
(* symmetric I/O mode that stops and restarts it.                          *)
(*                                                                         *)
(* The actors are the CPUs, in their interrupt handler, and the threads of *)
(* the drivers; a handler suspends the threads of its CPU.  A node of the  *)
(* list and the descriptor it holds are addresses, which are used again    *)
(* once they are freed.                                                    *)
(***************************************************************************)
EXTENDS Naturals, Sequences, FiniteSets

CONSTANTS
  Machines,     \* what may be set up: [cpus, drivers, trigger, mode, ops, irqs,
                \* identified]; ops and irqs are bounds
  Addresses,    \* of nodes and of descriptors
  Statuses      \* what the ISR of the other driver returns

Cpus == {"cpu1", "cpu2"}
Threads == {"pit", "other"}
Actors == Cpus \union Threads

VARIABLES
  machine,
  head, node,   \* the list: its first node, and every node's [item, next, live]
  desc,         \* descriptor -> the ISR it names, or "freed"
  inService, masked,
  raised, inFlight,   \* the line of the pin; it is being served
  pit,          \* the state of the i8254
  act,          \* what every actor is doing
  nOps, nIrqs,  \* the calls and the interrupts so far
  overlap,      \* a service or a change of the list began during a change
  missed,       \* the wakeup of the mode switch found nobody asleep
  end           \* "runs", "panic" or "dangling": freed memory was used

listVars == <<head, node, desc>>
pinVars == <<inService, masked, raised, inFlight>>
irqVars == <<machine, listVars, pinVars, pit, act, nOps, nIrqs, overlap, missed, end>>

Free == [item |-> 0, next |-> 0, live |-> FALSE]
Resting == [pc |-> "idle", h |-> 0, tmp |-> 0, it |-> 0, isr |-> "", retire |-> <<>>, then |-> "idle"]

Init ==
  /\ machine \in Machines
  /\ head = 0 /\ node = [n \in Addresses |-> Free] /\ desc = [d \in Addresses |-> "freed"]
  /\ inService = FALSE /\ masked = TRUE /\ raised = FALSE /\ inFlight = FALSE
  /\ pit = [registered |-> FALSE, irqState |-> "DISABLED", enabled |-> FALSE, timer |-> "off",
            lock |-> FALSE, switching |-> FALSE]
  /\ act = [a \in Actors |-> Resting]
  /\ nOps = 0 /\ nIrqs = 0 /\ overlap = FALSE /\ missed = FALSE /\ end = "runs"

RECURSIVE From(_)
From(n) == IF n = 0 THEN <<>> ELSE <<n>> \o From(node[n].next)
List == From(head)
getNItems == Len(List)

\* A thread of a machine with one CPU is on that one.
HomeOf(t) == IF t = "other" /\ machine.cpus = 2 THEN "cpu2" ELSE "cpu1"
Runs(a) == end = "runs" /\ (a \in Threads => act[HomeOf(a)].pc = "idle")
At(a, pc) == Runs(a) /\ act[a].pc = pc
Set(a, r) == act' = [act EXCEPT ![a] = r]
Goto(a, pc) == Set(a, [act[a] EXCEPT !.pc = pc])

\* The actors that may change the list, once they found the pin out of service,
\* and the handlers that still have ISRs of it to retire.
Lists(a) ==
  \/ act[a].pc \in {"rbegin", "match", "rnext", "rstep", "ritem", "remove", "free", "delete", "count", "disable",
                     "mask", "alloc", "insert", "unmask"}
  \/ act[a].pc \in {"eoi", "retire"} /\ act[a].retire # <<>>
  \/ act[a].pc = "rwait" /\ act[a].then = "retire"
Notes(a) == overlap' = (overlap \/ \E b \in Actors \ {a} : Lists(b))

\* What most steps leave alone.
Keeps == UNCHANGED <<machine, nOps, nIrqs, missed, end>>
Shared == UNCHANGED <<listVars, pinVars, pit>> /\ Keeps
Private == Shared /\ UNCHANGED overlap
Dies(how) == end' = how /\ UNCHANGED <<machine, listVars, pinVars, pit, act, nOps, nIrqs, overlap, missed>>

-----------------------------------------------------------------------------
(* HeapList::getNextItem.  The magic number of the node is looked at before*)
(* the lock is taken and the next item is read after it is released.       *)

\* A new walk: the first item, or none, under the lock.
Begin(a, pc, found, over) ==
  /\ At(a, pc)
  /\ IF head = 0
     THEN Set(a, [act[a] EXCEPT !.pc = over, !.h = 0, !.it = 0])
     ELSE Set(a, [act[a] EXCEPT !.pc = found, !.h = head, !.it = node[head].item])
  /\ Private

\* A node that was freed ends the walk.
CheckMagic(a, pc, step, over) ==
  /\ At(a, pc)
  /\ Goto(a, IF node[act[a].h].live THEN step ELSE over)
  /\ Private

Advance(a, pc, item, over) ==
  /\ At(a, pc)
  /\ LET n == act[a].h IN
     IF ~node[n].live THEN Dies("dangling")
     ELSE /\ IF node[n].next = 0
             THEN Goto(a, over)
             ELSE Set(a, [act[a] EXCEPT !.pc = item, !.h = node[n].next, !.tmp = n])
          /\ Private

ReadItem(a, pc, found) ==
  /\ At(a, pc)
  /\ LET n == act[a].tmp IN
     IF ~node[n].live \/ node[n].next = 0 \/ ~node[node[n].next].live THEN Dies("dangling")
     ELSE Set(a, [act[a] EXCEPT !.pc = found, !.it = node[node[n].next].item]) /\ Private

\* A node in front; the caller has the memory for it.
insert(n, d) ==
  /\ node' = [node EXCEPT ![n] = [item |-> d, next |-> head, live |-> TRUE]]
  /\ head' = n

\* The node is unlinked under the lock and freed after it.
Unlinked(n) ==
  LET before == {m \in Addresses : m \in {List[i] : i \in 1 .. getNItems} /\ node[m].next = n} IN
  /\ head' = IF head = n THEN node[n].next ELSE head
  /\ node' = [m \in Addresses |-> IF m \in before THEN [node[m] EXCEPT !.next = node[n].next] ELSE node[m]]

-----------------------------------------------------------------------------
(* The controller and pinIrqMain.                                          *)

\* The i8254 counts down, or another device on the line raises it.
Raise ==
  /\ end = "runs" /\ nIrqs < machine.irqs /\ nIrqs' = nIrqs + 1
  /\ raised' = TRUE
  /\ \/ /\ pit.timer # "off"
        /\ pit' = [pit EXCEPT !.timer = IF @ = "once" THEN "off" ELSE @]
     \/ "other" \in machine.drivers /\ UNCHANGED pit
  /\ UNCHANGED <<machine, listVars, inService, masked, inFlight, act, nOps, overlap, missed, end>>

\* A line is served by one CPU until the end-of-interrupt, and by none whose
\* thread spins with interrupts off.
Deliver(c) ==
  /\ At(c, "idle") /\ (c = "cpu2" => machine.cpus = 2)
  /\ raised /\ ~masked /\ ~inFlight
  /\ ~(pit.lock /\ c = HomeOf("pit"))
  /\ raised' = FALSE /\ inFlight' = TRUE
  /\ \E status \in machine.identified :
       Goto(c, CASE status = "pin" -> "enter" [] status = "spurious" -> "halted" [] OTHER -> "idle")
  /\ UNCHANGED <<listVars, inService, masked, pit, overlap>> /\ Keeps

pinIrqMain_Enter(c) ==
  /\ At(c, "enter")
  /\ inService' = TRUE /\ Goto(c, "begin") /\ Notes(c)
  /\ UNCHANGED <<listVars, masked, raised, inFlight, pit>> /\ Keeps

\* What the walk does with the status of an ISR.
Walked(c, status) ==
  LET queued == IF status = "RETIRE" THEN Append(act[c].retire, act[c].it) ELSE act[c].retire
      last == status # "NOT_MINE" /\ machine.trigger = "level" IN
  [act[c] EXCEPT !.retire = queued, !.pc = IF last THEN "leave" ELSE "next"]

\* The disabling interrupt: the ISR forgets that it is registered.
pitIsr_Disabling(c) ==
  /\ pit.irqState = "DISABLING"
  /\ pit' = [pit EXCEPT !.registered = FALSE, !.irqState = "DISABLED"]
  /\ Set(c, IF pit.switching THEN [act[c] EXCEPT !.pc = "wake"] ELSE Walked(c, "RETIRE"))

pitIsr_Tick(c) ==
  /\ pit.irqState # "DISABLING"
  /\ pit' = [pit EXCEPT !.enabled = @ /\ machine.mode # "ONESHOT"]
  /\ Set(c, Walked(c, IF pit.enabled THEN "SUCCESS" ELSE "NOT_MINE"))

\* The thread of the mode switch is woken, if it sleeps already.
pitIsr_Wakes(c) ==
  /\ At(c, "wake")
  /\ LET asleep == act["pit"].pc = "blocked" IN
     /\ act' = [act EXCEPT ![c] = Walked(c, "RETIRE"), !["pit"].pc = IF asleep THEN "woken" ELSE @]
     /\ missed' = (missed \/ ~asleep)
  /\ UNCHANGED <<machine, listVars, pinVars, pit, nOps, nIrqs, overlap, end>>

pinIrqMain_Isr(c) ==
  /\ At(c, "isr")
  /\ \/ /\ desc[act[c].it] = "freed" /\ Dies("dangling")
     \/ /\ desc[act[c].it] = "pit" /\ ~pit.lock
        /\ pitIsr_Disabling(c) \/ pitIsr_Tick(c)
        /\ UNCHANGED <<listVars, pinVars, overlap>> /\ Keeps
     \/ /\ desc[act[c].it] = "other"
        /\ \E status \in Statuses :
             IF status = "ERROR" THEN Dies("panic")
             ELSE Set(c, Walked(c, status)) /\ Private

pinIrqMain_Leave(c) ==
  /\ At(c, "leave")
  /\ inService' = FALSE /\ Goto(c, "eoi")
  /\ UNCHANGED <<listVars, masked, raised, inFlight, pit, overlap>> /\ Keeps

pinIrqMain_Eoi(c) ==
  /\ At(c, "eoi")
  /\ inFlight' = FALSE /\ Goto(c, "retire")
  /\ UNCHANGED <<listVars, inService, masked, raised, pit, overlap>> /\ Keeps

\* The ISRs that asked for it are retired, by name, after the interrupt.
pinIrqMain_Retire(c) ==
  /\ At(c, "retire")
  /\ IF act[c].retire = <<>> THEN Set(c, Resting) /\ Private
     ELSE LET d == Head(act[c].retire) IN
          IF desc[d] = "freed" THEN Dies("dangling")
          ELSE /\ Set(c, [act[c] EXCEPT !.pc = "rwait", !.isr = desc[d], !.retire = Tail(@), !.then = "retire"])
               /\ Private

pinIrqMain(c) ==
  \/ Deliver(c) \/ pinIrqMain_Enter(c) \/ pinIrqMain_Isr(c) \/ pitIsr_Wakes(c)
  \/ pinIrqMain_Leave(c) \/ pinIrqMain_Eoi(c) \/ pinIrqMain_Retire(c)
  \/ (Begin(c, "begin", "isr", "leave") \/ CheckMagic(c, "next", "step", "leave")
               \/ Advance(c, "step", "item", "leave") \/ ReadItem(c, "item", "isr"))

-----------------------------------------------------------------------------
(* registerPinIsr and retirePinIsr wait for the service of the pin to end  *)
(* before they touch the list.                                             *)

Return(a) == Set(a, IF act[a].then = "idle" THEN Resting ELSE [act[a] EXCEPT !.pc = act[a].then])

\* The pin is not in service; what follows does not keep it so.
Waits_Never(a, pc, to) == At(a, pc) /\ Goto(a, to) /\ Notes(a) /\ Shared
Waits(a, pc, to) == At(a, pc) /\ ~inService /\ Goto(a, to) /\ Notes(a) /\ Shared

\* "then" is where a registration that failed goes, "registered" where one
\* that succeeded does.
registerPinIsr_Alloc(t) ==
  /\ At(t, "alloc")
  /\ \/ \E d \in {x \in Addresses : desc[x] = "freed"} :
          /\ desc' = [desc EXCEPT ![d] = t] /\ Set(t, [act[t] EXCEPT !.it = d, !.pc = "insert"])
     \/ Return(t) /\ UNCHANGED desc
  /\ UNCHANGED <<head, node, pinVars, pit, overlap>> /\ Keeps

registerPinIsr_Insert(t) ==
  /\ At(t, "insert")
  /\ \/ \E n \in {x \in Addresses : node[x] = Free} :
          insert(n, act[t].it) /\ Goto(t, "registered") /\ UNCHANGED desc
     \/ desc' = [desc EXCEPT ![act[t].it] = "freed"] /\ Return(t) /\ UNCHANGED <<head, node>>
  /\ UNCHANGED <<pinVars, pit, overlap>> /\ Keeps

retirePinIsr_Match(a) ==
  /\ At(a, "match")
  /\ LET isr == desc[act[a].it] IN
     IF isr = "freed" THEN Dies("dangling")
     ELSE Goto(a, IF isr = act[a].isr THEN "remove" ELSE "rnext") /\ Private

retirePinIsr_Remove(a) ==
  /\ At(a, "remove")
  /\ LET at == {i \in 1 .. getNItems : node[List[i]].item = act[a].it}
         n == List[CHOOSE i \in at : \A j \in at : i <= j] IN
     IF at = {} THEN Goto(a, "delete") /\ UNCHANGED <<head, node>>
     ELSE Unlinked(n) /\ Set(a, [act[a] EXCEPT !.pc = "free", !.h = n])
  /\ UNCHANGED <<desc, pinVars, pit, overlap>> /\ Keeps

retirePinIsr_Free(a) ==
  /\ At(a, "free")
  /\ node' = [node EXCEPT ![act[a].h] = Free] /\ Goto(a, "delete")
  /\ UNCHANGED <<head, desc, pinVars, pit, overlap>> /\ Keeps

retirePinIsr_Delete(a) ==
  /\ At(a, "delete")
  /\ IF desc[act[a].it] = "freed" THEN Dies("dangling")
     ELSE /\ desc' = [desc EXCEPT ![act[a].it] = "freed"] /\ Goto(a, "count")
          /\ UNCHANGED <<head, node, pinVars, pit, overlap>> /\ Keeps

\* An empty list is looked for twice, here and in __kpinDisable.
retirePinIsr_Count(a) ==
  /\ At(a, "count")
  /\ IF head = 0 THEN Goto(a, "disable") ELSE Return(a)
  /\ Private

__kpinDisable_Count(a) ==
  /\ At(a, "disable")
  /\ IF head = 0 THEN Goto(a, "mask") ELSE Return(a)
  /\ Private

__kpinDisable_Mask(a) ==
  /\ At(a, "mask")
  /\ masked' = TRUE /\ Return(a)
  /\ UNCHANGED <<listVars, inService, raised, inFlight, pit, overlap>> /\ Keeps

retirePinIsr(a) ==
  \/ Waits(a, "rwait", "rbegin") \/ retirePinIsr_Match(a) \/ retirePinIsr_Remove(a) \/ retirePinIsr_Free(a)
  \/ retirePinIsr_Delete(a) \/ retirePinIsr_Count(a) \/ __kpinDisable_Count(a) \/ __kpinDisable_Mask(a)
  \/ (Begin(a, "rbegin", "match", act[a].then) \/ CheckMagic(a, "rnext", "rstep", act[a].then)
               \/ Advance(a, "rstep", "ritem", act[a].then) \/ ReadItem(a, "ritem", "match"))

__kpinEnable_Count(t) ==
  /\ At(t, "count_enable")
  /\ IF head # 0 THEN Goto(t, "unmask") ELSE Set(t, [act[t] EXCEPT !.pc = "rwait", !.isr = t, !.then = "idle"])
  /\ Notes(t) /\ Shared

__kpinEnable_Unmask(t) ==
  /\ At(t, "unmask")
  /\ masked' = FALSE /\ Set(t, Resting)
  /\ UNCHANGED <<listVars, inService, raised, inFlight, pit, overlap>> /\ Keeps

-----------------------------------------------------------------------------
(* The driver of the i8254.  Its lock keeps interrupts off.                *)

Calls(t) == At(t, "idle") /\ t \in machine.drivers /\ nOps < machine.ops /\ nOps' = nOps + 1
Pit(p) == pit' = p /\ UNCHANGED <<listVars, pinVars, overlap>> /\ UNCHANGED <<machine, nIrqs, missed, end>>

\* enable, by a caller that has latched the device and set its mode:
\* isrRegistered is read before the lock is taken.
I8254Enable(t, pc) == Goto(t, pc)
enable ==
  /\ Calls("pit")
  /\ I8254Enable("pit", IF pit.registered THEN "set_enabled" ELSE "lock") /\ Pit(pit)

enable_Lock ==
  /\ At("pit", "lock") /\ ~pit.lock
  /\ Set("pit", [act["pit"] EXCEPT !.pc = "wait", !.then = "unlock"])
  /\ Pit([pit EXCEPT !.lock = TRUE]) /\ UNCHANGED nOps

enable_Registered ==
  /\ At("pit", "registered")
  /\ Goto("pit", "write_io")
  /\ Pit([pit EXCEPT !.registered = TRUE, !.irqState = "ENABLED", !.lock = FALSE]) /\ UNCHANGED nOps

\* The registration failed.
enable_Unlock ==
  /\ At("pit", "unlock")
  /\ Set("pit", Resting) /\ Pit([pit EXCEPT !.lock = FALSE]) /\ UNCHANGED nOps

enable_Set ==
  /\ At("pit", "set_enabled") /\ ~pit.lock
  /\ Goto("pit", "write_io") /\ Pit([pit EXCEPT !.irqState = "ENABLED"]) /\ UNCHANGED nOps

writeIo ==
  /\ At("pit", "write_io") /\ ~pit.lock
  /\ Goto("pit", "count_enable")
  /\ Pit([pit EXCEPT !.enabled = TRUE, !.timer = IF machine.mode = "ONESHOT" THEN "once" ELSE "periodic"])
  /\ UNCHANGED nOps

\* The counter is set for one last interrupt, in which the ISR retires itself.
Disabled(p) == [p EXCEPT !.enabled = FALSE, !.irqState = "DISABLING", !.timer = "once"]
disable ==
  /\ Calls("pit") /\ ~pit.lock
  /\ Pit(Disabled(pit)) /\ UNCHANGED act

\* The switch to symmetric I/O mode: a timer that runs is disabled, the
\* thread sleeps until the last interrupt, and the timer is enabled again.
setSmpMode ==
  /\ Calls("pit") /\ pit.enabled /\ ~pit.lock
  /\ Goto("pit", "block") /\ Pit([Disabled(pit) EXCEPT !.switching = TRUE])

setSmpMode_Block ==
  /\ At("pit", "block")
  /\ Goto("pit", "blocked") /\ Pit(pit) /\ UNCHANGED nOps

setSmpMode_Woken ==
  /\ At("pit", "woken")
  /\ I8254Enable("pit", IF pit.registered THEN "set_enabled" ELSE "lock")
  /\ Pit([pit EXCEPT !.switching = FALSE]) /\ UNCHANGED nOps

\* A driver that registers and retires without more ado.
otherRegisters ==
  /\ Calls("other") /\ \A d \in Addresses : desc[d] # "other"
  /\ Set("other", [act["other"] EXCEPT !.pc = "wait", !.then = "idle"]) /\ Pit(pit)

otherRegistered ==
  /\ At("other", "registered")
  /\ Goto("other", "count_enable") /\ Pit(pit) /\ UNCHANGED nOps

otherRetires ==
  /\ Calls("other") /\ \E d \in Addresses : desc[d] = "other"
  /\ Set("other", [act["other"] EXCEPT !.pc = "rwait", !.isr = "other", !.then = "idle"]) /\ Pit(pit)

Driver(t) ==
  \/ Waits(t, "wait", "alloc") \/ registerPinIsr_Alloc(t) \/ registerPinIsr_Insert(t)
  \/ __kpinEnable_Count(t) \/ __kpinEnable_Unmask(t)

Next ==
  \/ Raise
  \/ \E c \in Cpus : pinIrqMain(c)
  \/ \E a \in Actors : retirePinIsr(a)
  \/ \E t \in Threads : Driver(t)
  \/ enable \/ enable_Lock \/ enable_Registered \/ enable_Unlock \/ enable_Set \/ writeIo
  \/ disable \/ setSmpMode \/ setSmpMode_Block \/ setSmpMode_Woken
  \/ otherRegisters \/ otherRegistered \/ otherRetires

-----------------------------------------------------------------------------

\* One CPU and one driver: the machine as it is until the mode switch.
Alone == machine.cpus = 1 /\ machine.drivers = {"pit"}

Rests == \A a \in Actors : act[a].pc = "idle"
Named(isr) == {i \in 1 .. getNItems : desc[node[List[i]].item] = isr}

\* enable keeps the driver's lock while it waits for the pin; the ISR that is
\* in service waits for the lock.
Hung == act["pit"].pc = "wait" /\ inService /\ \E c \in Cpus : act[c].pc = "isr" /\ desc[act[c].it] = "pit"

\* Freed memory is used only once a service or a change of the list began while
\* another change was under way, which the test of inService does not prevent,
\* and never on one CPU with one driver, where an interrupt may come between
\* any two steps of the thread.  On two CPUs enable and the ISR do not wait for
\* each other.  Without such an overlap, at rest the driver is listed once if
\* it thinks it is registered and not at all otherwise, the pin is unmasked for
\* it, and masked when the list is empty.  A thread that sleeps through the
\* mode switch has its last interrupt to come, unless that came before it slept.
InterruptsServed ==
  /\ end = "dangling" => overlap
  /\ Alone => end = "runs"
  /\ ~Hung
  /\ Rests /\ (Alone \/ ~overlap) =>
       /\ Cardinality(Named("pit")) = IF pit.registered THEN 1 ELSE 0
       /\ pit.registered => ~masked
       /\ head = 0 => masked
  /\ act["pit"].pc = "blocked" =>
       missed \/ pit.irqState = "DISABLING" \/ \E c \in Cpus : act[c].pc = "wake"

=============================================================================
