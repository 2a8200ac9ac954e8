------------------------- MODULE SingleWaiterQueue -------------------------
(***************************************************************************)
(* SingleWaiterQueue: a list with a lock and one thread that pops it.  As  *)
(* MessageStream does, pop() blocks under the lock; but addItem() calls    *)
(* unblock() after it has released it.  Composed with the scheduler.       *)
(***************************************************************************)
EXTENDS Scheduler

CONSTANTS
  Server,      \* the thread that pops
  Clients,     \* the threads that add items
  IsrCpus,     \* the CPUs that get interrupts
  IsrAdds,     \* whether an ISR adds items, as the i8254's does
  MaxItems     \* bound on the number of items added

VARIABLES
  thread,    \* the waiting thread, or Nobody
  items,     \* how many
  added      \* bound: items so far

queueVars == <<thread, items, added>>
vars == <<schedState, runQueue, currentThread, mode, newThread, pullMasked, context, pc, arg,
          lock, thread, items, added>>

Init == SchedInit /\ thread = Nobody /\ items = 0 /\ added = 0

\* The server, or the thread that spawned it, names it the waiter.
SetWaitingThread ==
  /\ thread = Nobody /\ thread' = Server
  /\ UNCHANGED <<schedVars, items, added>>

AddItemCall(x) ==
  /\ IF x[2] = "thread" THEN x[1] \in Clients /\ At(x, "idle") ELSE IsrAdds /\ At(x, "isr")
  /\ added < MaxItems
  /\ Goto(x, "addItem")
  /\ NoSwitch /\ UNCHANGED <<arg, lock, queueVars>>


\* addItem() up to its call of unblock(), the lock taken and released.
AddItem(x) ==
  /\ At(x, "addItem") /\ lock[Server] = Nobody /\ thread # Nobody
  /\ items' = items + 1 /\ added' = added + 1
  /\ arg' = [arg EXCEPT ![x] = thread]
  /\ Goto(x, "unblock")
  /\ NoSwitch /\ UNCHANGED <<lock, thread>>

\* Nobody waits, or there is no memory: the caller gets the error.
AddItemFails(x) ==
  /\ At(x, "addItem") /\ lock[Server] = Nobody
  /\ Goto(x, Return(x))
  /\ NoSwitch /\ UNCHANGED <<arg, lock, queueVars>>

PopCall(x) ==
  /\ x = <<Server, "thread">> /\ At(x, "idle") /\ thread = Server
  /\ Goto(x, "recv")
  /\ NoSwitch /\ UNCHANGED <<arg, lock, queueVars>>

Pop(x) ==
  /\ At(x, "recv") /\ lock[Server] = Nobody /\ items > 0
  /\ items' = items - 1
  /\ Goto(x, "idle")
  /\ NoSwitch /\ UNCHANGED <<arg, lock, thread, added>>

\* pop() with DONTBLOCK.
PopWouldBlock(x) ==
  /\ At(x, "recv") /\ lock[Server] = Nobody /\ items = 0
  /\ Goto(x, "idle")
  /\ NoSwitch /\ UNCHANGED <<arg, lock, queueVars>>

PopBlocks(x) ==
  /\ At(x, "recv") /\ lock[Server] = Nobody /\ items = 0
  /\ lock' = [lock EXCEPT ![Server] = x]
  /\ Block(x)
  /\ UNCHANGED <<runQueue, currentThread, mode, newThread, pullMasked, context, arg, queueVars>>

Step(x) ==
  \/ AddItem(x) \/ AddItemFails(x) \/ Pop(x) \/ PopBlocks(x)
  \/ SchedStep(x) /\ UNCHANGED queueVars

Next ==
  \/ SetWaitingThread
  \/ \E x \in Contexts :
       \/ AddItemCall(x) \/ PopCall(x) \/ PopWouldBlock(x) \/ Step(x)
       \/ YieldCall(x) /\ UNCHANGED queueVars
  \/ \E c \in Cpus : Pull(c) /\ UNCHANGED queueVars
  \/ \E c \in IsrCpus : IsrEnter(c) /\ UNCHANGED queueVars

Spec == Init /\ [][Next]_vars

\* As in MessageStream: CPUs go on, clients yield, the timer ends hlt.
ThreadStep(c) == \E t \in Threads : CpuOf[t] = c /\ Step(<<t, "thread">>)
ThreadYields(c) ==
  \E t \in Threads : CpuOf[t] = c /\ YieldCall(<<t, "thread">>) /\ UNCHANGED queueVars
IsrStep(c) ==
  \/ Step(<<c, "pull">>)
  \/ \E t \in Threads : CpuOf[t] = c /\ Step(<<t, "isr">>)
Tick(c) == mode[c] = "halted" /\ IsrEnter(c) /\ UNCHANGED queueVars

Fairness ==
  /\ \A c \in Cpus :
       /\ SF_vars(ThreadStep(c))
       /\ SF_vars(ThreadYields(c))
       /\ SF_vars(Pull(c) /\ UNCHANGED queueVars)
       /\ WF_vars(IsrStep(c))
  /\ \A c \in IsrCpus : WF_vars(Tick(c))

FairSpec == Spec /\ Fairness
-----------------------------------------------------------------------------
TypeOK ==
  /\ SchedTypeOK
  /\ thread \in {Server, Nobody} /\ items \in Nat /\ added \in 0 .. MaxItems

=============================================================================
