--------------------------- MODULE MessageStream ---------------------------
(***************************************************************************)
(* MessageStream: the message queues of a thread, one for each subsystem,  *)
(* and the bitmap of those that are not empty, under the bitmap's lock.    *)
(* enqueue() unblocks the thread while it holds that lock; pull() and      *)
(* pullFrom() block under it.  Composed with the scheduler: senders are    *)
(* threads of any CPU and ISRs.                                            *)
(***************************************************************************)
EXTENDS Scheduler

CONSTANTS
  Receivers,     \* the threads that pull; each is its stream's name
  Senders,       \* the threads that enqueue
  IsrCpus,       \* the CPUs that get interrupts
  Subsystems,    \* subsystem ids
  MaxMessages    \* bound on the number of messages sent

VARIABLES
  queues,             \* queues[r][s]: how many messages
  pendingSubsystems,
  want,               \* the subsystems the receiver waits for
  sent                \* bound: messages so far

streamVars == <<queues, pendingSubsystems, want, sent>>
vars == <<schedState, runQueue, currentThread, mode, newThread, pullMasked, context, pc, arg,
          lock, queues, pendingSubsystems, want, sent>>

Init ==
  /\ SchedInit
  /\ queues = [r \in Receivers |-> [s \in Subsystems |-> 0]]
  /\ pendingSubsystems = [r \in Receivers |-> {}]
  /\ want = [r \in Receivers |-> {}]
  /\ sent = 0

\* A thread, or the ISR that got the interrupt, has a message for r.
EnqueueCall(x, r) ==
  /\ IF x[2] = "thread" THEN x[1] \in Senders /\ At(x, "idle") ELSE At(x, "isr")
  /\ sent < MaxMessages
  /\ arg' = [arg EXCEPT ![x] = r]
  /\ Goto(x, "enqueue")
  /\ NoSwitch /\ UNCHANGED <<lock, streamVars>>


\* Variant: unblock() only when no subsystem was pending.
EnqueueFirst(x, s) ==
  LET r == arg[x] IN
  /\ At(x, "enqueue") /\ lock[r] = Nobody
  /\ lock' = [lock EXCEPT ![r] = x]
  /\ queues' = [queues EXCEPT ![r][s] = @ + 1]
  /\ pendingSubsystems' = [pendingSubsystems EXCEPT ![r] = @ \cup {s}]
  /\ sent' = sent + 1
  /\ Goto(x, IF pendingSubsystems[r] = {} THEN "unblock" ELSE "unlock")
  /\ NoSwitch /\ UNCHANGED <<arg, want>>

\* enqueue() up to its call of unblock().
Enqueue(x, s) ==
  LET r == arg[x] IN
  /\ At(x, "enqueue") /\ lock[r] = Nobody
  /\ lock' = [lock EXCEPT ![r] = x]
  /\ queues' = [queues EXCEPT ![r][s] = @ + 1]
  /\ pendingSubsystems' = [pendingSubsystems EXCEPT ![r] = @ \cup {s}]
  /\ sent' = sent + 1
  /\ Goto(x, "unblock")
  /\ NoSwitch /\ UNCHANGED <<arg, want>>

\* addItem() found no memory: the sender gets the error and nobody is told.
EnqueueNoMem(x) ==
  /\ At(x, "enqueue") /\ lock[arg[x]] = Nobody
  /\ Goto(x, Return(x))
  /\ Done(x)
  /\ NoSwitch /\ UNCHANGED <<lock, streamVars>>

\* The unlock() at the end of enqueue().
Unlock(x) ==
  /\ At(x, "unlock")
  /\ lock' = [q \in Queues |-> IF lock[q] = x THEN Nobody ELSE lock[q]]
  /\ Goto(x, IF x[2] = "thread" THEN "idle" ELSE "isrDone")
  /\ NoSwitch /\ UNCHANGED <<arg, streamVars>>

\* pull(), or pullFrom() one subsystem.
PullCall(x, S) ==
  /\ x[2] = "thread" /\ x[1] \in Receivers /\ At(x, "idle")
  /\ want' = [want EXCEPT ![x[1]] = S]
  /\ Goto(x, "recv")
  /\ NoSwitch /\ UNCHANGED <<arg, lock, queues, pendingSubsystems, sent>>

\* Variant: the bit is unset with every message.
ReceiveClears(x) ==
  LET r == x[1]
      s == Min(want[r] \cap pendingSubsystems[r])
  IN
  /\ At(x, "recv") /\ lock[r] = Nobody
  /\ want[r] \cap pendingSubsystems[r] # {}
  /\ queues' = [queues EXCEPT ![r][s] = @ - 1]
  /\ pendingSubsystems' = [pendingSubsystems EXCEPT ![r] = @ \ {s}]
  /\ Goto(x, "idle")
  /\ NoSwitch /\ UNCHANGED <<arg, lock, want, sent>>

\* A message of the first subsystem that has one.
Receive(x) ==
  LET r == x[1]
      s == Min(want[r] \cap pendingSubsystems[r])
  IN
  /\ At(x, "recv") /\ lock[r] = Nobody
  /\ want[r] \cap pendingSubsystems[r] # {}
  /\ queues' = [queues EXCEPT ![r][s] = @ - 1]
  /\ pendingSubsystems' = [pendingSubsystems EXCEPT
       ![r] = IF queues[r][s] = 1 THEN @ \ {s} ELSE @]
  /\ Goto(x, "idle")
  /\ NoSwitch /\ UNCHANGED <<arg, lock, want, sent>>

\* Nothing: block(), to look again when it returns.
ReceiveBlocks(x) ==
  LET r == x[1] IN
  /\ At(x, "recv") /\ lock[r] = Nobody
  /\ want[r] \cap pendingSubsystems[r] = {}
  /\ lock' = [lock EXCEPT ![r] = x]
  /\ Block(x)
  /\ UNCHANGED <<runQueue, currentThread, mode, newThread, pullMasked, context, arg, streamVars>>

\* Nothing, and DONT_BLOCK.
ReceiveWouldBlock(x) ==
  /\ At(x, "recv") /\ lock[x[1]] = Nobody
  /\ want[x[1]] \cap pendingSubsystems[x[1]] = {}
  /\ Goto(x, "idle")
  /\ NoSwitch /\ UNCHANGED <<arg, lock, streamVars>>

Step(x) ==
  \/ (\E s \in Subsystems : Enqueue(x, s)) \/ EnqueueNoMem(x) \/ Unlock(x)
  \/ Receive(x) \/ ReceiveBlocks(x)
  \/ SchedStep(x) /\ UNCHANGED streamVars

Next ==
  \/ \E x \in Contexts :
       \/ \E r \in Receivers : EnqueueCall(x, r)
       \/ \E S \in {Subsystems} \cup {{s} : s \in Subsystems} : PullCall(x, S)
       \/ YieldCall(x) /\ UNCHANGED streamVars
       \/ ReceiveWouldBlock(x)
       \/ Step(x)
  \/ \E c \in Cpus : Pull(c) /\ UNCHANGED streamVars
  \/ \E c \in IsrCpus : IsrEnter(c) /\ UNCHANGED streamVars

Spec == Init /\ [][Next]_vars

\* The code of a CPU's threads goes on, interrupts or not.
ThreadStep(c) == \E t \in Threads : CpuOf[t] = c /\ Step(<<t, "thread">>)

\* A sender yields sooner or later: the kernel does not preempt on a timer.
ThreadYields(c) == \E t \in Threads : CpuOf[t] = c /\ YieldCall(<<t, "thread">>) /\ UNCHANGED streamVars

IsrStep(c) ==
  \/ Step(<<c, "pull">>)
  \/ \E t \in Threads : CpuOf[t] = c /\ Step(<<t, "isr">>)

\* A CPU that is halted, and that the timer interrupts, is interrupted.
Tick(c) == mode[c] = "halted" /\ IsrEnter(c) /\ UNCHANGED streamVars

Fairness ==
  /\ \A c \in Cpus :
       /\ SF_vars(ThreadStep(c))
       /\ SF_vars(ThreadYields(c))
       /\ SF_vars(Pull(c) /\ UNCHANGED streamVars)
       /\ WF_vars(IsrStep(c))
  /\ \A c \in IsrCpus : WF_vars(Tick(c))

FairSpec == Spec /\ Fairness
-----------------------------------------------------------------------------
TypeOK ==
  /\ SchedTypeOK
  /\ queues \in [Receivers -> [Subsystems -> Nat]]
  /\ pendingSubsystems \in [Receivers -> SUBSET Subsystems]
  /\ want \in [Receivers -> SUBSET Subsystems]

\* The bitmap names the queues that have messages, whenever its lock is free.
PendingExact ==
  \A r \in Receivers : lock[r] = Nobody =>
    pendingSubsystems[r] = {s \in Subsystems : queues[r][s] # 0}

HasMessage(r) == \E s \in want[r] : queues[r][s] # 0

\* No lost wakeup: a receiver that is BLOCKED has nothing to receive, unless
\* the sender is still inside enqueue(), and the bitmap that pull() looks at is
\* exact.
NoLostWakeup ==
  /\ PendingExact
  /\ \A r \in Receivers : schedState[r] = "BLOCKED" /\ lock[r] = Nobody => ~ HasMessage(r)

\* A call of pull() that waits for a message there is returns with one.
Returns(r) == pc[<<r, "thread">>] = "idle"
WokenReceives ==
  \A r \in Receivers : ~ Returns(r) /\ HasMessage(r) ~> Returns(r)
=============================================================================
