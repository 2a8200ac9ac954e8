----------------------------- MODULE Scheduler -----------------------------
(***************************************************************************)
(* TaskTrib and TaskStream: a run queue and a current thread for each CPU, *)
(* and block(), unblock(), yield() and pull(), statement by statement.     *)
(* dormant() and wake() are in ThreadControl.                             *)
(*                                                                         *)
(* A context is a flow of control with a stack: the code of thread t,      *)
(* <<t, "thread">>; an ISR on top of it, <<t, "isr">>, which is switched   *)
(* out and in with the thread; or an ISR on CPU c's schedStack, on top of  *)
(* pull(), <<c, "pull">>.  saveContextAndCallPull() leaves the interrupt   *)
(* flag as it finds it, so that pull() can be interrupted too.             *)
(*                                                                         *)
(* A run queue is the sequence of its threads in order of insertion, for   *)
(* PrioQueue strands none of them (PrioQueueProofs).  Locks are mutexes;   *)
(* lock[q] is the holder of the lock the users of queue q block under.     *)
(***************************************************************************)
EXTENDS Integers, Sequences, FiniteSetsExt

CONSTANTS
  Cpus, Threads,
  CpuOf,        \* thread->currentCpu, which only schedule() sets
  Prio,         \* thread->schedPrio->prio
  RealTime,     \* the threads of policy REAL_TIME; the others are ROUND_ROBIN
  Booting,      \* Booting[c]: the thread that runs on c first
  Unscheduled,  \* the threads that are UNSCHEDULED at first
  Yielders,     \* the threads that yield of their own accord
  Queues,       \* what threads block on
  Nobody

VARIABLES
  schedState,
  runQueue,       \* realTimeQ and roundRobinQ of each CPU
  currentThread,
  mode,           \* what a CPU executes: a thread, pull(), or hlt
  newThread,      \* the local of pull()
  pullMasked,     \* interrupts are off in pull()
  context,        \* whose stack thread->context points into
  pc,
  arg,            \* the thread a context unblocks, wakes or makes dormant
  lock

schedVars == <<schedState, runQueue, currentThread, mode, newThread, pullMasked,
               context, pc, arg, lock>>

ThreadContexts == Threads \X {"thread", "isr"}
Contexts == ThreadContexts \cup (Cpus \X {"pull"})

Cpu(x) == IF x[2] = "pull" THEN x[1] ELSE CpuOf[x[1]]

\* The context its CPU executes; <<c, "pull">> at "none" is pull() itself.
Executing(c) ==
  IF mode[c] # "thread" THEN <<c, "pull">>
  ELSE IF pc[<<currentThread[c], "isr">>] = "none" THEN <<currentThread[c], "thread">>
  ELSE <<currentThread[c], "isr">>

Holds(x) == {q \in Queues : lock[q] = x}

\* Whether interrupts are off while x runs: in an ISR, and under a WaitLock.
Masked(x) == x[2] # "thread" \/ Holds(x) # {}

Goto(x, l) == pc' = [pc EXCEPT ![x] = l]

At(x, l) == pc[x] = l /\ Executing(Cpu(x)) = x

\* Where a call returns to, once it is done: enqueue() has a lock to release.
Return(x) ==
  IF Holds(x) # {} THEN "unlock" ELSE IF x[2] = "thread" THEN "idle" ELSE "isrDone"

\* The call has no more use for its argument.
Done(x) == arg' = [arg EXCEPT ![x] = Nobody]

NoSwitch ==
  UNCHANGED <<schedState, runQueue, currentThread, mode, newThread, pullMasked, context>>

\* The threads in the run queue of c at first, and the orders in which they may
\* have come there.
Scheduled(c) == {t \in Threads \ Unscheduled : CpuOf[t] = c /\ Booting[c] # t}
Orders(c) == Bijection(1 .. Cardinality(Scheduled(c)), Scheduled(c))

SchedInit ==
  /\ schedState = [t \in Threads |->
       IF t \in Unscheduled THEN "UNSCHEDULED"
       ELSE IF Booting[CpuOf[t]] = t THEN "RUNNING" ELSE "RUNNABLE"]
  /\ runQueue \in {q \in [Cpus -> UNION {Orders(c) : c \in Cpus}] :
                     \A c \in Cpus : q[c] \in Orders(c)}
  /\ currentThread = Booting
  /\ mode = [c \in Cpus |-> "thread"]
  /\ newThread = [c \in Cpus |-> Nobody]
  /\ pullMasked = [c \in Cpus |-> FALSE]
  /\ context = [t \in Threads |-> t]
  /\ pc = [x \in Contexts |-> IF x[2] = "thread" THEN "idle" ELSE "none"]
  /\ arg = [x \in Contexts |-> Nobody]
  /\ lock = [q \in Queues |-> Nobody]
-----------------------------------------------------------------------------
(* Run queues.                                                             *)

\* A run queue without what is at place k, and without t.
RemoveAt(s, k) == [n \in 1 .. Len(s) - 1 |-> IF n < k THEN s[n] ELSE s[n + 1]]
RemoveFirst(s, t) ==
  LET P == {k \in DOMAIN s : s[k] = t}
  IN IF P = {} THEN s ELSE RemoveAt(s, Min(P))

InsertIn(t) == runQueue' = [runQueue EXCEPT ![CpuOf[t]] = Append(@, t)]
RemoveFrom(t) == runQueue' = [runQueue EXCEPT ![CpuOf[t]] = RemoveFirst(@, t)]

\* The places in run queue s of the threads in realTimeQ, and in roundRobinQ.
RealTimeQ(s) == {n \in DOMAIN s : s[n] \in RealTime}
RoundRobinQ(s) == DOMAIN s \ RealTimeQ(s)

\* The thread PrioQueue pops of those at the places P: of the ones with the
\* lowest number, the oldest.
First(s, P) ==
  LET n == CHOOSE n \in P :
             \A m \in P : Prio[s[n]] < Prio[s[m]] \/ (Prio[s[n]] = Prio[s[m]] /\ n <= m)
  IN s[n]

\* Thread::shouldPreemptCurrentThreadOn()
ShouldPreempt(t) ==
  LET u == currentThread[CpuOf[t]]
  IN Prio[t] > Prio[u] /\ ~ (u \in RealTime /\ t \notin RealTime)
-----------------------------------------------------------------------------
(* saveContextAndCallPull() and pull().                                    *)

\* x is switched out, to go on at l; an ISR on the schedStack saves a context
\* there for the CPU's current thread, and pull() starts over on that stack.
SaveContextAndCallPull(x, l) ==
  LET c == Cpu(x) IN
  /\ mode' = [mode EXCEPT ![c] = "pull"]
  /\ newThread' = [newThread EXCEPT ![c] = Nobody]
  /\ pullMasked' = [pullMasked EXCEPT ![c] = Masked(x)]
  /\ Goto(x, IF x[2] = "pull" THEN "none" ELSE l)
  /\ context' = IF x[2] = "pull" THEN [context EXCEPT ![currentThread[c]] = c] ELSE context

InPull(c, m) == mode[c] = m /\ pc[<<c, "pull">>] = "none"

\* pullFromQ(), of the queue it is at, with the threads at the places P.
PullPop(c, P) ==
  LET t == First(runQueue[c], P) IN
  /\ P # {} /\ newThread[c] = Nobody
  /\ newThread' = [newThread EXCEPT ![c] = t]
  /\ runQueue' = [runQueue EXCEPT ![c] = RemoveFirst(@, t)]
  /\ mode' = [mode EXCEPT ![c] = "pull"]
  /\ UNCHANGED <<schedState, currentThread, pullMasked, context, pc, arg, lock>>

PullNone(c, P, m) ==
  /\ P = {} /\ newThread[c] = Nobody
  /\ mode' = [mode EXCEPT ![c] = m]
  /\ UNCHANGED <<schedState, runQueue, currentThread, newThread, pullMasked, context, pc,
                 arg, lock>>

\* realTimeQ first; then roundRobinQ; then on to hlt.
PullFromQ(c) ==
  \/ InPull(c, "pull") /\ PullPop(c, RealTimeQ(runQueue[c]))
  \/ InPull(c, "pull") /\ PullNone(c, RealTimeQ(runQueue[c]), "roundRobin")
  \/ InPull(c, "roundRobin") /\ PullPop(c, RoundRobinQ(runQueue[c]))
  \/ InPull(c, "roundRobin") /\ PullNone(c, RoundRobinQ(runQueue[c]), "idle")

\* cpuControl::halt(): only an interrupt ends it.
Halt(c) ==
  /\ InPull(c, "idle")
  /\ mode' = [mode EXCEPT ![c] = "halted"]
  /\ UNCHANGED <<schedState, runQueue, currentThread, newThread, pullMasked, context, pc,
                 arg, lock>>

PullCurrent(c) ==
  /\ InPull(c, "pull") /\ newThread[c] # Nobody
  /\ schedState' = [schedState EXCEPT ![newThread[c]] = "RUNNING"]
  /\ currentThread' = [currentThread EXCEPT ![c] = newThread[c]]
  /\ newThread' = [newThread EXCEPT ![c] = Nobody]
  /\ mode' = [mode EXCEPT ![c] = "jump"]
  /\ UNCHANGED <<runQueue, pullMasked, context, pc, arg, lock>>

\* loadContextAndJump()
PullJump(c) ==
  /\ InPull(c, "jump")
  /\ mode' = [mode EXCEPT ![c] = "thread"]
  /\ UNCHANGED <<schedState, runQueue, currentThread, newThread, pullMasked, context, pc,
                 arg, lock>>

Pull(c) == PullFromQ(c) \/ Halt(c) \/ PullCurrent(c) \/ PullJump(c)
-----------------------------------------------------------------------------
(* block(): its caller holds a lock, sets BLOCKED with Block(), and is     *)
(* woken at "recv".                                                        *)

Block(x) ==
  /\ schedState' = [schedState EXCEPT ![x[1]] = "BLOCKED"]
  /\ Goto(x, "blockRemove")

BlockRemove(x) ==
  /\ At(x, "blockRemove")
  /\ RemoveFrom(x[1])
  /\ Goto(x, "blockUnlock")
  /\ UNCHANGED <<schedState, currentThread, mode, newThread, pullMasked, context, arg, lock>>

\* unlockDescriptor->execute()
BlockUnlock(x) ==
  /\ At(x, "blockUnlock")
  /\ lock' = [q \in Queues |-> IF lock[q] = x THEN Nobody ELSE lock[q]]
  /\ Goto(x, "blockPull")
  /\ NoSwitch /\ UNCHANGED arg

BlockPull(x) ==
  /\ At(x, "blockPull")
  /\ SaveContextAndCallPull(x, "recv")
  /\ UNCHANGED <<schedState, runQueue, currentThread, arg, lock>>
-----------------------------------------------------------------------------
(* unblock(arg[x]), begun by a jump to "unblock".                          *)

Unblock(x) ==
  /\ At(x, "unblock")
  /\ \/ schedState[arg[x]] = "BLOCKED" /\ Goto(x, "unblockState") /\ UNCHANGED arg
     \/ schedState[arg[x]] # "BLOCKED" /\ Goto(x, Return(x)) /\ Done(x)
  /\ NoSwitch /\ UNCHANGED lock

UnblockState(x) ==
  /\ At(x, "unblockState")
  /\ schedState' = [schedState EXCEPT ![arg[x]] = "RUNNABLE"]
  /\ Goto(x, "insert")
  /\ UNCHANGED <<runQueue, currentThread, mode, newThread, pullMasked, context, arg, lock>>


\* The run queue insertion of unblock() and wake().
Insert(x) ==
  /\ At(x, "insert")
  /\ InsertIn(arg[x])
  /\ Goto(x, "preempt")
  /\ UNCHANGED <<schedState, currentThread, mode, newThread, pullMasked, context, arg, lock>>

\* A CPU preempts itself; nobody tells another CPU to.
Preempt(x) ==
  /\ At(x, "preempt")
  /\ Goto(x, IF ShouldPreempt(arg[x]) /\ CpuOf[arg[x]] = Cpu(x) THEN "yield" ELSE Return(x))
  /\ Done(x)
  /\ NoSwitch /\ UNCHANGED lock
-----------------------------------------------------------------------------
(* yield(): of the CPU's current thread, whoever calls it.                 *)

\* A thread calls taskTrib.yield().
YieldCall(x) ==
  /\ x[2] = "thread" /\ x[1] \in Yielders /\ At(x, "idle")
  /\ Goto(x, "yield")
  /\ NoSwitch /\ UNCHANGED <<arg, lock>>

YieldState(x) ==
  /\ At(x, "yield")
  /\ schedState' = [schedState EXCEPT ![currentThread[Cpu(x)]] = "RUNNABLE"]
  /\ Goto(x, "yieldInsert")
  /\ UNCHANGED <<runQueue, currentThread, mode, newThread, pullMasked, context, arg, lock>>

YieldInsert(x) ==
  /\ At(x, "yieldInsert")
  /\ InsertIn(currentThread[Cpu(x)])
  /\ Goto(x, "yieldPull")
  /\ UNCHANGED <<schedState, currentThread, mode, newThread, pullMasked, context, arg, lock>>

YieldPull(x) ==
  /\ At(x, "yieldPull")
  /\ SaveContextAndCallPull(x, Return(x))
  /\ UNCHANGED <<schedState, runQueue, currentThread, arg, lock>>
-----------------------------------------------------------------------------
(* Interrupts.                                                             *)

\* The chipset's interrupt reaches CPU c, on top of a thread or of pull().
IsrEnter(c) ==
  LET x == Executing(c) IN
  /\ \/ mode[c] = "thread" /\ ~ Masked(x) /\ Goto(<<x[1], "isr">>, "isr")
     \/ mode[c] # "thread" /\ pc[x] = "none" /\ ~ pullMasked[c] /\ Goto(x, "isr")
  /\ NoSwitch /\ UNCHANGED <<arg, lock>>

\* iret, out of hlt if it was that.
IsrReturn(x) ==
  /\ At(x, "isr") \/ At(x, "isrDone")
  /\ Goto(x, "none")
  /\ mode' = IF mode[Cpu(x)] = "halted" THEN [mode EXCEPT ![Cpu(x)] = "pull"] ELSE mode
  /\ UNCHANGED <<schedState, runQueue, currentThread, newThread, pullMasked, context, arg, lock>>

SchedStep(x) ==
  \/ BlockRemove(x) \/ BlockUnlock(x) \/ BlockPull(x)
  \/ Unblock(x) \/ UnblockState(x) \/ Insert(x) \/ Preempt(x)
  \/ YieldState(x) \/ YieldInsert(x) \/ YieldPull(x)
  \/ IsrReturn(x)
-----------------------------------------------------------------------------
SchedTypeOK ==
  /\ schedState \in [Threads -> {"UNSCHEDULED", "RUNNABLE", "RUNNING", "BLOCKED", "DORMANT"}]
  /\ runQueue \in [Cpus -> Seq(Threads)]
  /\ currentThread \in [Cpus -> Threads]
  /\ mode \in [Cpus -> {"thread", "pull", "roundRobin", "idle", "halted", "jump"}]
  /\ newThread \in [Cpus -> Threads \cup {Nobody}]
  /\ arg \in [Contexts -> Threads \cup {Nobody}]
  /\ lock \in [Queues -> Contexts \cup {Nobody}]

\* A thread some context is about to put in its run queue.
BeingInserted(t) ==
  \/ \E x \in Contexts : pc[x] \in {"insert", "scheduleInsert"} /\ arg[x] = t
  \/ \E x \in Contexts : pc[x] = "yieldInsert" /\ currentThread[Cpu(x)] = t

(***************************************************************************)
(* A runnable thread is in its CPU's run queue, or pull() has it in hand,  *)
(* or whoever made it runnable is about to insert it: whichever way block()*)
(* of the receiver, unblock() by threads and ISRs of any CPU, yield() and  *)
(* pull() interleave, no thread drops out of the scheduler.                *)
(***************************************************************************)
NoThreadLost ==
  \A t \in Threads : schedState[t] = "RUNNABLE" =>
    \/ t \in Range(runQueue[CpuOf[t]])
    \/ newThread[CpuOf[t]] = t
    \/ BeingInserted(t)

\* No thread is in its run queue twice, nor while it runs or pull() has it in
\* hand: taskStream.cpp's caveat on schedule() is what would happen then.
NotQueuedTwice ==
  \A t \in Threads : \A m, n \in DOMAIN runQueue[CpuOf[t]] :
    /\ runQueue[CpuOf[t]][m] = t => newThread[CpuOf[t]] # t /\ schedState[t] # "RUNNING"
    /\ runQueue[CpuOf[t]][m] = t /\ runQueue[CpuOf[t]][n] = t => m = n

\* A thread is resumed from a context of its own stack.
ContextsOwn == \A t \in Threads : context[t] = t

\* waitLock.h: "Standard non-sleeping lock".  Its holder is not switched out.
\* The code does not do this: unblock() under the lock may yield().
HolderNotSwitchedOut ==
  \A q \in Queues : LET x == lock[q] IN x # Nobody =>
    IF x[2] = "pull" THEN pc[x] # "none"
    ELSE mode[CpuOf[x[1]]] = "thread" /\ currentThread[CpuOf[x[1]]] = x[1]
=============================================================================
