--------------------------- MODULE ThreadControl ---------------------------
(***************************************************************************)
(* What threads do to each other through TaskTrib: wake(), with the        *)
(* schedule() of a thread that was spawned dormant, dormant(), and block() *)
(* and unblock() with no lock around them.  Composed with the scheduler.   *)
(* schedule() finds one CPU in the thread's affinity, CpuOf[t].            *)
(***************************************************************************)
EXTENDS Scheduler

CONSTANTS
  Callers,     \* the threads that wake, unblock and make others dormant
  Sleepers,    \* the threads that block
  Foreign      \* whether threads make others dormant, not only themselves

\* The calls, each with the thread it is about.
Call(x, l, t) ==
  /\ x[2] = "thread" /\ x[1] \in Callers /\ At(x, "idle")
  /\ arg' = [arg EXCEPT ![x] = t]
  /\ Goto(x, l)
  /\ NoSwitch /\ UNCHANGED lock

UnblockCall(x, t) == Call(x, "unblock", t)
DormantCall(x, t) == (Foreign \/ t = x[1]) /\ Call(x, "dormant", t)

\* Its callers wake threads that were spawned or made dormant.
WakeCall(x, t) == schedState[t] # "BLOCKED" /\ Call(x, "wake", t)

BlockCall(x) ==
  /\ x[2] = "thread" /\ x[1] \in Sleepers /\ At(x, "idle")
  /\ Block(x)
  /\ UNCHANGED <<runQueue, currentThread, mode, newThread, pullMasked, context, arg, lock>>

BlockReturn(x) ==
  /\ At(x, "recv") /\ Goto(x, "idle")
  /\ NoSwitch /\ UNCHANGED <<arg, lock>>

SetState(x, s, l) ==
  /\ schedState' = [schedState EXCEPT ![arg[x]] = s]
  /\ Goto(x, l)
  /\ UNCHANGED <<runQueue, currentThread, mode, newThread, pullMasked, context, arg, lock>>

Skip(x) == Goto(x, "idle") /\ Done(x) /\ NoSwitch /\ UNCHANGED lock

On(x, l) == Goto(x, l) /\ NoSwitch /\ UNCHANGED <<arg, lock>>
-----------------------------------------------------------------------------
(* dormant(arg[x])                                                         *)

Dormant(x) ==
  /\ At(x, "dormant")
  /\ IF schedState[arg[x]] \in {"UNSCHEDULED", "DORMANT"} THEN Skip(x) ELSE On(x, "dormantState")

DormantState(x) == At(x, "dormantState") /\ SetState(x, "DORMANT", "dormantRemove")

\* Variant: the thread is left in its run queue.
DormantQueued(x) == At(x, "dormantRemove") /\ On(x, "dormantPull")

DormantRemove(x) ==
  /\ At(x, "dormantRemove")
  /\ RemoveFrom(arg[x])
  /\ Goto(x, "dormantPull")
  /\ UNCHANGED <<schedState, currentThread, mode, newThread, pullMasked, context, arg, lock>>

\* A thread that makes itself dormant is switched out; a thread that another
\* CPU executes goes on.
DormantPull(x) ==
  /\ At(x, "dormantPull")
  /\ IF arg[x] = currentThread[Cpu(x)]
     THEN /\ SaveContextAndCallPull(x, "idle") /\ Done(x)
          /\ UNCHANGED <<schedState, runQueue, currentThread, lock>>
     ELSE Skip(x)
-----------------------------------------------------------------------------
(* wake(arg[x]); the insertion and the preemption are the scheduler's.     *)

Wake(x) ==
  /\ At(x, "wake")
  /\ \/ schedState[arg[x]] \in {"RUNNABLE", "RUNNING"} /\ Skip(x)
     \/ schedState[arg[x]] = "UNSCHEDULED" /\ On(x, "schedule")
     \/ schedState[arg[x]] \in {"BLOCKED", "DORMANT"} /\ On(x, "streamWake")

\* TaskStream::schedule()
Schedule(x) == At(x, "schedule") /\ SetState(x, "RUNNABLE", "scheduleInsert")

ScheduleInsert(x) ==
  /\ At(x, "scheduleInsert")
  /\ InsertIn(arg[x])
  /\ Goto(x, "streamWake")
  /\ UNCHANGED <<schedState, currentThread, mode, newThread, pullMasked, context, arg, lock>>


\* TaskStream::wake() up to its assignment; wake() panics at an error.
StreamWake(x) ==
  /\ At(x, "streamWake")
  /\ On(x, CASE schedState[arg[x]] \in {"RUNNABLE", "RUNNING"} -> "preempt"
              [] schedState[arg[x]] = "BLOCKED" -> "panic"
              [] OTHER -> "wakeState")

WakeState(x) == At(x, "wakeState") /\ SetState(x, "RUNNABLE", "insert")
-----------------------------------------------------------------------------
Step(x) ==
  \/ Dormant(x) \/ DormantState(x) \/ DormantRemove(x) \/ DormantPull(x)
  \/ Wake(x) \/ Schedule(x) \/ ScheduleInsert(x) \/ StreamWake(x) \/ WakeState(x)
  \/ BlockReturn(x) \/ SchedStep(x)

Next ==
  \/ \E x \in Contexts :
       \/ BlockCall(x) \/ YieldCall(x) \/ Step(x)
       \/ \E t \in Threads : WakeCall(x, t) \/ DormantCall(x, t) \/ UnblockCall(x, t)
  \/ \E c \in Cpus : Pull(c) \/ IsrEnter(c)

Spec == SchedInit /\ [][Next]_schedVars

\* As in MessageStream: CPUs go on, threads yield, the timer ends hlt.
ThreadStep(c) == \E t \in Threads : CpuOf[t] = c /\ Step(<<t, "thread">>)
ThreadYields(c) == \E t \in Threads : CpuOf[t] = c /\ YieldCall(<<t, "thread">>)
IsrStep(c) == Step(<<c, "pull">>) \/ \E t \in Threads : CpuOf[t] = c /\ Step(<<t, "isr">>)
Tick(c) == mode[c] = "halted" /\ IsrEnter(c)

Fairness ==
  \A c \in Cpus :
    /\ SF_schedVars(ThreadStep(c)) /\ SF_schedVars(ThreadYields(c))
    /\ SF_schedVars(Pull(c)) /\ WF_schedVars(IsrStep(c))
    /\ WF_schedVars(Tick(c))

FairSpec == Spec /\ Fairness
-----------------------------------------------------------------------------

\* A thread that was made dormant is halted until another one calls wake().
DormantHalts ==
  [][\A t \in Threads : schedState[t] = "DORMANT" /\ schedState'[t] # "DORMANT" =>
       \E x \in Contexts : pc[x] = "wakeState" /\ arg[x] = t]_schedVars

=============================================================================
