------------------------- MODULE RunQueueProofs -----------------------------
(***************************************************************************)
(* Machine-checked proofs about the run queues under MessageStream: where  *)
(* a runnable thread is, for any number of CPUs, threads and messages.     *)
(***************************************************************************)
EXTENDS MessageStreamProofs

\* unblock() never preempts: no thread of a receiver's CPU gives way to it.
NoPreemption ==
  \A r \in Receivers, u \in Threads : CpuOf[u] = CpuOf[r] =>
    Prio[r] <= Prio[u] \/ (u \in RealTime /\ r \notin RealTime)

\* A thread in the middle of yield() or block() is on its CPU; no ISR yields.
Leaving == {"yieldInsert", "yieldPull", "blockRemove", "blockUnlock", "blockPull"}
LeavingInv ==
  /\ \A x \in Contexts : x[2] # "thread" => pc[x] \notin {"yield", "yieldInsert", "yieldPull"}
  /\ \A t \in Threads : pc[<<t, "thread">>] \in Leaving =>
       mode[CpuOf[t]] = "thread" /\ currentThread[CpuOf[t]] = t

Unblocking(t) == \E x \in Contexts : pc[x] = "insert" /\ arg[x] = t
Inserting(t) == Unblocking(t) \/ pc[<<t, "thread">>] = "yieldInsert"

\* The state of a thread, by where it is.
StateAt(t) ==
  /\ SwitchedIn(t) /\ pc[<<t, "thread">>] \notin Leaving => schedState[t] = "RUNNING"
  /\ pc[<<t, "thread">>] \in {"blockRemove", "blockUnlock"} => schedState[t] = "BLOCKED"
  /\ Inserting(t) => schedState[t] = "RUNNABLE"
  /\ Unblocking(t) => Parked(t)
  /\ \A x \in Contexts : pc[x] = "unblockState" /\ arg[x] = t => schedState[t] = "BLOCKED"

StateInv == \A t \in Threads : StateAt(t)

\* A thread that is queued, or that pull() has in hand, is RUNNABLE and nobody
\* is about to insert it.
Queued(t) == t \in Range(runQueue[CpuOf[t]])

HandInv ==
  \A c \in Cpus : newThread[c] # Nobody =>
    /\ mode[c] = "pull" /\ CpuOf[newThread[c]] = c
    /\ schedState[newThread[c]] = "RUNNABLE" /\ ~ Inserting(newThread[c])

QueueInv ==
  /\ \A c \in Cpus : Distinct(runQueue[c]) /\ \A t \in Range(runQueue[c]) : CpuOf[t] = c
  /\ \A t \in Threads : Queued(t) =>
       schedState[t] = "RUNNABLE" /\ newThread[CpuOf[t]] # t /\ ~ Inserting(t)
  /\ HandInv

FoundInv ==
  \A t \in Threads : schedState[t] = "RUNNABLE" =>
    Queued(t) \/ newThread[CpuOf[t]] = t \/ Inserting(t)

HomeInv == \A c \in Cpus : CpuOf[currentThread[c]] = c

BInv == LeavingInv /\ StateInv /\ QueueInv /\ FoundInv /\ HomeInv /\ ContextsOwn

\* Who is being inserted, after a step of x.
LEMMA InsertingFrame ==
  ASSUME ConstantsOK, NEW x \in Contexts, OnlyMoves(x), pc[x] # "insert", pc'[x] # "insert"
  PROVE  /\ \A t \in Threads : Unblocking(t)' <=> Unblocking(t)
         /\ \A t \in Threads : x # <<t, "thread">> => (Inserting(t)' <=> Inserting(t))
<1>1. ASSUME NEW t \in Threads PROVE Unblocking(t)' <=> Unblocking(t)
    BY DEF Unblocking, OnlyMoves
<1> QED BY <1>1, ContextFacts DEF Inserting, OnlyMoves

\* A step that neither begins nor ends an insertion, and switches nothing.
LEMMA LabelStep ==
  ASSUME ConstantsOK, TypeInv, BInv, NEW x \in Contexts, OnlyMoves(x), NoSwitch,
         pc[x] \notin {"insert", "yieldInsert"},
         pc'[x] \notin {"insert", "yieldInsert"},
         pc'[x] \in {"blockRemove", "blockUnlock"} => pc[x] = "blockRemove",
         x[2] # "thread" => pc'[x] \notin {"yield", "yieldPull"},
         x[2] = "thread" => ~ Parked(x[1]) /\ (pc'[x] \in Leaving <=> pc[x] \in Leaving),
         pc'[x] = "unblockState" => schedState[arg'[x]] = "BLOCKED"
  PROVE  BInv'
<1> USE DEF NoSwitch
<1>0. /\ \A t \in Threads : <<t, "thread">> \in Contexts /\ <<t, "thread">>[1] = t /\ <<t, "thread">>[2] = "thread"
      /\ \A y \in Contexts \ {x} : pc'[y] = pc[y] /\ arg'[y] = arg[y]
    BY ContextFacts DEF OnlyMoves
<1>1. \A t \in Threads : (Unblocking(t)' <=> Unblocking(t)) /\ (Inserting(t)' <=> Inserting(t))
    BY <1>0, InsertingFrame DEF Inserting
<1>2. LeavingInv'
  <2>1. \A y \in Contexts : y[2] # "thread" => pc'[y] \notin {"yield", "yieldInsert", "yieldPull"}
      BY <1>0 DEF BInv, LeavingInv
  <2>2. ASSUME NEW t \in Threads, pc'[<<t, "thread">>] \in Leaving
        PROVE  pc[<<t, "thread">>] \in Leaving
      BY <1>0, <2>2
  <2> QED BY <2>1, <2>2 DEF BInv, LeavingInv
<1>3. ASSUME NEW t \in Threads PROVE StateAt(t)'
  <2>1. StateAt(t)
      BY DEF BInv, StateInv
  <2>2. SwitchedIn(t)' <=> SwitchedIn(t)
      BY DEF SwitchedIn
  <2>3. pc'[<<t, "thread">>] \in Leaving <=> pc[<<t, "thread">>] \in Leaving
      BY <1>0
  <2>4. Unblocking(t)' => Parked(t)'
      BY <1>0, <1>1, <2>1, <2>2 DEF StateAt, Parked
  <2>5. pc'[<<t, "thread">>] \in {"blockRemove", "blockUnlock"} => schedState'[t] = "BLOCKED"
      BY <1>0, <2>1 DEF StateAt
  <2>6. \A y \in Contexts : pc'[y] = "unblockState" /\ arg'[y] = t => schedState'[t] = "BLOCKED"
      BY <1>0, <2>1 DEF StateAt
  <2> QED BY <1>1, <2>1, <2>2, <2>3, <2>4, <2>5, <2>6 DEF StateAt
<1>4. QueueInv'
    BY <1>1 DEF BInv, QueueInv, HandInv, Queued, TypeInv, TypeOK, SchedTypeOK
<1>5. FoundInv' /\ HomeInv' /\ ContextsOwn'
    BY <1>1 DEF BInv, FoundInv, Queued, HomeInv, ContextsOwn
<1> QED BY <1>2, <1>3, <1>4, <1>5 DEF BInv, StateInv

\* unblock() ends in its caller.
LEMMA NotPreempted ==
  ASSUME ConstantsOK, NoPreemption, TypeInv, HomeInv, NEW t \in Receivers
  PROVE  ~ ShouldPreempt(t)
<1> DEFINE u == currentThread[CpuOf[t]]
<1>1. t \in Threads /\ CpuOf[t] \in Cpus /\ u \in Threads /\ CpuOf[u] = CpuOf[t]
    BY DEF ConstantsOK, TypeInv, TypeOK, SchedTypeOK, HomeInv
<1>2. Prio[t] \in Nat /\ Prio[u] \in Nat
    BY <1>1 DEF ConstantsOK
<1> QED BY <1>1, <1>2 DEF NoPreemption, ShouldPreempt

\* A thread that executes is not parked.
LEMMA NotParked ==
  ASSUME ConstantsOK, TypeInv, NEW x \in Contexts, Executing(Cpu(x)) = x, x[2] = "thread",
         pc[x] # "blockPull"
  PROVE  ~ Parked(x[1]) /\ SwitchedIn(x[1])
<1>1. x = <<x[1], "thread">>
    BY ContextFacts
<1> QED BY <1>1, ExecutingFacts DEF Parked, SwitchedIn

LEMMA LabelSteps ==
  ASSUME ConstantsOK, NoPreemption, AInv, BInv, NEW x \in Contexts,
         \/ \E r \in Receivers : EnqueueCall(x, r)
         \/ \E S \in {Subsystems} \cup {{s} : s \in Subsystems} : PullCall(x, S)
         \/ YieldCall(x) \/ ReceiveWouldBlock(x)
         \/ \E s \in Subsystems : Enqueue(x, s)
         \/ EnqueueNoMem(x) \/ Unlock(x) \/ Receive(x)
         \/ BlockUnlock(x) \/ Unblock(x) \/ Preempt(x)
  PROVE  BInv'
<1>0. TypeInv /\ PcType /\ CallAt(x)
    BY DEF AInv, TypeInv, CallInv
<1>1. x # Nobody /\ pc \in [Contexts -> ThreadLabels \cup IsrLabels] /\ arg \in [Contexts -> Threads \cup {Nobody}]
    BY <1>0, ContextFacts DEF PcType, TypeInv, TypeOK, SchedTypeOK
<1>2. /\ pc[x] \in {"recv", "blockUnlock", "idle"} => x[2] = "thread"
      /\ pc[x] \in {"isr"} => x[2] # "thread"
    BY <1>0 DEF PcType, ThreadLabels, IsrLabels, CallLabels
<1> USE DEF At, Goto, Done, Leaving
<1>3. ASSUME NEW r \in Receivers, EnqueueCall(x, r) PROVE BInv'
  <2>1. OnlyMoves(x) /\ pc'[x] = "enqueue" /\ pc[x] \in {"idle", "isr"}
      BY <1>1, <1>3 DEF EnqueueCall, OnlyMoves
  <2>2. x[2] = "thread" => ~ Parked(x[1])
      BY <1>0, <1>3, NotParked DEF EnqueueCall
  <2> QED BY <1>0, <1>3, <2>1, <2>2, LabelStep DEF EnqueueCall
<1>4. ASSUME NEW S, PullCall(x, S) PROVE BInv'
  <2>1. OnlyMoves(x) /\ pc'[x] = "recv" /\ pc[x] = "idle"
      BY <1>1, <1>4 DEF PullCall, OnlyMoves
  <2>2. x[2] = "thread" => ~ Parked(x[1])
      BY <1>0, <1>4, NotParked DEF PullCall
  <2> QED BY <1>0, <1>4, <2>1, <2>2, LabelStep DEF PullCall
<1>5. CASE YieldCall(x)
  <2>1. OnlyMoves(x) /\ pc'[x] = "yield" /\ pc[x] = "idle"
      BY <1>1, <1>5 DEF YieldCall, OnlyMoves
  <2>2. x[2] = "thread" => ~ Parked(x[1])
      BY <1>0, <1>5, NotParked DEF YieldCall
  <2> QED BY <1>0, <1>5, <2>1, <2>2, LabelStep DEF YieldCall
<1>6. CASE ReceiveWouldBlock(x)
  <2>1. OnlyMoves(x) /\ pc'[x] = "idle" /\ pc[x] = "recv"
      BY <1>1, <1>6 DEF ReceiveWouldBlock, OnlyMoves
  <2>2. x[2] = "thread" => ~ Parked(x[1])
      BY <1>0, <1>6, NotParked DEF ReceiveWouldBlock
  <2> QED BY <1>0, <1>6, <2>1, <2>2, LabelStep DEF ReceiveWouldBlock
<1>7. ASSUME NEW s \in Subsystems, Enqueue(x, s) PROVE BInv'
  <2>0. arg[x] \in Queues
      BY <1>0, <1>7 DEF Enqueue, CallAt, ConstantsOK
  <2>1. OnlyMoves(x) /\ pc'[x] = "unblock" /\ pc[x] = "enqueue"
      BY <1>0, <1>1, <1>7, <2>0 DEF Enqueue, OnlyMoves, TypeInv, TypeOK, SchedTypeOK
  <2>2. x[2] = "thread" => ~ Parked(x[1])
      BY <1>0, <1>7, NotParked DEF Enqueue
  <2> QED BY <1>0, <1>7, <2>1, <2>2, LabelStep DEF Enqueue
<1>8. CASE EnqueueNoMem(x)
  <2>1. OnlyMoves(x) /\ pc'[x] \in {"unlock", "idle", "isrDone"} /\ pc[x] = "enqueue"
      BY <1>1, <1>8, ReturnFacts DEF EnqueueNoMem, OnlyMoves
  <2>2. x[2] = "thread" => ~ Parked(x[1])
      BY <1>0, <1>8, NotParked DEF EnqueueNoMem
  <2> QED BY <1>0, <1>8, <2>1, <2>2, LabelStep DEF EnqueueNoMem
<1>9. CASE Unlock(x)
  <2>1. OnlyMoves(x) /\ pc'[x] \in {"idle", "isrDone"} /\ pc[x] = "unlock"
      BY <1>1, <1>9 DEF Unlock, OnlyMoves
  <2>2. x[2] = "thread" => ~ Parked(x[1])
      BY <1>0, <1>9, NotParked DEF Unlock
  <2> QED BY <1>0, <1>9, <2>1, <2>2, LabelStep DEF Unlock
<1>10. CASE Receive(x)
  <2>1. OnlyMoves(x) /\ pc'[x] = "idle" /\ pc[x] = "recv"
      BY <1>1, <1>10 DEF Receive, OnlyMoves
  <2>2. x[2] = "thread" => ~ Parked(x[1])
      BY <1>0, <1>10, NotParked DEF Receive
  <2> QED BY <1>0, <1>10, <2>1, <2>2, LabelStep DEF Receive
<1>11. CASE BlockUnlock(x)
  <2>1. OnlyMoves(x) /\ pc'[x] = "blockPull" /\ pc[x] = "blockUnlock"
      BY <1>1, <1>11 DEF BlockUnlock, OnlyMoves
  <2>2. x[2] = "thread" => ~ Parked(x[1])
      BY <1>0, <1>11, NotParked DEF BlockUnlock
  <2> QED BY <1>0, <1>11, <2>1, <2>2, LabelStep DEF BlockUnlock
<1>12. CASE Unblock(x)
  <2>1. /\ OnlyMoves(x) /\ pc[x] = "unblock"
        /\ pc'[x] \in {"unblockState", "unlock", "idle", "isrDone"}
        /\ pc'[x] = "unblockState" => schedState[arg'[x]] = "BLOCKED"
      BY <1>1, <1>12, ReturnFacts DEF Unblock, OnlyMoves
  <2>2. x[2] = "thread" => ~ Parked(x[1])
      BY <1>0, <1>12, NotParked DEF Unblock
  <2> QED BY <1>0, <1>12, <2>1, <2>2, LabelStep DEF Unblock
<1>13. CASE Preempt(x)
  <2>0. ~ ShouldPreempt(arg[x])
      BY <1>0, <1>13, NotPreempted DEF Preempt, CallAt, BInv
  <2>1. OnlyMoves(x) /\ pc[x] = "preempt" /\ pc'[x] \in {"unlock", "idle", "isrDone"}
      BY <1>1, <1>13, <2>0, ReturnFacts DEF Preempt, OnlyMoves
  <2>2. x[2] = "thread" => ~ Parked(x[1])
      BY <1>0, <1>13, NotParked DEF Preempt
  <2> QED BY <1>0, <1>13, <2>1, <2>2, LabelStep DEF Preempt
<1> QED BY <1>3, <1>4, <1>5, <1>6, <1>7, <1>8, <1>9, <1>10, <1>11, <1>12, <1>13

\* After an insertion of t, which was not queued.
LEMMA InsertQueue ==
  ASSUME ConstantsOK, TypeInv, QueueInv, NEW t \in Threads, ~ Queued(t), InsertIn(t)
  PROVE  /\ \A c \in Cpus : Distinct(runQueue'[c]) /\ \A u \in Range(runQueue'[c]) : CpuOf[u] = c
         /\ \A u \in Threads : Queued(u)' <=> Queued(u) \/ u = t
<1> DEFINE d == CpuOf[t]
<1>1. d \in Cpus /\ runQueue[d] \in Seq(Threads) /\ runQueue \in [Cpus -> Seq(Threads)]
    BY DEF ConstantsOK, TypeInv, TypeOK, SchedTypeOK
<1>2. /\ Distinct(Append(runQueue[d], t))
      /\ Range(Append(runQueue[d], t)) = Range(runQueue[d]) \cup {t}
    BY <1>1, AppendDistinct DEF QueueInv, Queued
<1>3. runQueue'[d] = Append(runQueue[d], t) /\ \A c \in Cpus \ {d} : runQueue'[c] = runQueue[c]
    BY <1>1 DEF InsertIn
<1>4. ASSUME NEW c \in Cpus
      PROVE  Distinct(runQueue'[c]) /\ \A u \in Range(runQueue'[c]) : CpuOf[u] = c
  <2>1. CASE c = d
    <3>1. runQueue'[c] = Append(runQueue[d], t)
        BY <1>3, <2>1
    <3>2. \A u \in Range(runQueue[d]) : CpuOf[u] = d
        BY <1>1 DEF QueueInv
    <3> QED BY <1>2, <2>1, <3>1, <3>2
  <2>2. CASE c # d
      BY <1>3, <2>2 DEF QueueInv
  <2> QED BY <2>1, <2>2
<1>5. ASSUME NEW u \in Threads PROVE Queued(u)' <=> Queued(u) \/ u = t
  <2>1. CpuOf[u] \in Cpus
      BY DEF ConstantsOK
  <2>2. CASE CpuOf[u] = d
      BY <1>2, <1>3, <2>2 DEF Queued
  <2>3. CASE CpuOf[u] # d
      BY <1>3, <2>1, <2>3 DEF Queued
  <2> QED BY <2>2, <2>3
<1> QED BY <1>4, <1>5

\* What pull() has in hand stays as it is, when a step changes another thread r.
LEMMA InHand ==
  ASSUME TypeInv, HandInv, NEW r, \A c \in Cpus : newThread[c] # r,
         newThread' = newThread, \A c \in Cpus : mode[c] = "pull" => mode'[c] = "pull",
         \A t \in Threads : t # r => schedState'[t] = schedState[t] /\ (Inserting(t)' => Inserting(t))
  PROVE  HandInv'
<1> SUFFICES ASSUME NEW c \in Cpus, newThread'[c] # Nobody
             PROVE  /\ mode'[c] = "pull" /\ CpuOf[newThread'[c]] = c
                    /\ schedState'[newThread'[c]] = "RUNNABLE" /\ ~ Inserting(newThread[c])'
    BY DEF HandInv
<1>1. newThread[c] \in Threads /\ newThread[c] # r
    BY DEF TypeInv, TypeOK, SchedTypeOK
<1>2. ~ Inserting(newThread[c]) /\ (Inserting(newThread[c])' => Inserting(newThread[c]))
    BY <1>1 DEF HandInv
<1> QED BY <1>1, <1>2 DEF HandInv

\* A thread whose state a step of x leaves alone, and x's own between calls.
LEMMA StateFrame ==
  ASSUME ConstantsOK, NEW x \in Contexts, OnlyMoves(x), NEW t \in Threads, StateAt(t),
         x = <<t, "thread">> => pc[x] \notin Leaving \cup {"recv"} /\ pc'[x] \notin Leaving \cup {"recv"},
         schedState'[t] = schedState[t], SwitchedIn(t)' => SwitchedIn(t),
         Unblocking(t)' => Unblocking(t), pc'[x] # "unblockState"
  PROVE  StateAt(t)'
<1> DEFINE z == <<t, "thread">>
<1>1. z \in Contexts /\ (z # x => pc'[z] = pc[z])
    BY ContextFacts DEF OnlyMoves
<1>2. pc'[z] \in Leaving <=> pc[z] \in Leaving
    BY <1>1
<1>3. pc'[z] \in {"blockRemove", "blockUnlock", "yieldInsert"} => pc'[z] = pc[z]
    BY <1>1 DEF Leaving
<1>4. Inserting(t)' => Inserting(t)
    BY <1>3 DEF Inserting
<1>5. Unblocking(t)' => Parked(t)'
  <2> SUFFICES ASSUME Unblocking(t)' PROVE Parked(t)'
      OBVIOUS
  <2>1. Parked(t)
      BY DEF StateAt
  <2>2. pc[z] \in Leaving \cup {"recv"}
      BY <2>1 DEF Parked, Leaving
  <2>3. pc'[z] = pc[z]
      BY <1>1, <2>2
  <2> QED BY <2>1, <2>3 DEF Parked
<1>6. \A y \in Contexts : pc'[y] = "unblockState" /\ arg'[y] = t => schedState'[t] = "BLOCKED"
    BY DEF StateAt, OnlyMoves
<1> QED BY <1>2, <1>3, <1>4, <1>5, <1>6 DEF StateAt

LEMMA UnblockStateKeeps ==
  ASSUME ConstantsOK, AInv, BInv, NEW x \in Contexts, UnblockState(x)
  PROVE  BInv'
<1> PICK r \in Receivers : arg[x] = r
    BY DEF AInv, CallInv, CallAt, UnblockState, At
<1> DEFINE z == <<r, "thread">>
<1>0. /\ TypeInv /\ pc \in [Contexts -> ThreadLabels \cup IsrLabels] /\ arg \in [Contexts -> Threads \cup {Nobody}]
      /\ schedState \in [Threads -> {"UNSCHEDULED", "RUNNABLE", "RUNNING", "BLOCKED", "DORMANT"}]
    BY DEF AInv, TypeInv, PcType, TypeOK, SchedTypeOK
<1>1. /\ pc[x] = "unblockState" /\ pc' = [pc EXCEPT ![x] = "insert"]
      /\ schedState' = [schedState EXCEPT ![r] = "RUNNABLE"]
      /\ UNCHANGED <<runQueue, currentThread, mode, newThread, context, arg, lock>>
    BY DEF UnblockState, At, Goto
<1>2. arg[x] = r /\ r \in Threads /\ lock[r] = x /\ z \in Contexts
    BY <1>1, ContextFacts DEF AInv, CallInv, CallAt, ConstantsOK
<1>3. schedState[r] = "BLOCKED"
    BY <1>1, <1>2 DEF BInv, StateInv, StateAt
<1>4. Parked(r) /\ z # x
  <2>1. z[1] = r /\ (pc[z] \in {"blockRemove", "blockUnlock"} => lock[r] = z)
      BY <1>2 DEF AInv, CallInv, CallAt
  <2>2. pc[z] \in {"blockRemove", "blockUnlock"} \/ Parked(r)
      BY <1>2, <1>3 DEF AInv, BlockedInv, BlockedAt
  <2>3. Parked(r)
      BY <1>1, <1>2, <2>1, <2>2
  <2> QED BY <1>1, <2>3 DEF Parked
<1>5. ~ Queued(r) /\ newThread[CpuOf[r]] # r /\ ~ Inserting(r) /\ \A c \in Cpus : newThread[c] # r
    BY <1>2, <1>3 DEF BInv, QueueInv, HandInv, StateInv, StateAt, ConstantsOK
<1>6. \A y \in Contexts : y # x => pc'[y] = pc[y]
    BY <1>0, <1>1
<1>7. /\ \A t \in Threads : t # r => (Unblocking(t)' <=> Unblocking(t)) /\ (Inserting(t)' <=> Inserting(t))
      /\ Unblocking(r)' /\ Inserting(r)'
  <2>1. \A t \in Threads : t # r => (Unblocking(t)' <=> Unblocking(t))
      BY <1>0, <1>1, <1>6 DEF Unblocking
  <2>2. \A t \in Threads : pc'[<<t, "thread">>] = "yieldInsert" <=> pc[<<t, "thread">>] = "yieldInsert"
      BY <1>0, <1>1, <1>6, ContextFacts
  <2>3. Unblocking(r)'
      BY <1>0, <1>1 DEF Unblocking
  <2> QED BY <2>1, <2>2, <2>3 DEF Inserting
<1>8. LeavingInv'
  <2>1. \A t \in Threads : pc'[<<t, "thread">>] \in Leaving => pc[<<t, "thread">>] \in Leaving
      BY <1>0, <1>1, <1>6, ContextFacts DEF Leaving
  <2>2. \A y \in Contexts : y[2] # "thread" => pc'[y] \notin {"yield", "yieldInsert", "yieldPull"}
      BY <1>0, <1>1, <1>6 DEF BInv, LeavingInv
  <2> QED BY <1>1, <2>1, <2>2 DEF BInv, LeavingInv
<1>9. ASSUME NEW t \in Threads PROVE StateAt(t)'
  <2>0. StateAt(t) /\ <<t, "thread">> \in Contexts
      BY ContextFacts DEF BInv, StateInv
  <2>1. /\ SwitchedIn(t)' <=> SwitchedIn(t)
        /\ pc'[<<t, "thread">>] \in Leaving <=> pc[<<t, "thread">>] \in Leaving
        /\ pc'[<<t, "thread">>] \in {"blockRemove", "blockUnlock"} => pc[<<t, "thread">>] \in {"blockRemove", "blockUnlock"}
      BY <1>0, <1>1, <1>6, <2>0 DEF SwitchedIn, Leaving
  <2>2. CASE t = r
    <3>1. Parked(r)'
        BY <1>2, <1>4, <1>6, <2>1, <2>2 DEF Parked
    <3>2. schedState'[r] = "RUNNABLE" /\ ~ (SwitchedIn(r) /\ pc[z] \notin Leaving)
        BY <1>0, <1>1, <1>2, <1>4 DEF Parked, Leaving
    <3>3. pc[z] \notin {"blockRemove", "blockUnlock"}
        BY <1>4 DEF Parked
    <3>4. ASSUME NEW y \in Contexts, pc'[y] = "unblockState", arg'[y] = r PROVE FALSE
      <4>1. y # x /\ pc[y] = "unblockState" /\ arg[y] = r
          BY <1>0, <1>1, <1>6, <3>4
      <4>2. CallAt(y)
          BY DEF AInv, CallInv
      <4> QED BY <1>2, <4>1, <4>2 DEF CallAt
    <3> QED BY <2>1, <2>2, <3>1, <3>2, <3>3, <3>4 DEF StateAt
  <2>3. CASE t # r
    <3>1. schedState'[t] = schedState[t] /\ (Unblocking(t)' <=> Unblocking(t))
        BY <1>0, <1>1, <1>7, <2>3
    <3>2. OnlyMoves(x) /\ pc[x] = "unblockState" /\ pc'[x] = "insert"
        BY <1>0, <1>1, <1>6 DEF OnlyMoves
    <3> QED BY <2>0, <2>1, <3>1, <3>2, StateFrame DEF Leaving
  <2> QED BY <2>2, <2>3
<1>10. \A t \in Threads : t # r => schedState'[t] = schedState[t]
    BY <1>0, <1>1
<1>11. \A t \in Threads : Queued(t)' <=> Queued(t)
    BY <1>1 DEF Queued
<1>12. QueueInv'
  <2>1. \A t \in Threads : Queued(t)' =>
          schedState'[t] = "RUNNABLE" /\ newThread'[CpuOf[t]] # t /\ ~ Inserting(t)'
      BY <1>1, <1>5, <1>7, <1>10, <1>11 DEF BInv, QueueInv
  <2>2. HandInv'
    <3>1. \A t \in Threads : t # r => schedState'[t] = schedState[t] /\ (Inserting(t)' => Inserting(t))
        BY <1>7, <1>10
    <3>2. newThread' = newThread /\ mode' = mode /\ TypeInv /\ HandInv
        BY <1>0, <1>1 DEF BInv, QueueInv
    <3> QED BY <1>5, <3>1, <3>2, InHand
  <2> QED BY <1>1, <2>1, <2>2 DEF BInv, QueueInv
<1>13. FoundInv' /\ HomeInv' /\ ContextsOwn'
    BY <1>1, <1>7, <1>10, <1>11 DEF BInv, FoundInv, HomeInv, ContextsOwn
<1> QED BY <1>8, <1>9, <1>12, <1>13 DEF BInv, StateInv

LEMMA InsertKeeps ==
  ASSUME ConstantsOK, AInv, BInv, NEW x \in Contexts, Insert(x)
  PROVE  BInv'
<1> PICK r \in Receivers : arg[x] = r
    BY DEF AInv, CallInv, CallAt, Insert, At
<1>0. /\ TypeInv /\ pc \in [Contexts -> ThreadLabels \cup IsrLabels]
    BY DEF AInv, TypeInv, PcType
<1>1. /\ pc[x] = "insert" /\ pc' = [pc EXCEPT ![x] = "preempt"] /\ InsertIn(r)
      /\ UNCHANGED <<schedState, currentThread, mode, newThread, context, arg, lock>>
    BY DEF Insert, At, Goto
<1>2. r \in Threads /\ lock[r] = x
    BY <1>1 DEF AInv, CallInv, CallAt, ConstantsOK
<1>3. Unblocking(r) /\ Inserting(r) /\ schedState[r] = "RUNNABLE" /\ Parked(r)
    BY <1>1, <1>2 DEF Unblocking, Inserting, BInv, StateInv, StateAt
<1>4. ~ Queued(r) /\ \A c \in Cpus : newThread[c] # r
  <2>1. ~ Queued(r)
      BY <1>2, <1>3 DEF BInv, QueueInv
  <2>2. r # Nobody
      BY <1>2 DEF ConstantsOK
  <2> QED BY <1>3, <2>1, <2>2 DEF BInv, QueueInv, HandInv
<1>5. OnlyMoves(x) /\ pc'[x] = "preempt" /\ \A y \in Contexts : y # x => pc'[y] = pc[y]
    BY <1>0, <1>1 DEF OnlyMoves
<1>6. /\ \A t \in Threads : t # r => (Unblocking(t)' <=> Unblocking(t)) /\ (Inserting(t)' <=> Inserting(t))
      /\ ~ Unblocking(r)' /\ ~ Inserting(r)'
  <2>1. \A t \in Threads : t # r => (Unblocking(t)' <=> Unblocking(t))
      BY <1>1, <1>5 DEF Unblocking
  <2>2. \A t \in Threads : pc'[<<t, "thread">>] = "yieldInsert" <=> pc[<<t, "thread">>] = "yieldInsert"
      BY <1>1, <1>5, ContextFacts
  <2>3. ASSUME NEW y \in Contexts, pc'[y] = "insert", arg'[y] = r PROVE FALSE
    <3>1. y # x /\ pc[y] = "insert" /\ arg[y] = r /\ CallAt(y)
        BY <1>1, <1>5, <2>3 DEF AInv, CallInv
    <3> QED BY <1>2, <3>1 DEF CallAt
  <2>4. ~ Unblocking(r)'
      BY <2>3 DEF Unblocking
  <2>5. pc[<<r, "thread">>] # "yieldInsert"
      BY <1>3 DEF Parked
  <2> QED BY <1>2, <2>1, <2>2, <2>4, <2>5 DEF Inserting
<1>7. LeavingInv'
  <2>1. \A t \in Threads : pc'[<<t, "thread">>] \in Leaving => pc[<<t, "thread">>] \in Leaving
      BY <1>5, ContextFacts DEF Leaving
  <2>2. \A y \in Contexts : y[2] # "thread" => pc'[y] \notin {"yield", "yieldInsert", "yieldPull"}
      BY <1>5 DEF BInv, LeavingInv
  <2> QED BY <1>1, <2>1, <2>2 DEF BInv, LeavingInv
<1>8. ASSUME NEW t \in Threads PROVE StateAt(t)'
  <2>1. StateAt(t) /\ schedState'[t] = schedState[t] /\ (SwitchedIn(t)' <=> SwitchedIn(t))
      BY <1>1 DEF BInv, StateInv, SwitchedIn
  <2>2. Unblocking(t)' => Unblocking(t)
      BY <1>6
  <2> QED BY <1>1, <1>5, <2>1, <2>2, StateFrame DEF Leaving
<1>9. /\ \A c \in Cpus : Distinct(runQueue'[c]) /\ \A u \in Range(runQueue'[c]) : CpuOf[u] = c
      /\ \A u \in Threads : Queued(u)' <=> Queued(u) \/ u = r
    BY <1>0, <1>1, <1>2, <1>4, InsertQueue DEF BInv
<1>10. QueueInv'
  <2>1. ASSUME NEW t \in Threads, Queued(t)'
        PROVE  schedState'[t] = "RUNNABLE" /\ newThread'[CpuOf[t]] # t /\ ~ Inserting(t)'
    <3>1. CASE t = r
        BY <1>1, <1>2, <1>3, <1>4, <1>6, <3>1 DEF ConstantsOK
    <3>2. CASE t # r
        BY <1>1, <1>6, <1>9, <2>1, <3>2 DEF BInv, QueueInv
    <3> QED BY <3>1, <3>2
  <2>2. HandInv'
      BY <1>0, <1>1, <1>4, <1>6, InHand DEF BInv, QueueInv
  <2> QED BY <1>9, <2>1, <2>2 DEF QueueInv
<1>11. FoundInv' /\ HomeInv' /\ ContextsOwn'
    BY <1>1, <1>6, <1>9 DEF BInv, FoundInv, HomeInv, ContextsOwn
<1> QED BY <1>7, <1>8, <1>10, <1>11 DEF BInv, StateInv

\* A thread that runs is in no queue, nor on its way to one.
LEMMA RunningFacts ==
  ASSUME ConstantsOK, BInv, NEW r \in Threads, schedState[r] = "RUNNING"
  PROVE  ~ Queued(r) /\ ~ Inserting(r) /\ ~ Unblocking(r) /\ \A c \in Cpus : newThread[c] # r
<1>1. ~ Inserting(r) /\ ~ Unblocking(r)
    BY DEF BInv, StateInv, StateAt, Inserting
<1>2. ~ Queued(r)
    BY DEF BInv, QueueInv
<1>3. ASSUME NEW c \in Cpus, newThread[c] = r PROVE FALSE
  <2>1. r # Nobody
      BY DEF ConstantsOK
  <2> QED BY <1>3, <2>1 DEF BInv, QueueInv, HandInv
<1> QED BY <1>1, <1>2, <1>3

LEMMA YieldStateKeeps ==
  ASSUME ConstantsOK, AInv, BInv, NEW x \in Contexts, YieldState(x)
  PROVE  BInv'
<1>0. /\ TypeInv /\ pc \in [Contexts -> ThreadLabels \cup IsrLabels] /\ pc[x] = "yield"
      /\ schedState \in [Threads -> {"UNSCHEDULED", "RUNNABLE", "RUNNING", "BLOCKED", "DORMANT"}]
    BY DEF AInv, TypeInv, PcType, TypeOK, SchedTypeOK, YieldState, At
<1>1. x[2] = "thread"
    BY <1>0 DEF BInv, LeavingInv
<1> PICK r \in Threads : x = <<r, "thread">> /\ Cpu(x) = CpuOf[r] /\ CpuOf[r] \in Cpus
    BY <1>1, ContextFacts
<1>2. mode[CpuOf[r]] = "thread" /\ currentThread[CpuOf[r]] = r /\ SwitchedIn(r)
    BY <1>0, ExecutingFacts DEF YieldState, At, SwitchedIn
<1>3. /\ pc' = [pc EXCEPT ![x] = "yieldInsert"] /\ schedState' = [schedState EXCEPT ![r] = "RUNNABLE"]
      /\ UNCHANGED <<runQueue, currentThread, mode, newThread, context, arg, lock>>
    BY <1>2 DEF YieldState, Goto
<1>4. StateAt(r) /\ schedState[r] = "RUNNING"
    BY <1>0, <1>2 DEF BInv, StateInv, StateAt, Leaving
<1>5. ~ Queued(r) /\ ~ Inserting(r) /\ ~ Unblocking(r) /\ \A c \in Cpus : newThread[c] # r
    BY <1>4, RunningFacts
<1>6. OnlyMoves(x) /\ pc'[x] = "yieldInsert" /\ \A y \in Contexts : y # x => pc'[y] = pc[y]
    BY <1>0, <1>3 DEF OnlyMoves
<1>7. /\ \A t \in Threads : Unblocking(t)' <=> Unblocking(t)
      /\ \A t \in Threads : t # r => (Inserting(t)' <=> Inserting(t))
      /\ Inserting(r)'
    BY <1>0, <1>6, InsertingFrame DEF Inserting
<1>8. LeavingInv'
  <2>1. \A t \in Threads : t # r /\ pc'[<<t, "thread">>] \in Leaving => pc[<<t, "thread">>] \in Leaving
      BY <1>6, ContextFacts
  <2>2. \A y \in Contexts : y[2] # "thread" => pc'[y] \notin {"yield", "yieldInsert", "yieldPull"}
      BY <1>1, <1>6 DEF BInv, LeavingInv
  <2> QED BY <1>2, <1>3, <2>1, <2>2 DEF BInv, LeavingInv
<1>9. ASSUME NEW t \in Threads PROVE StateAt(t)'
  <2>1. CASE t = r
    <3>1. schedState'[r] = "RUNNABLE" /\ pc'[<<r, "thread">>] = "yieldInsert"
        BY <1>0, <1>3, <1>6
    <3>2. \A y \in Contexts : ~ (pc'[y] = "unblockState" /\ arg'[y] = r)
        BY <1>3, <1>4, <1>6 DEF StateAt
    <3> QED BY <1>5, <1>7, <2>1, <3>1, <3>2 DEF StateAt, Leaving
  <2>2. CASE t # r
    <3>1. schedState'[t] = schedState[t] /\ StateAt(t) /\ (SwitchedIn(t)' <=> SwitchedIn(t)) /\ x # <<t, "thread">>
        BY <1>0, <1>3, <2>2 DEF BInv, StateInv, SwitchedIn
    <3> QED BY <1>6, <1>7, <3>1, StateFrame
  <2> QED BY <2>1, <2>2
<1>10. \A t \in Threads : t # r => schedState'[t] = schedState[t]
    BY <1>0, <1>3
<1>11. \A t \in Threads : Queued(t)' <=> Queued(t)
    BY <1>3 DEF Queued
<1>12. QueueInv'
  <2>1. \A t \in Threads : Queued(t)' =>
          schedState'[t] = "RUNNABLE" /\ newThread'[CpuOf[t]] # t /\ ~ Inserting(t)'
      BY <1>3, <1>5, <1>7, <1>10, <1>11 DEF BInv, QueueInv
  <2>2. HandInv'
    <3>1. HandInv /\ newThread' = newThread /\ mode' = mode
        BY <1>3 DEF BInv, QueueInv
    <3>2. \A t \in Threads : t # r => schedState'[t] = schedState[t] /\ (Inserting(t)' => Inserting(t))
        BY <1>7, <1>10
    <3> QED BY <1>0, <1>5, <3>1, <3>2, InHand
  <2> QED BY <1>3, <2>1, <2>2 DEF BInv, QueueInv
<1>13. FoundInv' /\ HomeInv' /\ ContextsOwn'
    BY <1>3, <1>7, <1>10, <1>11 DEF BInv, FoundInv, HomeInv, ContextsOwn
<1> QED BY <1>8, <1>9, <1>12, <1>13 DEF BInv, StateInv

LEMMA YieldInsertKeeps ==
  ASSUME ConstantsOK, AInv, BInv, NEW x \in Contexts, YieldInsert(x)
  PROVE  BInv'
<1>0. TypeInv /\ pc \in [Contexts -> ThreadLabels \cup IsrLabels] /\ pc[x] = "yieldInsert"
    BY DEF AInv, TypeInv, PcType, YieldInsert, At
<1>1. x[2] = "thread"
    BY <1>0 DEF BInv, LeavingInv
<1> PICK r \in Threads : x = <<r, "thread">> /\ Cpu(x) = CpuOf[r] /\ CpuOf[r] \in Cpus
    BY <1>1, ContextFacts
<1>2. mode[CpuOf[r]] = "thread" /\ currentThread[CpuOf[r]] = r
    BY <1>0, ExecutingFacts DEF YieldInsert, At
<1>3. /\ pc' = [pc EXCEPT ![x] = "yieldPull"] /\ InsertIn(r)
      /\ UNCHANGED <<schedState, currentThread, mode, newThread, context, arg, lock>>
    BY <1>2 DEF YieldInsert, Goto
<1>4. StateAt(r) /\ Inserting(r) /\ schedState[r] = "RUNNABLE" /\ ~ Unblocking(r)
    BY <1>0 DEF BInv, StateInv, StateAt, Inserting, Parked
<1>5. ~ Queued(r) /\ \A c \in Cpus : newThread[c] # r
    BY <1>4 DEF BInv, QueueInv, HandInv, ConstantsOK
<1>6. OnlyMoves(x) /\ pc'[x] = "yieldPull" /\ \A y \in Contexts : y # x => pc'[y] = pc[y]
    BY <1>0, <1>3 DEF OnlyMoves
<1>7. /\ \A t \in Threads : Unblocking(t)' <=> Unblocking(t)
      /\ \A t \in Threads : t # r => (Inserting(t)' <=> Inserting(t))
      /\ ~ Inserting(r)'
  <2>1. \A t \in Threads : Unblocking(t)' <=> Unblocking(t)
      BY <1>0, <1>6, InsertingFrame
  <2>2. \A t \in Threads : t # r => (Inserting(t)' <=> Inserting(t))
      BY <1>0, <1>6, InsertingFrame
  <2> QED BY <1>4, <1>6, <2>1, <2>2 DEF Inserting
<1>8. LeavingInv'
  <2>1. \A t \in Threads : t # r /\ pc'[<<t, "thread">>] \in Leaving => pc[<<t, "thread">>] \in Leaving
      BY <1>6, ContextFacts
  <2>2. \A y \in Contexts : y[2] # "thread" => pc'[y] \notin {"yield", "yieldInsert", "yieldPull"}
      BY <1>1, <1>6 DEF BInv, LeavingInv
  <2> QED BY <1>2, <1>3, <2>1, <2>2 DEF BInv, LeavingInv
<1>9. ASSUME NEW t \in Threads PROVE StateAt(t)'
  <2>1. CASE t = r
    <3>1. \A y \in Contexts : pc'[y] = "unblockState" /\ arg'[y] = r => schedState'[r] = "BLOCKED"
        BY <1>3, <1>4, <1>6 DEF StateAt
    <3> QED BY <1>4, <1>6, <1>7, <2>1, <3>1 DEF StateAt, Leaving
  <2>2. CASE t # r
    <3>1. schedState'[t] = schedState[t] /\ StateAt(t) /\ (SwitchedIn(t)' <=> SwitchedIn(t)) /\ x # <<t, "thread">>
        BY <1>3, <2>2 DEF BInv, StateInv, SwitchedIn
    <3> QED BY <1>6, <1>7, <3>1, StateFrame
  <2> QED BY <2>1, <2>2
<1>10. /\ \A c \in Cpus : Distinct(runQueue'[c]) /\ \A u \in Range(runQueue'[c]) : CpuOf[u] = c
       /\ \A u \in Threads : Queued(u)' <=> Queued(u) \/ u = r
    BY <1>0, <1>3, <1>5, InsertQueue DEF BInv
<1>11. QueueInv'
  <2>1. ASSUME NEW t \in Threads, Queued(t)'
        PROVE  schedState'[t] = "RUNNABLE" /\ newThread'[CpuOf[t]] # t /\ ~ Inserting(t)'
    <3>1. CASE t = r
        BY <1>3, <1>4, <1>5, <1>7, <3>1 DEF ConstantsOK
    <3>2. CASE t # r
        BY <1>3, <1>7, <1>10, <2>1, <3>2 DEF BInv, QueueInv
    <3> QED BY <3>1, <3>2
  <2>2. HandInv'
      BY <1>0, <1>3, <1>5, <1>7, InHand DEF BInv, QueueInv
  <2> QED BY <1>10, <2>1, <2>2 DEF QueueInv
<1>12. FoundInv' /\ HomeInv' /\ ContextsOwn'
    BY <1>3, <1>7, <1>10 DEF BInv, FoundInv, HomeInv, ContextsOwn
<1> QED BY <1>8, <1>9, <1>11, <1>12 DEF BInv, StateInv

LEMMA ReceiveBlocksKeeps ==
  ASSUME ConstantsOK, AInv, BInv, NEW x \in Contexts, ReceiveBlocks(x)
  PROVE  BInv'
<1>0. /\ TypeInv /\ PcType /\ pc \in [Contexts -> ThreadLabels \cup IsrLabels] /\ pc[x] = "recv"
      /\ schedState \in [Threads -> {"UNSCHEDULED", "RUNNABLE", "RUNNING", "BLOCKED", "DORMANT"}]
    BY DEF AInv, TypeInv, PcType, TypeOK, SchedTypeOK, ReceiveBlocks, At
<1>1. x[2] = "thread" /\ x[1] \in Receivers
    BY <1>0 DEF AInv, CallInv, CallAt, PcType, IsrLabels, CallLabels
<1> PICK r \in Threads : x = <<r, "thread">> /\ Cpu(x) = CpuOf[r] /\ CpuOf[r] \in Cpus
    BY <1>1, ContextFacts
<1>2. mode[CpuOf[r]] = "thread" /\ currentThread[CpuOf[r]] = r /\ SwitchedIn(r)
    BY <1>0, ExecutingFacts DEF ReceiveBlocks, At, SwitchedIn
<1>3. /\ pc' = [pc EXCEPT ![x] = "blockRemove"] /\ schedState' = [schedState EXCEPT ![r] = "BLOCKED"]
      /\ UNCHANGED <<runQueue, currentThread, mode, newThread, context, arg>>
    BY DEF ReceiveBlocks, Block, Goto
<1>4. StateAt(r) /\ schedState[r] = "RUNNING"
    BY <1>0, <1>2 DEF BInv, StateInv, StateAt, Leaving
<1>5. ~ Queued(r) /\ ~ Inserting(r) /\ ~ Unblocking(r) /\ \A c \in Cpus : newThread[c] # r
    BY <1>4, RunningFacts
<1>6. OnlyMoves(x) /\ pc'[x] = "blockRemove" /\ \A y \in Contexts : y # x => pc'[y] = pc[y]
  <2>1. r \in Queues /\ lock[r] = Nobody /\ lock' = [lock EXCEPT ![r] = x] /\ lock \in [Queues -> Contexts \cup {Nobody}]
      BY <1>0, <1>1 DEF ReceiveBlocks, ConstantsOK, TypeInv, TypeOK, SchedTypeOK
  <2> QED BY <1>0, <1>3, <2>1 DEF OnlyMoves
<1>7. \A t \in Threads : (Unblocking(t)' <=> Unblocking(t)) /\ (Inserting(t)' <=> Inserting(t))
    BY <1>0, <1>5, <1>6, InsertingFrame DEF Inserting
<1>8. LeavingInv'
  <2>1. \A t \in Threads : t # r /\ pc'[<<t, "thread">>] \in Leaving => pc[<<t, "thread">>] \in Leaving
      BY <1>6, ContextFacts
  <2>2. \A y \in Contexts : y[2] # "thread" => pc'[y] \notin {"yield", "yieldInsert", "yieldPull"}
      BY <1>1, <1>6 DEF BInv, LeavingInv
  <2> QED BY <1>2, <1>3, <2>1, <2>2 DEF BInv, LeavingInv
<1>9. ASSUME NEW t \in Threads PROVE StateAt(t)'
  <2>1. CASE t = r
    <3>1. schedState'[r] = "BLOCKED" /\ pc'[<<r, "thread">>] = "blockRemove"
        BY <1>0, <1>3, <1>6
    <3> QED BY <1>5, <1>7, <2>1, <3>1 DEF StateAt, Leaving
  <2>2. CASE t # r
    <3>1. schedState'[t] = schedState[t] /\ StateAt(t) /\ (SwitchedIn(t)' <=> SwitchedIn(t)) /\ x # <<t, "thread">>
        BY <1>0, <1>3, <2>2 DEF BInv, StateInv, SwitchedIn
    <3> QED BY <1>6, <1>7, <3>1, StateFrame
  <2> QED BY <2>1, <2>2
<1>10. \A t \in Threads : t # r => schedState'[t] = schedState[t]
    BY <1>0, <1>3
<1>11. \A t \in Threads : Queued(t)' <=> Queued(t)
    BY <1>3 DEF Queued
<1>12. QueueInv'
  <2>1. \A t \in Threads : Queued(t)' =>
          schedState'[t] = "RUNNABLE" /\ newThread'[CpuOf[t]] # t /\ ~ Inserting(t)'
      BY <1>3, <1>5, <1>7, <1>10, <1>11 DEF BInv, QueueInv
  <2>2. HandInv'
    <3>1. HandInv /\ newThread' = newThread /\ mode' = mode
        BY <1>3 DEF BInv, QueueInv
    <3>2. \A t \in Threads : t # r => schedState'[t] = schedState[t] /\ (Inserting(t)' => Inserting(t))
        BY <1>7, <1>10
    <3> QED BY <1>0, <1>5, <3>1, <3>2, InHand
  <2> QED BY <1>3, <2>1, <2>2 DEF BInv, QueueInv
<1>13. FoundInv' /\ HomeInv' /\ ContextsOwn'
  <2>1. schedState'[r] # "RUNNABLE"
      BY <1>0, <1>3
  <2> QED BY <1>3, <1>7, <1>10, <1>11, <2>1 DEF BInv, FoundInv, HomeInv, ContextsOwn
<1> QED BY <1>8, <1>9, <1>12, <1>13 DEF BInv, StateInv

\* A thread that blocks is not in its run queue: the removal finds nothing.
LEMMA BlockRemoveKeeps ==
  ASSUME ConstantsOK, AInv, BInv, NEW x \in Contexts, BlockRemove(x)
  PROVE  BInv'
<1>0. TypeInv /\ PcType /\ pc \in [Contexts -> ThreadLabels \cup IsrLabels] /\ pc[x] = "blockRemove"
    BY DEF AInv, TypeInv, PcType, BlockRemove, At
<1>1. x[2] = "thread"
    BY <1>0 DEF PcType, IsrLabels, CallLabels
<1> PICK r \in Threads : x = <<r, "thread">> /\ Cpu(x) = CpuOf[r] /\ CpuOf[r] \in Cpus
    BY <1>1, ContextFacts
<1>2. schedState[r] = "BLOCKED" /\ ~ Queued(r)
    BY <1>0 DEF BInv, StateInv, StateAt, QueueInv
<1>3. runQueue \in [Cpus -> Seq(Threads)] /\ runQueue[CpuOf[r]] \in Seq(Threads)
    BY <1>0 DEF TypeInv, TypeOK, SchedTypeOK
<1>4. RemoveFirst(runQueue[CpuOf[r]], r) = runQueue[CpuOf[r]]
    BY <1>2, <1>3, RemoveFirstNone DEF Queued
<1>5. runQueue' = runQueue
    BY <1>3, <1>4 DEF BlockRemove, RemoveFrom
<1>6. NoSwitch /\ OnlyMoves(x) /\ pc'[x] = "blockUnlock"
    BY <1>0, <1>5 DEF BlockRemove, Goto, NoSwitch, OnlyMoves
<1>7. ~ Parked(r)
    BY <1>0 DEF Parked
<1> QED BY <1>0, <1>1, <1>6, <1>7, LabelStep DEF Leaving

\* saveContextAndCallPull(), which only a thread's own code calls.
LEMMA SwitchOutKeeps ==
  ASSUME ConstantsOK, AInv, BInv, NEW x \in Contexts, BlockPull(x) \/ YieldPull(x)
  PROVE  BInv'
<1>0. /\ TypeInv /\ PcType /\ pc \in [Contexts -> ThreadLabels \cup IsrLabels]
      /\ pc[x] \in {"blockPull", "yieldPull"} /\ Executing(Cpu(x)) = x
    BY DEF AInv, TypeInv, PcType, BlockPull, YieldPull, At
<1>1. x[2] = "thread"
    BY <1>0 DEF BInv, LeavingInv, PcType, IsrLabels, CallLabels
<1> PICK r \in Threads : x = <<r, "thread">> /\ Cpu(x) = CpuOf[r] /\ CpuOf[r] \in Cpus
    BY <1>1, ContextFacts
<1> DEFINE c == CpuOf[r]
<1>2. mode[c] = "thread" /\ currentThread[c] = r /\ newThread[c] = Nobody
  <2>1. mode[c] = "thread" /\ currentThread[c] = r
      BY <1>0, ExecutingFacts
  <2> QED BY <2>1 DEF BInv, QueueInv, HandInv
<1>3. PICK l \in {"recv", "unlock", "idle", "isrDone"} :
        /\ pc' = [pc EXCEPT ![x] = l] /\ (pc[x] = "blockPull" => l = "recv")
        /\ mode' = [mode EXCEPT ![c] = "pull"] /\ newThread' = [newThread EXCEPT ![c] = Nobody]
        /\ UNCHANGED <<schedState, runQueue, currentThread, context, arg, lock>>
  <2>1. CASE BlockPull(x)
      BY <1>1, <2>1 DEF BlockPull, SaveContextAndCallPull, Goto
  <2>2. CASE YieldPull(x)
      BY <1>1, <2>2, ReturnFacts DEF YieldPull, SaveContextAndCallPull, Goto, At
  <2> QED BY <2>1, <2>2
<1>4. newThread' = newThread
  <2>1. newThread \in [Cpus -> Threads \cup {Nobody}] /\ newThread[c] = Nobody
      BY <1>0, <1>2 DEF TypeInv, TypeOK, SchedTypeOK
  <2> QED BY <1>3, <2>1
<1>5. OnlyMoves(x) /\ pc'[x] = l /\ \A y \in Contexts : y # x => pc'[y] = pc[y]
    BY <1>0, <1>3 DEF OnlyMoves
<1>6. \A t \in Threads : (Unblocking(t)' <=> Unblocking(t)) /\ (Inserting(t)' <=> Inserting(t))
    BY <1>0, <1>5, InsertingFrame DEF Inserting
<1>7. mode'[c] = "pull" /\ \A d \in Cpus : d # c => mode'[d] = mode[d]
    BY <1>0, <1>3 DEF TypeInv, TypeOK, SchedTypeOK
<1>8. ~ SwitchedIn(r)' /\ \A t \in Threads : SwitchedIn(t)' => SwitchedIn(t)
    BY <1>3, <1>7 DEF SwitchedIn, ConstantsOK
<1>9. LeavingInv'
  <2>1. ASSUME NEW t \in Threads, pc'[<<t, "thread">>] \in Leaving
        PROVE  mode'[CpuOf[t]] = "thread" /\ currentThread'[CpuOf[t]] = t
    <3>1. t # r
        BY <1>5, <2>1 DEF Leaving
    <3>2. pc[<<t, "thread">>] \in Leaving
        BY <1>5, <2>1, <3>1, ContextFacts
    <3>3. mode[CpuOf[t]] = "thread" /\ currentThread[CpuOf[t]] = t /\ CpuOf[t] \in Cpus
        BY <3>2 DEF BInv, LeavingInv, ConstantsOK
    <3>4. CpuOf[t] # c
        BY <1>2, <3>1, <3>3
    <3> QED BY <1>3, <1>7, <3>3, <3>4
  <2>2. \A y \in Contexts : y[2] # "thread" => pc'[y] \notin {"yield", "yieldInsert", "yieldPull"}
      BY <1>1, <1>5 DEF BInv, LeavingInv
  <2> QED BY <2>1, <2>2 DEF LeavingInv
<1>10. ASSUME NEW t \in Threads PROVE StateAt(t)'
  <2>0. StateAt(t) /\ schedState' = schedState
      BY <1>3 DEF BInv, StateInv
  <2>1. CASE t = r
    <3>1. Unblocking(r) => pc[x] = "blockPull"
        BY <1>0, <2>0, <2>1 DEF StateAt, Parked
    <3>2. Unblocking(r)' => Parked(r)'
        BY <1>3, <1>5, <1>6, <1>8, <3>1 DEF Parked
    <3>3. \A y \in Contexts : pc'[y] = "unblockState" /\ arg'[y] = r => schedState'[r] = "BLOCKED"
        BY <1>3, <1>5, <2>0, <2>1 DEF StateAt
    <3> QED BY <1>5, <1>6, <1>8, <2>0, <2>1, <3>2, <3>3 DEF StateAt
  <2>2. CASE t # r
      BY <1>5, <1>6, <1>8, <2>0, <2>2, StateFrame
  <2> QED BY <2>1, <2>2
<1>11. QueueInv'
  <2>1. HandInv'
    <3>1. \A d \in Cpus : mode[d] = "pull" => mode'[d] = "pull"
        BY <1>7
    <3>2. HandInv /\ \A d \in Cpus : newThread[d] # r
      <4>1. HandInv
          BY DEF BInv, QueueInv
      <4>2. ASSUME NEW d \in Cpus, newThread[d] = r PROVE FALSE
        <5>1. r # Nobody
            BY DEF ConstantsOK
        <5> QED BY <1>2, <4>1, <4>2, <5>1 DEF HandInv
      <4> QED BY <4>1, <4>2
    <3> QED BY <1>0, <1>3, <1>4, <1>6, <3>1, <3>2, InHand
  <2> QED BY <1>3, <1>4, <1>6, <2>1 DEF BInv, QueueInv, Queued
<1>12. FoundInv' /\ HomeInv' /\ ContextsOwn'
    BY <1>3, <1>4, <1>6 DEF BInv, FoundInv, Queued, HomeInv, ContextsOwn
<1> QED BY <1>9, <1>10, <1>11, <1>12 DEF BInv, StateInv

LEMMA IsrKeeps ==
  ASSUME ConstantsOK, AInv, BInv
  PROVE  /\ \A c \in Cpus : IsrEnter(c) => BInv'
         /\ \A x \in Contexts : IsrReturn(x) => BInv'
<1>0. TypeInv /\ PcType /\ pc \in [Contexts -> ThreadLabels \cup IsrLabels]
    BY DEF AInv, TypeInv, PcType
<1>1. ASSUME NEW c \in Cpus, IsrEnter(c) PROVE BInv'
  <2>1. currentThread[c] \in Threads /\ <<c, "pull">> \in Contexts /\ \A t \in Threads : <<t, "isr">> \in Contexts
      BY <1>0, ContextFacts DEF TypeInv, TypeOK, SchedTypeOK
  <2>2. PICK y \in Contexts : y[2] # "thread" /\ pc[y] = "none" /\ pc' = [pc EXCEPT ![y] = "isr"]
      BY <1>1, <2>1 DEF IsrEnter, Executing, Masked, Goto
  <2>3. OnlyMoves(y) /\ pc'[y] = "isr" /\ NoSwitch
      BY <1>0, <1>1, <2>2 DEF IsrEnter, OnlyMoves
  <2> QED BY <1>0, <2>2, <2>3, LabelStep
<1>2. ASSUME NEW x \in Contexts, IsrReturn(x) PROVE BInv'
  <2>1. /\ x[2] # "thread" /\ pc[x] \in {"isr", "isrDone"} /\ pc' = [pc EXCEPT ![x] = "none"]
        /\ UNCHANGED <<schedState, runQueue, currentThread, newThread, context, arg, lock>>
      BY <1>0, <1>2 DEF IsrReturn, At, Goto, PcType, ThreadLabels, CallLabels
  <2>2. OnlyMoves(x) /\ pc'[x] = "none" /\ \A y \in Contexts : y # x => pc'[y] = pc[y]
      BY <1>0, <2>1 DEF OnlyMoves
  <2>3. /\ \A t \in Threads : <<t, "thread">> \in Contexts /\ x # <<t, "thread">> /\ CpuOf[t] \in Cpus
        /\ Cpu(x) \in Cpus
      BY <2>1, ContextFacts DEF ConstantsOK
  <2>4. \A d \in Cpus : mode'[d] # mode[d] => mode[d] = "halted" /\ mode'[d] = "pull"
      BY <1>0, <1>2, <2>3 DEF IsrReturn, TypeInv, TypeOK, SchedTypeOK
  <2>5. \A t \in Threads : (Unblocking(t)' <=> Unblocking(t)) /\ (Inserting(t)' <=> Inserting(t))
      BY <2>1, <2>2, <2>3, InsertingFrame
  <2>6. \A t \in Threads : SwitchedIn(t)' <=> SwitchedIn(t)
      BY <2>1, <2>3, <2>4 DEF SwitchedIn
  <2>7. LeavingInv'
    <3>1. \A t \in Threads : pc'[<<t, "thread">>] = pc[<<t, "thread">>]
        BY <2>2, <2>3
    <3>2. \A t \in Threads : mode[CpuOf[t]] = "thread" => mode'[CpuOf[t]] = "thread"
        BY <2>3, <2>4
    <3>3. \A y \in Contexts : y[2] # "thread" => pc'[y] \notin {"yield", "yieldInsert", "yieldPull"}
        BY <2>2 DEF BInv, LeavingInv
    <3> QED BY <2>1, <3>1, <3>2, <3>3 DEF BInv, LeavingInv
  <2>8. StateInv'
      BY <2>1, <2>2, <2>3, <2>5, <2>6, StateFrame DEF BInv, StateInv
  <2>9. QueueInv'
    <3>1. HandInv'
      <4>1. HandInv /\ \A d \in Cpus : mode[d] = "pull" => mode'[d] = "pull"
          BY <2>4 DEF BInv, QueueInv
      <4>2. \A d \in Cpus : newThread[d] # Nobody => newThread[d] \in Threads
          BY <1>0 DEF TypeInv, TypeOK, SchedTypeOK
      <4>3. ASSUME NEW d \in Cpus, newThread[d] # Nobody PROVE ~ Inserting(newThread[d])'
        <5>1. ~ Inserting(newThread[d]) /\ newThread' = newThread
            BY <2>1, <4>1, <4>3 DEF HandInv
        <5> QED BY <2>5, <4>2, <4>3, <5>1
      <4> QED BY <2>1, <4>1, <4>3 DEF HandInv
    <3> QED BY <2>1, <2>5, <3>1 DEF BInv, QueueInv, Queued
  <2>10. FoundInv' /\ HomeInv' /\ ContextsOwn'
      BY <2>1, <2>5 DEF BInv, FoundInv, Queued, HomeInv, ContextsOwn
  <2> QED BY <2>7, <2>8, <2>9, <2>10 DEF BInv
<1> QED BY <1>1, <1>2

\* What a step of pull() keeps.
LEMMA PullFrame ==
  ASSUME ConstantsOK, TypeInv, BInv, NEW c \in Cpus, mode[c] # "thread",
         UNCHANGED <<context, pc, arg>>, \A d \in Cpus \ {c} : mode'[d] = mode[d],
         \A t \in Threads : SwitchedIn(t)' => SwitchedIn(t) \/ schedState'[t] = "RUNNING",
         \A d \in Cpus \ {c} : currentThread'[d] = currentThread[d]
  PROVE  /\ LeavingInv' /\ ContextsOwn'
         /\ \A t \in Threads : CpuOf[t] = c => pc[<<t, "thread">>] \notin Leaving
         /\ \A t \in Threads : (Unblocking(t)' <=> Unblocking(t)) /\ (Inserting(t)' <=> Inserting(t))
         /\ \A t \in Threads : schedState'[t] = schedState[t] => StateAt(t)'
<1>0. LeavingInv
    BY DEF BInv
<1>1. ASSUME NEW t \in Threads, CpuOf[t] = c PROVE pc[<<t, "thread">>] \notin Leaving
    BY <1>0, <1>1 DEF LeavingInv
<1>2. LeavingInv'
    BY <1>0, <1>1 DEF LeavingInv, ConstantsOK
<1>3. \A t \in Threads : (Unblocking(t)' <=> Unblocking(t)) /\ (Inserting(t)' <=> Inserting(t))
    BY DEF Unblocking, Inserting
<1>4. ASSUME NEW t \in Threads, schedState'[t] = schedState[t] PROVE StateAt(t)'
  <2>1. StateAt(t)
      BY DEF BInv, StateInv
  <2>2. Unblocking(t)' => Parked(t)'
    <3>1. Unblocking(t) => Parked(t) /\ schedState[t] = "RUNNABLE"
        BY <2>1 DEF StateAt, Inserting
    <3> QED BY <1>3, <1>4, <3>1 DEF Parked
  <2> QED BY <1>3, <1>4, <2>1, <2>2 DEF StateAt
<1> QED BY <1>1, <1>2, <1>3, <1>4 DEF BInv, ContextsOwn

\* pullFromQ() takes a queued thread out of the queue and has it in hand.
LEMMA PullPopKeeps ==
  ASSUME ConstantsOK, TypeInv, BInv, NEW c \in Cpus, mode[c] # "thread",
         NEW P \in SUBSET DOMAIN runQueue[c], PullPop(c, P)
  PROVE  BInv'
<1>0. /\ runQueue \in [Cpus -> Seq(Threads)] /\ runQueue[c] \in Seq(Threads)
      /\ DOMAIN runQueue[c] = 1 .. Len(runQueue[c])
      /\ newThread \in [Cpus -> Threads \cup {Nobody}]
      /\ mode \in [Cpus -> {"thread", "pull", "roundRobin", "idle", "halted", "jump"}]
    BY DEF TypeInv, TypeOK, SchedTypeOK
<1>1. PICK k \in 1 .. Len(runQueue[c]) : First(runQueue[c], P) = runQueue[c][k]
    BY <1>0, FirstFacts DEF PullPop
<1> DEFINE t == runQueue[c][k]
<1>2. t \in Threads /\ t \in Range(runQueue[c])
  <2>1. k \in DOMAIN runQueue[c]
      BY <1>0, <1>1
  <2> QED BY <1>0, <1>1, <2>1 DEF Range
<1>3. /\ newThread' = [newThread EXCEPT ![c] = t] /\ newThread[c] = Nobody
      /\ runQueue' = [runQueue EXCEPT ![c] = RemoveFirst(runQueue[c], t)]
      /\ mode' = [mode EXCEPT ![c] = "pull"]
      /\ UNCHANGED <<schedState, currentThread, context, pc, arg>>
    BY <1>1 DEF PullPop
<1> HIDE DEF t
<1>4. CpuOf[t] = c /\ Queued(t) /\ schedState[t] = "RUNNABLE" /\ ~ Inserting(t)
    BY <1>2 DEF BInv, QueueInv, Queued
<1>5. Distinct(runQueue'[c]) /\ Range(runQueue'[c]) = Range(runQueue[c]) \ {t}
  <2>1. Distinct(runQueue[c])
      BY DEF BInv, QueueInv
  <2>2. runQueue'[c] = RemoveFirst(runQueue[c], t)
      BY <1>0, <1>3
  <2>3. runQueue[c] \in Seq(Threads)
      BY <1>0
  <2>4. /\ Distinct(RemoveFirst(runQueue[c], t))
        /\ Range(RemoveFirst(runQueue[c], t)) = Range(runQueue[c]) \ {t}
      BY <1>2, <2>1, <2>3, RemoveFirstDistinct
  <2> QED BY <2>2, <2>4
<1>6. \A d \in Cpus : d # c => /\ runQueue'[d] = runQueue[d] /\ newThread'[d] = newThread[d]
                               /\ mode'[d] = mode[d]
    BY <1>0, <1>3
<1>7. newThread'[c] = t /\ mode'[c] = "pull"
    BY <1>0, <1>3
<1>8. \A u \in Threads : SwitchedIn(u)' => SwitchedIn(u)
    BY <1>3, <1>6, <1>7 DEF SwitchedIn, ConstantsOK
<1>9. /\ LeavingInv' /\ ContextsOwn' /\ \A u \in Threads : StateAt(u)'
      /\ \A u \in Threads : Inserting(u)' <=> Inserting(u)
    BY <1>3, <1>6, <1>8, PullFrame
<1>10. \A u \in Threads : Queued(u)' <=> Queued(u) /\ u # t
  <2> SUFFICES ASSUME NEW u \in Threads PROVE Queued(u)' <=> Queued(u) /\ u # t
      OBVIOUS
  <2>1. CASE CpuOf[u] = c
      BY <1>5, <2>1 DEF Queued
  <2>2. CASE CpuOf[u] # c
      BY <1>4, <1>6, <2>2 DEF Queued, ConstantsOK
  <2> QED BY <2>1, <2>2
<1>11. QueueInv'
  <2>1. \A d \in Cpus : Distinct(runQueue'[d]) /\ \A u \in Range(runQueue'[d]) : CpuOf[u] = d
      BY <1>5, <1>6 DEF BInv, QueueInv
  <2>2. ASSUME NEW u \in Threads, Queued(u)'
        PROVE  schedState'[u] = "RUNNABLE" /\ newThread'[CpuOf[u]] # u /\ ~ Inserting(u)'
    <3>1. Queued(u) /\ u # t /\ CpuOf[u] \in Cpus
        BY <1>10, <2>2 DEF ConstantsOK
    <3>2. schedState[u] = "RUNNABLE" /\ newThread[CpuOf[u]] # u /\ ~ Inserting(u)
        BY <3>1 DEF BInv, QueueInv
    <3> QED BY <1>3, <1>6, <1>7, <1>9, <3>1, <3>2
  <2>3. HandInv'
    <3> SUFFICES ASSUME NEW d \in Cpus, newThread'[d] # Nobody
                 PROVE  /\ mode'[d] = "pull" /\ CpuOf[newThread'[d]] = d
                        /\ schedState'[newThread'[d]] = "RUNNABLE" /\ ~ Inserting(newThread[d])'
        BY DEF HandInv
    <3>1. PICK u \in Threads : u = newThread'[d]
        BY <1>0, <1>2, <1>6, <1>7
    <3>2. mode'[d] = "pull" /\ CpuOf[u] = d /\ schedState[u] = "RUNNABLE" /\ ~ Inserting(u)
      <4>1. CASE d = c
          BY <1>4, <1>7, <3>1, <4>1
      <4>2. CASE d # c
        <5>1. newThread'[d] = newThread[d] /\ mode'[d] = mode[d] /\ newThread[d] # Nobody
            BY <1>6, <4>2
        <5>2. HandInv
            BY DEF BInv, QueueInv
        <5> QED BY <3>1, <5>1, <5>2 DEF HandInv
      <4> QED BY <4>1, <4>2
    <3>3. ~ Inserting(u)'
        BY <1>9, <3>2
    <3> QED BY <1>3, <3>1, <3>2, <3>3 DEF Inserting, Unblocking
  <2> QED BY <2>1, <2>2, <2>3 DEF QueueInv
<1>12. FoundInv'
  <2> SUFFICES ASSUME NEW u \in Threads, schedState'[u] = "RUNNABLE"
               PROVE  Queued(u)' \/ newThread'[CpuOf[u]] = u \/ Inserting(u)'
      BY DEF FoundInv
  <2>1. CpuOf[u] \in Cpus /\ u # Nobody /\ (Queued(u) \/ newThread[CpuOf[u]] = u \/ Inserting(u))
      BY <1>3 DEF BInv, FoundInv, ConstantsOK
  <2> QED BY <1>3, <1>4, <1>6, <1>7, <1>9, <1>10, <2>1
<1>13. HomeInv'
    BY <1>3 DEF BInv, HomeInv
<1> QED BY <1>9, <1>11, <1>12, <1>13 DEF BInv, StateInv

\* pull() goes on: to the other queue, to hlt or, with the thread it resumes
\* already current, to that thread's context.
LEMMA PullModeKeeps ==
  ASSUME ConstantsOK, TypeInv, BInv, NEW c \in Cpus, mode[c] # "thread", newThread[c] = Nobody,
         NEW m \in {"roundRobin", "idle", "halted", "thread"}, m = "thread" => mode[c] = "jump",
         mode' = [mode EXCEPT ![c] = m],
         UNCHANGED <<schedState, runQueue, currentThread, newThread, context, pc, arg>>
  PROVE  BInv'
<1>0. mode \in [Cpus -> {"thread", "pull", "roundRobin", "idle", "halted", "jump"}]
    BY DEF TypeInv, TypeOK, SchedTypeOK
<1>1. mode'[c] = m /\ \A d \in Cpus : d # c => mode'[d] = mode[d]
    BY <1>0
<1>2. \A u \in Threads : SwitchedIn(u)' => SwitchedIn(u)
    BY <1>1 DEF SwitchedIn, ConstantsOK
<1>3. /\ LeavingInv' /\ ContextsOwn' /\ \A u \in Threads : StateAt(u)'
      /\ \A u \in Threads : Inserting(u)' <=> Inserting(u)
    BY <1>1, <1>2, PullFrame
<1>4. HandInv'
  <2> SUFFICES ASSUME NEW d \in Cpus, newThread'[d] # Nobody
               PROVE  /\ mode'[d] = "pull" /\ CpuOf[newThread'[d]] = d
                      /\ schedState'[newThread'[d]] = "RUNNABLE" /\ ~ Inserting(newThread[d])'
      BY DEF HandInv
  <2>1. d # c
      OBVIOUS
  <2>2. /\ mode[d] = "pull" /\ CpuOf[newThread[d]] = d
        /\ schedState[newThread[d]] = "RUNNABLE" /\ ~ Inserting(newThread[d])
      BY DEF BInv, QueueInv, HandInv
  <2> QED BY <1>1, <2>1, <2>2 DEF Inserting, Unblocking
<1>5. QueueInv'
    BY <1>3, <1>4 DEF BInv, QueueInv, Queued
<1>6. FoundInv' /\ HomeInv'
    BY <1>3 DEF BInv, FoundInv, Queued, HomeInv
<1> QED BY <1>3, <1>5, <1>6 DEF BInv, StateInv

\* pull() makes the thread it has in hand current, and RUNNING.
LEMMA PullCurrentKeeps ==
  ASSUME ConstantsOK, TypeInv, BInv, NEW c \in Cpus, PullCurrent(c)
  PROVE  BInv'
<1>0. /\ schedState \in [Threads -> {"UNSCHEDULED", "RUNNABLE", "RUNNING", "BLOCKED", "DORMANT"}]
      /\ currentThread \in [Cpus -> Threads] /\ newThread \in [Cpus -> Threads \cup {Nobody}]
      /\ mode \in [Cpus -> {"thread", "pull", "roundRobin", "idle", "halted", "jump"}]
    BY DEF TypeInv, TypeOK, SchedTypeOK
<1>1. PICK h \in Threads : newThread[c] = h
    BY <1>0 DEF PullCurrent
<1>2. /\ mode[c] = "pull" /\ schedState' = [schedState EXCEPT ![h] = "RUNNING"]
      /\ currentThread' = [currentThread EXCEPT ![c] = h]
      /\ newThread' = [newThread EXCEPT ![c] = Nobody]
      /\ mode' = [mode EXCEPT ![c] = "jump"]
      /\ UNCHANGED <<runQueue, context, pc, arg>>
    BY <1>1 DEF PullCurrent, InPull
<1>3. CpuOf[h] = c /\ schedState[h] = "RUNNABLE" /\ ~ Inserting(h) /\ ~ Queued(h)
  <2>1. h # Nobody
      BY DEF ConstantsOK
  <2>2. CpuOf[h] = c /\ schedState[h] = "RUNNABLE" /\ ~ Inserting(h)
      BY <1>1, <2>1 DEF BInv, QueueInv, HandInv
  <2> QED BY <1>1, <2>2 DEF BInv, QueueInv
<1>4. /\ schedState'[h] = "RUNNING" /\ \A u \in Threads : u # h => schedState'[u] = schedState[u]
      /\ currentThread'[c] = h /\ newThread'[c] = Nobody /\ mode'[c] = "jump"
      /\ \A d \in Cpus : d # c => /\ currentThread'[d] = currentThread[d]
                                  /\ newThread'[d] = newThread[d] /\ mode'[d] = mode[d]
    BY <1>0, <1>2
<1>5. \A u \in Threads : SwitchedIn(u)' => SwitchedIn(u) \/ schedState'[u] = "RUNNING"
    BY <1>4 DEF SwitchedIn, ConstantsOK
<1>6. /\ LeavingInv' /\ ContextsOwn' /\ \A u \in Threads : u # h => StateAt(u)'
      /\ \A u \in Threads : Inserting(u)' <=> Inserting(u)
      /\ pc[<<h, "thread">>] \notin Leaving
    BY <1>2, <1>3, <1>4, <1>5, PullFrame
<1>7. StateAt(h)'
  <2>1. ~ Inserting(h)' /\ ~ Unblocking(h)'
      BY <1>3, <1>6 DEF Inserting
  <2>2. \A x \in Contexts : ~ (pc[x] = "unblockState" /\ arg[x] = h)
      BY <1>3 DEF BInv, StateInv, StateAt
  <2>3. pc'[<<h, "thread">>] \notin {"blockRemove", "blockUnlock"}
      BY <1>2, <1>6 DEF Leaving
  <2> QED BY <1>2, <1>4, <2>1, <2>2, <2>3 DEF StateAt
<1>8. HandInv'
  <2> SUFFICES ASSUME NEW d \in Cpus, newThread'[d] # Nobody
               PROVE  /\ mode'[d] = "pull" /\ CpuOf[newThread'[d]] = d
                      /\ schedState'[newThread'[d]] = "RUNNABLE" /\ ~ Inserting(newThread[d])'
      BY DEF HandInv
  <2>1. d # c /\ newThread'[d] = newThread[d] /\ mode'[d] = mode[d]
      BY <1>4
  <2>2. PICK u \in Threads : u = newThread[d]
      BY <1>0, <2>1
  <2>3. mode[d] = "pull" /\ CpuOf[u] = d /\ schedState[u] = "RUNNABLE" /\ ~ Inserting(u)
      BY <2>1, <2>2 DEF BInv, QueueInv, HandInv
  <2>4. u # h /\ ~ Inserting(u)'
      BY <1>3, <1>6, <2>1, <2>3
  <2> QED BY <1>4, <2>1, <2>2, <2>3, <2>4 DEF Inserting, Unblocking
<1>9. QueueInv'
  <2>1. ASSUME NEW u \in Threads, Queued(u)'
        PROVE  schedState'[u] = "RUNNABLE" /\ newThread'[CpuOf[u]] # u /\ ~ Inserting(u)'
    <3>1. Queued(u) /\ CpuOf[u] \in Cpus /\ u # Nobody
        BY <1>2, <2>1 DEF Queued, ConstantsOK
    <3>2. u # h /\ schedState[u] = "RUNNABLE" /\ newThread[CpuOf[u]] # u /\ ~ Inserting(u)
        BY <1>3, <3>1 DEF BInv, QueueInv
    <3> QED BY <1>4, <1>6, <3>1, <3>2
  <2> QED BY <1>2, <1>8, <2>1 DEF BInv, QueueInv
<1>10. FoundInv'
  <2> SUFFICES ASSUME NEW u \in Threads, schedState'[u] = "RUNNABLE"
               PROVE  Queued(u)' \/ newThread'[CpuOf[u]] = u \/ Inserting(u)'
      BY DEF FoundInv
  <2>1. u # h /\ schedState[u] = "RUNNABLE" /\ CpuOf[u] \in Cpus
      BY <1>4 DEF ConstantsOK
  <2>2. Queued(u) \/ newThread[CpuOf[u]] = u \/ Inserting(u)
      BY <2>1 DEF BInv, FoundInv
  <2>3. Queued(u) => Queued(u)'
      BY <1>2 DEF Queued
  <2> QED BY <1>1, <1>4, <1>6, <2>1, <2>2, <2>3
<1>11. HomeInv'
  <2> SUFFICES ASSUME NEW d \in Cpus PROVE CpuOf[currentThread'[d]] = d
      BY DEF HomeInv
  <2>1. CASE d = c
      BY <1>3, <1>4, <2>1
  <2>2. CASE d # c
    <3>1. currentThread'[d] = currentThread[d]
        BY <1>4, <2>2
    <3> QED BY <3>1 DEF BInv, HomeInv
  <2> QED BY <2>1, <2>2
<1> QED BY <1>6, <1>7, <1>9, <1>10, <1>11 DEF BInv, StateInv

LEMMA PullKeeps ==
  ASSUME ConstantsOK, TypeInv, BInv, NEW c \in Cpus, Pull(c)
  PROVE  BInv'
<1>1. \A m \in {"roundRobin", "idle", "halted", "jump"} : mode[c] = m => newThread[c] = Nobody
    BY DEF BInv, QueueInv, HandInv
<1>2. ASSUME NEW P, NEW m \in {"roundRobin", "idle"}, PullNone(c, P, m), mode[c] # "thread" PROVE BInv'
    BY <1>2, PullModeKeeps DEF PullNone
<1>3. CASE PullFromQ(c)
  <2>1. RealTimeQ(runQueue[c]) \in SUBSET DOMAIN runQueue[c] /\ RoundRobinQ(runQueue[c]) \in SUBSET DOMAIN runQueue[c]
      BY DEF RealTimeQ, RoundRobinQ
  <2> QED BY <1>2, <1>3, <2>1, PullPopKeeps DEF PullFromQ, InPull
<1>4. CASE Halt(c)
    BY <1>1, <1>4, PullModeKeeps DEF Halt, InPull
<1>5. CASE PullJump(c)
    BY <1>1, <1>5, PullModeKeeps DEF PullJump, InPull
<1>6. CASE PullCurrent(c)
    BY <1>6, PullCurrentKeeps
<1> QED BY <1>3, <1>4, <1>5, <1>6 DEF Pull

\* At first each CPU is on its booting thread, and the other threads that were
\* scheduled are in their run queues.
LEMMA BInit ==
  ASSUME ConstantsOK, Init
  PROVE  BInv
<1> USE DEF Init, SchedInit
<1>1. ASSUME NEW c \in Cpus
      PROVE  Distinct(runQueue[c]) /\ Range(runQueue[c]) = Scheduled(c)
    BY <1>1, OrdersFacts
<1>2. \A x \in Contexts : pc[x] \in {"idle", "none"}
    OBVIOUS
<1>3. \A t \in Threads : ~ Inserting(t) /\ ~ Unblocking(t) /\ pc[<<t, "thread">>] \notin Leaving
    BY <1>2, ContextFacts DEF Inserting, Unblocking, Leaving
<1>4. LeavingInv
    BY <1>2, <1>3 DEF LeavingInv
<1>5. StateInv
  <2> SUFFICES ASSUME NEW t \in Threads PROVE StateAt(t)
      BY DEF StateInv
  <2>1. SwitchedIn(t) => schedState[t] = "RUNNING"
      BY DEF SwitchedIn, ConstantsOK
  <2> QED BY <1>2, <1>3, <2>1 DEF StateAt, Leaving
<1>6. HandInv
    BY DEF HandInv
<1>7. \A t \in Threads : Queued(t) <=> schedState[t] = "RUNNABLE"
    BY <1>1 DEF Queued, Scheduled, ConstantsOK
<1>8. QueueInv
  <2>1. \A t \in Threads : newThread[CpuOf[t]] # t
      BY DEF ConstantsOK
  <2>2. \A c \in Cpus : Distinct(runQueue[c]) /\ \A t \in Range(runQueue[c]) : CpuOf[t] = c
    <3> TAKE c \in Cpus
    <3>1. Distinct(runQueue[c])
        BY <1>1
    <3>2. \A t \in Range(runQueue[c]) : CpuOf[t] = c
        BY <1>1 DEF Scheduled
    <3> QED BY <3>1, <3>2
  <2>3. \A t \in Threads : Queued(t) =>
          schedState[t] = "RUNNABLE" /\ newThread[CpuOf[t]] # t /\ ~ Inserting(t)
      BY <1>3, <1>7, <2>1
  <2> HIDE DEF Init, SchedInit
  <2> QED BY <1>6, <2>2, <2>3 DEF QueueInv
<1>9. FoundInv /\ HomeInv /\ ContextsOwn
    BY <1>7 DEF FoundInv, HomeInv, ContextsOwn, ConstantsOK
<1> QED BY <1>4, <1>5, <1>8, <1>9 DEF BInv

LEMMA BStep ==
  ASSUME ConstantsOK, NoPreemption, AInv, BInv, [Next]_vars
  PROVE  BInv'
<1>0. TypeInv
    BY DEF AInv
<1>1. ASSUME NEW x \in Contexts, SchedStep(x) PROVE BInv'
    BY <1>1, LabelSteps, BlockRemoveKeeps, SwitchOutKeeps, UnblockStateKeeps, InsertKeeps,
       YieldStateKeeps, YieldInsertKeeps, IsrKeeps DEF SchedStep
<1>2. ASSUME NEW x \in Contexts,
             \/ \E r \in Receivers : EnqueueCall(x, r)
             \/ \E S \in {Subsystems} \cup {{s} : s \in Subsystems} : PullCall(x, S)
             \/ YieldCall(x)
             \/ ReceiveWouldBlock(x)
             \/ \E s \in Subsystems : Enqueue(x, s)
             \/ EnqueueNoMem(x) \/ Unlock(x) \/ Receive(x) \/ ReceiveBlocks(x)
      PROVE  BInv'
    BY <1>2, LabelSteps, ReceiveBlocksKeeps
<1>3. ASSUME NEW c \in Cpus, Pull(c) \/ IsrEnter(c) PROVE BInv'
    BY <1>0, <1>3, PullKeeps, IsrKeeps
<1>4. CASE UNCHANGED vars
  <2>1. LeavingInv' /\ HomeInv' /\ ContextsOwn'
      BY <1>4 DEF vars, BInv, LeavingInv, HomeInv, ContextsOwn
  <2>2. \A t \in Threads : (Inserting(t)' <=> Inserting(t)) /\ (Queued(t)' <=> Queued(t))
      BY <1>4 DEF vars, Inserting, Unblocking, Queued
  <2>3. ASSUME NEW t \in Threads PROVE StateAt(t)'
    <3>1. StateAt(t)
        BY DEF BInv, StateInv
    <3>2. (SwitchedIn(t)' <=> SwitchedIn(t)) /\ (Parked(t)' <=> Parked(t))
        BY <1>4 DEF vars, SwitchedIn, Parked
    <3>3. (Inserting(t)' <=> Inserting(t)) /\ (Unblocking(t)' <=> Unblocking(t))
        BY <1>4 DEF vars, Inserting, Unblocking
    <3> QED BY <1>4, <3>1, <3>2, <3>3 DEF vars, StateAt
  <2>4. QueueInv'
    <3>1. HandInv'
      <4>1. HandInv /\ UNCHANGED <<newThread, mode, schedState, pc, arg>>
          BY <1>4 DEF vars, BInv, QueueInv
      <4> QED BY <4>1 DEF HandInv, Inserting, Unblocking
    <3> QED BY <1>4, <2>2, <3>1 DEF vars, BInv, QueueInv
  <2>5. FoundInv'
      BY <1>4, <2>2 DEF vars, BInv, FoundInv
  <2> QED BY <2>1, <2>3, <2>4, <2>5 DEF BInv, StateInv
<1>5. IsrCpus \subseteq Cpus
    BY DEF ConstantsOK
<1>6. CASE Next
    BY <1>1, <1>2, <1>3, <1>5, <1>6 DEF Next, Step
<1> QED BY <1>4, <1>6

\* What the invariant says of runnable threads and of run queues.
LEMMA BInvShows ==
  ASSUME ConstantsOK, TypeInv, BInv
  PROVE  NoThreadLost /\ NotQueuedTwice /\ ContextsOwn
<1>1. ASSUME NEW t \in Threads, Inserting(t) PROVE BeingInserted(t)
  <2>1. CASE Unblocking(t)
      BY <2>1 DEF Unblocking, BeingInserted
  <2>2. CASE pc[<<t, "thread">>] = "yieldInsert"
    <3>1. <<t, "thread">> \in Contexts /\ Cpu(<<t, "thread">>) = CpuOf[t]
        BY ContextFacts DEF Cpu
    <3>2. currentThread[CpuOf[t]] = t
        BY <2>2 DEF BInv, LeavingInv, Leaving
    <3> QED BY <2>2, <3>1, <3>2 DEF BeingInserted
  <2> QED BY <1>1, <2>1, <2>2 DEF Inserting
<1>2. NoThreadLost
    BY <1>1 DEF BInv, FoundInv, Queued, NoThreadLost
<1>3. NotQueuedTwice
  <2> SUFFICES ASSUME NEW t \in Threads, NEW q \in Seq(Threads), q = runQueue[CpuOf[t]],
                      NEW m \in DOMAIN q, NEW n \in DOMAIN q, q[m] = t
               PROVE  newThread[CpuOf[t]] # t /\ schedState[t] # "RUNNING" /\ (q[n] = t => m = n)
    <3>1. \A t \in Threads : runQueue[CpuOf[t]] \in Seq(Threads)
        BY DEF TypeInv, TypeOK, SchedTypeOK, ConstantsOK
    <3> QED BY <3>1 DEF NotQueuedTwice
  <2>1. Queued(t) /\ CpuOf[t] \in Cpus
      BY DEF Queued, Range, ConstantsOK
  <2>2. Distinct(q) /\ DOMAIN q = 1 .. Len(q)
      BY <2>1 DEF BInv, QueueInv
  <2>3. newThread[CpuOf[t]] # t /\ schedState[t] = "RUNNABLE"
      BY <2>1 DEF BInv, QueueInv
  <2> QED BY <2>2, <2>3 DEF Distinct
<1> QED BY <1>2, <1>3 DEF BInv

\* block(), unblock(), yield() and pull(), for any number of CPUs, threads and
\* senders, when no receiver preempts: a RUNNABLE thread is in its run queue, in
\* the hand of pull() or about to be inserted; it is queued once, and not while
\* it runs or pull() has it; and it is resumed from its own stack.
THEOREM RunQueuesSound ==
  ASSUME ConstantsOK, NoPreemption
  PROVE  Spec => [](NoThreadLost /\ NotQueuedTwice /\ ContextsOwn)
<1>1. Init => AInv /\ BInv
    BY InitInv, BInit
<1>2. AInv /\ BInv /\ [Next]_vars => (AInv /\ BInv)'
    BY StepInv, BStep
<1>3. AInv /\ BInv => NoThreadLost /\ NotQueuedTwice /\ ContextsOwn
    BY BInvShows DEF AInv
<1> QED BY <1>1, <1>2, <1>3, PTL DEF Spec
=============================================================================
