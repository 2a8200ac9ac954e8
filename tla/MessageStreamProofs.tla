------------------------- MODULE MessageStreamProofs -------------------------
(***************************************************************************)
(* Machine-checked proofs about MessageStream on top of Scheduler, for any *)
(* number of CPUs, threads, streams, subsystems and messages.              *)
(***************************************************************************)
EXTENDS MessageStream, WellFoundedInduction, TLAPS

\* Each CPU boots on a thread of its own; a stream belongs to a thread, and its
\* lock is one of the locks; priorities and subsystem ids are numbers; a CPU has
\* finitely many threads to begin with.
ConstantsOK ==
  /\ \A c \in Cpus : Cardinality(Scheduled(c)) \in Nat
  /\ Nobody \notin Threads \cup Contexts
  /\ CpuOf \in [Threads -> Cpus] /\ Booting \in [Cpus -> Threads \ Unscheduled]
  /\ \A c \in Cpus : CpuOf[Booting[c]] = c
  /\ Receivers \subseteq Threads /\ Receivers \subseteq Queues /\ IsrCpus \subseteq Cpus
  /\ Subsystems \subseteq Nat /\ Prio \in [Threads -> Nat]

-----------------------------------------------------------------------------
(* Control: where a context can be, and what it has there *)

CallLabels == {"enqueue", "unblock", "unblockState", "insert", "preempt", "unlock",
               "yield", "yieldInsert", "yieldPull"}
ThreadLabels == CallLabels \cup {"idle", "recv", "blockRemove", "blockUnlock", "blockPull"}
IsrLabels == CallLabels \cup {"none", "isr", "isrDone"}

PcType ==
  /\ pc \in [Contexts -> ThreadLabels \cup IsrLabels]
  /\ \A x \in Contexts : pc[x] \in IF x[2] = "thread" THEN ThreadLabels ELSE IsrLabels

TypeInv == TypeOK /\ PcType

\* enqueue() and unblock() have a receiver at hand, and its lock from the
\* insertion of the message on; a receiver blocks under its own lock.
CallAt(x) ==
  /\ pc[x] \in {"enqueue", "unblock", "unblockState", "insert", "preempt"} => arg[x] \in Receivers
  /\ pc[x] \in {"unblock", "unblockState", "insert", "preempt"} => lock[arg[x]] = x
  /\ pc[x] \in {"recv", "blockRemove", "blockUnlock", "blockPull"} => x[1] \in Receivers
  /\ pc[x] \in {"blockRemove", "blockUnlock"} => lock[x[1]] = x

CallInv == \A x \in Contexts : CallAt(x)

-----------------------------------------------------------------------------
(* Wakeups *)

SwitchedIn(t) == mode[CpuOf[t]] \in {"thread", "jump"} /\ currentThread[CpuOf[t]] = t

\* A receiver that is about to be switched out, or is.
Parked(t) ==
  \/ pc[<<t, "thread">>] = "blockPull"
  \/ pc[<<t, "thread">>] = "recv" /\ ~SwitchedIn(t)

\* Only a receiver inside block() is BLOCKED.
BlockedAt(r) ==
  schedState[r] = "BLOCKED" => pc[<<r, "thread">>] \in {"blockRemove", "blockUnlock"} \/ Parked(r)

BlockedInv == \A r \in Receivers : BlockedAt(r)

\* The bitmap is exact also while its lock is held.
PendingInv ==
  \A r \in Receivers : pendingSubsystems[r] = {s \in Subsystems : queues[r][s] # 0}

\* The sender that put a message in r's queue is about to unblock r.
AboutToUnblock(r) ==
  \E x \in Contexts : lock[r] = x /\ arg[x] = r /\ pc[x] \in {"unblock", "unblockState"}

WakeupInv ==
  \A r \in Receivers : schedState[r] = "BLOCKED" =>
    want[r] \cap pendingSubsystems[r] = {} \/ AboutToUnblock(r)

AInv == TypeInv /\ CallInv /\ BlockedInv /\ PendingInv /\ WakeupInv

-----------------------------------------------------------------------------
(* Numbers, sequences and sets *)

Distinct(q) == \A i, j \in 1 .. Len(q) : q[i] = q[j] => i = j

\* A set of naturals has a least element.
LEMMA LeastNat ==
  ASSUME NEW T, T \subseteq Nat, T # {}
  PROVE  \E x \in T : \A y \in T : x <= y
<1>1. PICK x \in T : \A y \in T : ~ (<<y, x>> \in OpToRel(<, Nat))
    BY NatLessThanWellFounded, WFMin
<1>2. ASSUME NEW y \in T PROVE x <= y
  <2>1. <<y, x>> \in Nat \X Nat /\ x \in Nat /\ y \in Nat
      OBVIOUS
  <2>2. ~(y < x)
      BY <1>1, <2>1 DEF OpToRel
  <2> QED BY <2>1, <2>2
<1> QED BY <1>2

\* Min yields it.
LEMMA MinFacts ==
  ASSUME NEW T, T \subseteq Nat, T # {}
  PROVE  Min(T) \in T /\ \A y \in T : Min(T) <= y
BY LeastNat DEF Min

\* A sequence without its element at k.
LEMMA RemoveAtFacts ==
  ASSUME NEW S, NEW q \in Seq(S), NEW k \in 1 .. Len(q)
  PROVE  /\ RemoveAt(q, k) \in Seq(S)
         /\ Len(RemoveAt(q, k)) = Len(q) - 1
         /\ \A i \in 1 .. Len(q) - 1 : RemoveAt(q, k)[i] = IF i < k THEN q[i] ELSE q[i + 1]
<1>1. Len(q) - 1 \in Nat
    OBVIOUS
<1>2. \A i \in 1 .. Len(q) - 1 : (IF i < k THEN q[i] ELSE q[i + 1]) \in S
    OBVIOUS
<1> QED BY <1>1, <1>2 DEF RemoveAt

\* RemoveFirst() removes one of the elements that equal e.
LEMMA RemoveFirstIs ==
  ASSUME NEW S, NEW q \in Seq(S), NEW e, e \in Range(q)
  PROVE  \E k \in 1 .. Len(q) : q[k] = e /\ RemoveFirst(q, e) = RemoveAt(q, k)
<1> DEFINE I == {i \in DOMAIN q : q[i] = e}
<1>1. I \subseteq Nat /\ I # {} /\ I \subseteq 1 .. Len(q)
    BY DEF Range
<1>2. Min(I) \in I
    BY <1>1, MinFacts
<1> QED BY <1>1, <1>2 DEF RemoveFirst

LEMMA RemoveFirstNone ==
  ASSUME NEW S, NEW q \in Seq(S), NEW e, e \notin Range(q)
  PROVE  RemoveFirst(q, e) = q
<1>1. {i \in DOMAIN q : q[i] = e} = {}
    BY DEF Range
<1> QED BY <1>1 DEF RemoveFirst

LEMMA RemoveFirstType ==
  ASSUME NEW S, NEW q \in Seq(S), NEW e
  PROVE  RemoveFirst(q, e) \in Seq(S)
<1>1. CASE e \in Range(q)
    BY <1>1, RemoveFirstIs, RemoveAtFacts
<1>2. CASE e \notin Range(q)
    BY <1>2, RemoveFirstNone
<1> QED BY <1>1, <1>2

LEMMA RemoveFirstDistinct ==
  ASSUME NEW S, NEW q \in Seq(S), NEW e, e \in Range(q), Distinct(q)
  PROVE  Distinct(RemoveFirst(q, e)) /\ Range(RemoveFirst(q, e)) = Range(q) \ {e}
<1>1. PICK k \in 1 .. Len(q) : q[k] = e /\ RemoveFirst(q, e) = RemoveAt(q, k)
    BY RemoveFirstIs
<1> DEFINE p == RemoveAt(q, k)
<1>2. /\ p \in Seq(S) /\ Len(p) = Len(q) - 1 /\ Len(q) \in Nat
      /\ \A i \in 1 .. Len(q) - 1 : p[i] = IF i < k THEN q[i] ELSE q[i + 1]
    BY RemoveAtFacts
<1> HIDE DEF p
<1>3. Distinct(p)
    BY <1>2 DEF Distinct
<1>4. ASSUME NEW v \in Range(p) PROVE v \in Range(q) \ {e}
  <2>1. PICK i \in 1 .. Len(p) : p[i] = v
      BY DEF Range
  <2>2. PICK j \in 1 .. Len(q) : q[j] = v /\ j # k
      BY <1>2, <2>1
  <2> QED BY <1>1, <2>2 DEF Range, Distinct
<1>5. ASSUME NEW v \in Range(q) \ {e} PROVE v \in Range(p)
  <2>1. PICK j \in 1 .. Len(q) : q[j] = v /\ j # k
      BY <1>1 DEF Range
  <2>2. PICK i \in 1 .. Len(p) : p[i] = v
    <3>1. CASE j < k
        BY <1>2, <2>1, <3>1
    <3>2. CASE k < j
      <4>1. j - 1 \in 1 .. Len(p) /\ ~ (j - 1 < k) /\ (j - 1) + 1 = j
          BY <1>2, <2>1, <3>2
      <4>2. p[j - 1] = q[j]
          BY <1>2, <4>1
      <4> QED BY <2>1, <4>1, <4>2
    <3> QED BY <2>1, <3>1, <3>2
  <2> QED BY <2>2 DEF Range
<1> QED BY <1>1, <1>3, <1>4, <1>5 DEF p

LEMMA AppendDistinct ==
  ASSUME NEW S, NEW q \in Seq(S), NEW e \in S, e \notin Range(q), Distinct(q)
  PROVE  Distinct(Append(q, e)) /\ Range(Append(q, e)) = Range(q) \cup {e}
<1>1. /\ Len(Append(q, e)) = Len(q) + 1 /\ Len(q) \in Nat /\ Append(q, e)[Len(q) + 1] = e
      /\ \A i \in 1 .. Len(q) : Append(q, e)[i] = q[i]
      /\ DOMAIN Append(q, e) = 1 .. Len(q) + 1
    OBVIOUS
<1>2. Distinct(Append(q, e))
    BY <1>1 DEF Distinct, Range
<1>3. Range(Append(q, e)) = Range(q) \cup {e}
    BY <1>1 DEF Range
<1> QED BY <1>2, <1>3

\* The order in which the threads of a CPU were scheduled.
LEMMA OrdersFacts ==
  ASSUME ConstantsOK, NEW c \in Cpus, NEW q \in Orders(c)
  PROVE  q \in Seq(Threads) /\ Range(q) = Scheduled(c) /\ Distinct(q)
<1> DEFINE n == Cardinality(Scheduled(c))
<1>1. n \in Nat /\ Scheduled(c) \subseteq Threads
    BY DEF ConstantsOK, Scheduled
<1>2. /\ q \in [1 .. n -> Scheduled(c)] /\ IsInjective(q)
      /\ \A t \in Scheduled(c) : \E i \in 1 .. n : q[i] = t
    BY DEF Orders, Bijection, Injection, Surjection
<1> HIDE DEF n
<1>3. q \in Seq(Threads) /\ Len(q) = n
    BY <1>1, <1>2
<1>4. Range(q) = Scheduled(c)
    BY <1>2 DEF Range
<1> QED BY <1>2, <1>3, <1>4 DEF Distinct, IsInjective

\* pullFromQ() pops one of the threads of the queue it is at.
LEMMA FirstFacts ==
  ASSUME ConstantsOK, NEW s \in Seq(Threads), NEW P \in SUBSET (1 .. Len(s)), P # {}
  PROVE  \E k \in P : First(s, P) = s[k]
<1> DEFINE T == {Prio[s[n]] : n \in P}
<1>1. \A n \in P : n \in Nat /\ Prio[s[n]] \in Nat
  <2> TAKE n \in P
  <2>1. n \in 1 .. Len(s) /\ n \in Nat /\ s[n] \in Threads
      OBVIOUS
  <2> QED BY <2>1 DEF ConstantsOK
<1>2. T \subseteq Nat /\ T # {}
    BY <1>1
<1>3. PICK a \in P : \A n \in P : Prio[s[a]] <= Prio[s[n]]
  <2> HIDE DEF T
  <2>1. PICK v \in T : \A w \in T : v <= w
      BY <1>2, LeastNat
  <2> QED BY <2>1 DEF T
<1> DEFINE U == {n \in P : Prio[s[n]] = Prio[s[a]]}
<1>4. U \subseteq Nat /\ U # {}
    BY <1>1
<1>5. PICK b \in U : \A n \in U : b <= n
    BY <1>4, LeastNat
<1>6. \A m \in P : Prio[s[b]] < Prio[s[m]] \/ (Prio[s[b]] = Prio[s[m]] /\ b <= m)
    BY <1>1, <1>3, <1>5
<1> QED BY <1>5, <1>6 DEF First

-----------------------------------------------------------------------------
(* Contexts *)

LEMMA ContextFacts ==
  ASSUME ConstantsOK
  PROVE  /\ \A t \in Threads : <<t, "thread">> \in Contexts /\ <<t, "isr">> \in Contexts
         /\ \A c \in Cpus : <<c, "pull">> \in Contexts
         /\ \A x \in Contexts :
              /\ x = <<x[1], x[2]>> /\ x # Nobody /\ Cpu(x) \in Cpus
              /\ \/ x[2] = "thread" /\ x[1] \in Threads /\ Cpu(x) = CpuOf[x[1]]
                 \/ x[2] = "isr" /\ x[1] \in Threads /\ Cpu(x) = CpuOf[x[1]]
                 \/ x[2] = "pull" /\ x[1] \in Cpus /\ Cpu(x) = x[1]
BY DEF ConstantsOK, Contexts, ThreadContexts, Cpu

\* What a CPU that executes x is at.
LEMMA ExecutingFacts ==
  ASSUME ConstantsOK, TypeInv, NEW x \in Contexts, Executing(Cpu(x)) = x
  PROVE  /\ x[2] = "pull" => mode[x[1]] # "thread"
         /\ x[2] # "pull" => /\ mode[CpuOf[x[1]]] = "thread"
                             /\ currentThread[CpuOf[x[1]]] = x[1]
         /\ x[2] = "thread" => pc[<<x[1], "isr">>] = "none"
         /\ x[2] = "isr" => pc[x] # "none"
<1>1. /\ x = <<x[1], x[2]>> /\ Cpu(x) \in Cpus
      /\ \/ x[2] = "thread" /\ x[1] \in Threads /\ Cpu(x) = CpuOf[x[1]]
         \/ x[2] = "isr" /\ x[1] \in Threads /\ Cpu(x) = CpuOf[x[1]]
         \/ x[2] = "pull" /\ x[1] \in Cpus /\ Cpu(x) = x[1]
    BY ContextFacts
<1> DEFINE c == Cpu(x)
<1>2. CASE mode[c] # "thread"
    BY <1>1, <1>2 DEF Executing
<1>3. CASE mode[c] = "thread" /\ pc[<<currentThread[c], "isr">>] = "none"
    BY <1>1, <1>3 DEF Executing
<1>4. CASE mode[c] = "thread" /\ pc[<<currentThread[c], "isr">>] # "none"
    BY <1>1, <1>4 DEF Executing
<1> QED BY <1>2, <1>3, <1>4

\* Where calls return to.
LEMMA ReturnFacts ==
  ASSUME NEW x
  PROVE  /\ Return(x) \in {"unlock", "idle", "isrDone"}
         /\ x[2] = "thread" => Return(x) \in {"unlock", "idle"}
         /\ x[2] # "thread" => Return(x) \in {"unlock", "isrDone"}
BY DEF Return

-----------------------------------------------------------------------------
(* Types *)

LEMMA InitInv ==
  ASSUME ConstantsOK, Init
  PROVE  AInv
<1> USE DEF ConstantsOK, Init, SchedInit
<1>1. runQueue \in [Cpus -> Seq(Threads)]
    BY OrdersFacts
<1>2. TypeInv
  <2>1. SchedTypeOK
      BY <1>1 DEF SchedTypeOK
  <2>2. pc \in [Contexts -> ThreadLabels \cup IsrLabels]
      BY DEF ThreadLabels, IsrLabels, CallLabels
  <2>3. \A x \in Contexts : pc[x] \in IF x[2] = "thread" THEN ThreadLabels ELSE IsrLabels
      BY DEF ThreadLabels, IsrLabels, CallLabels
  <2> QED BY <2>1, <2>2, <2>3 DEF TypeInv, TypeOK, PcType
<1>3. CallInv
    BY DEF CallInv, CallAt
<1>4. BlockedInv /\ PendingInv /\ WakeupInv
    BY DEF BlockedInv, BlockedAt, PendingInv, WakeupInv
<1> QED BY <1>2, <1>3, <1>4 DEF AInv

\* A context moves from one of its labels to another.
LEMMA GotoType ==
  ASSUME ConstantsOK, TypeInv, NEW x \in Contexts, NEW l, Goto(x, l),
         l \in IF x[2] = "thread" THEN ThreadLabels ELSE IsrLabels
  PROVE  PcType' /\ \A y \in Contexts : pc'[y] = IF y = x THEN l ELSE pc[y]
BY DEF TypeInv, PcType, Goto

\* A run queue after an insertion, and after a removal.
LEMMA QueueTypes ==
  ASSUME ConstantsOK, TypeInv, NEW t \in Threads
  PROVE  /\ InsertIn(t) => runQueue' \in [Cpus -> Seq(Threads)]
         /\ RemoveFrom(t) => runQueue' \in [Cpus -> Seq(Threads)]
<1> DEFINE c == CpuOf[t]
           q == runQueue[c]
<1>1. c \in Cpus /\ q \in Seq(Threads) /\ runQueue \in [Cpus -> Seq(Threads)]
    BY DEF ConstantsOK, TypeInv, TypeOK, SchedTypeOK
<1>2. Append(q, t) \in Seq(Threads) /\ RemoveFirst(q, t) \in Seq(Threads)
    BY <1>1, RemoveFirstType
<1> QED BY <1>1, <1>2 DEF InsertIn, RemoveFrom

LEMMA PullTypes ==
  ASSUME ConstantsOK, TypeInv, NEW c \in Cpus, Pull(c)
  PROVE  SchedTypeOK' /\ UNCHANGED <<pc, arg, lock>>
<1> USE DEF TypeInv, TypeOK, SchedTypeOK
<1>1. ASSUME NEW P \in SUBSET DOMAIN runQueue[c], PullPop(c, P)
      PROVE  SchedTypeOK' /\ UNCHANGED <<pc, arg, lock>>
  <2>1. runQueue[c] \in Seq(Threads) /\ DOMAIN runQueue[c] = 1 .. Len(runQueue[c])
      OBVIOUS
  <2>2. PICK k \in 1 .. Len(runQueue[c]) : First(runQueue[c], P) = runQueue[c][k]
      BY <1>1, <2>1, FirstFacts DEF PullPop
  <2>3. First(runQueue[c], P) \in Threads
      BY <2>1, <2>2
  <2>4. RemoveFirst(runQueue[c], First(runQueue[c], P)) \in Seq(Threads)
      BY <2>1, <2>3, RemoveFirstType
  <2> QED BY <1>1, <2>3, <2>4 DEF PullPop
<1>2. ASSUME NEW P, NEW m \in {"roundRobin", "idle"}, PullNone(c, P, m)
      PROVE  SchedTypeOK' /\ UNCHANGED <<pc, arg, lock>>
    BY <1>2 DEF PullNone
<1>3. CASE PullFromQ(c)
    BY <1>1, <1>2, <1>3 DEF PullFromQ, RealTimeQ, RoundRobinQ
<1>4. CASE Halt(c)
    BY <1>4 DEF Halt
<1>5. CASE PullCurrent(c)
    BY <1>5 DEF PullCurrent
<1>6. CASE PullJump(c)
    BY <1>6 DEF PullJump
<1> QED BY <1>3, <1>4, <1>5, <1>6 DEF Pull

LEMMA TypeStep ==
  ASSUME ConstantsOK, AInv, Next
  PROVE  TypeInv'
<1> USE ContextFacts
<1>0. TypeInv /\ PcType /\ CallInv /\ PendingInv
    BY DEF AInv, TypeInv
<1>1. ASSUME NEW x \in Contexts, SchedStep(x), UNCHANGED streamVars
      PROVE  TypeInv'
  <2> SUFFICES SchedTypeOK' /\ PcType'
      BY <1>0, <1>1 DEF TypeInv, TypeOK, streamVars
  <2> USE <1>0 DEF At, NoSwitch, Done
  <2>1. CASE BlockRemove(x)
    <3>1. x[1] \in Threads /\ PcType'
        BY <2>1, GotoType DEF BlockRemove, ThreadLabels, IsrLabels, CallLabels, PcType
    <3> QED BY <2>1, <3>1, QueueTypes DEF BlockRemove, TypeInv, TypeOK, SchedTypeOK
  <2>2. CASE BlockUnlock(x)
    <3>1. x[1] \in Threads /\ PcType'
        BY <2>2, GotoType DEF BlockUnlock, ThreadLabels, IsrLabels, CallLabels, PcType
    <3> QED BY <2>2, <3>1 DEF BlockUnlock, TypeInv, TypeOK, SchedTypeOK
  <2>3. CASE BlockPull(x)
    <3>1. PcType'
        BY <2>3, GotoType DEF BlockPull, SaveContextAndCallPull, ThreadLabels, IsrLabels, CallLabels, PcType
    <3> QED BY <2>3, <3>1 DEF BlockPull, SaveContextAndCallPull, TypeInv, TypeOK, SchedTypeOK
  <2>4. CASE Unblock(x)
    <3>1. PcType'
        BY <2>4, GotoType, ReturnFacts DEF Unblock, ThreadLabels, IsrLabels, CallLabels
    <3> QED BY <2>4, <3>1 DEF Unblock, TypeInv, TypeOK, SchedTypeOK
  <2>5. CASE UnblockState(x)
    <3>1. PcType'
        BY <2>5, GotoType DEF UnblockState, ThreadLabels, IsrLabels, CallLabels
    <3> QED BY <2>5, <3>1 DEF UnblockState, TypeInv, TypeOK, SchedTypeOK
  <2>6. CASE Insert(x)
    <3>1. PcType'
        BY <2>6, GotoType DEF Insert, ThreadLabels, IsrLabels, CallLabels
    <3>2. arg[x] \in Threads
        BY <2>6 DEF Insert, CallInv, CallAt, ConstantsOK
    <3> QED BY <2>6, <3>1, <3>2, QueueTypes DEF Insert, TypeInv, TypeOK, SchedTypeOK
  <2>7. CASE Preempt(x)
    <3>1. PcType'
        BY <2>7, GotoType, ReturnFacts DEF Preempt, ThreadLabels, IsrLabels, CallLabels
    <3> QED BY <2>7, <3>1 DEF Preempt, TypeInv, TypeOK, SchedTypeOK
  <2>8. CASE YieldState(x)
    <3>1. PcType'
        BY <2>8, GotoType DEF YieldState, ThreadLabels, IsrLabels, CallLabels
    <3> QED BY <2>8, <3>1 DEF YieldState, TypeInv, TypeOK, SchedTypeOK
  <2>9. CASE YieldInsert(x)
    <3>1. PcType'
        BY <2>9, GotoType DEF YieldInsert, ThreadLabels, IsrLabels, CallLabels
    <3>2. currentThread[Cpu(x)] \in Threads
        BY DEF TypeInv, TypeOK, SchedTypeOK
    <3> QED BY <2>9, <3>1, <3>2, QueueTypes DEF YieldInsert, TypeInv, TypeOK, SchedTypeOK
  <2>10. CASE YieldPull(x)
    <3>1. PcType'
        BY <2>10, GotoType, ReturnFacts DEF YieldPull, SaveContextAndCallPull, ThreadLabels, IsrLabels, CallLabels
    <3> QED BY <2>10, <3>1 DEF YieldPull, SaveContextAndCallPull, TypeInv, TypeOK, SchedTypeOK
  <2>11. CASE IsrReturn(x)
    <3>1. PcType'
        BY <2>11, GotoType DEF IsrReturn, PcType, ThreadLabels, IsrLabels, CallLabels
    <3> QED BY <2>11, <3>1 DEF IsrReturn, TypeInv, TypeOK, SchedTypeOK
  <2> QED BY <1>1, <2>1, <2>2, <2>3, <2>4, <2>5, <2>6, <2>7, <2>8, <2>9, <2>10, <2>11 DEF SchedStep
<1>2. ASSUME NEW c \in Cpus, Pull(c), UNCHANGED streamVars
      PROVE  TypeInv'
    BY <1>0, <1>2, PullTypes DEF TypeInv, TypeOK, PcType, streamVars
<1>3. ASSUME NEW c \in IsrCpus, IsrEnter(c), UNCHANGED streamVars
      PROVE  TypeInv'
  <2>1. c \in Cpus /\ currentThread[c] \in Threads
      BY <1>0 DEF ConstantsOK, TypeInv, TypeOK, SchedTypeOK
  <2>2. PICK y \in Contexts : y[2] # "thread" /\ Goto(y, "isr")
      BY <1>3, <2>1 DEF IsrEnter, Executing
  <2>3. PcType'
      BY <1>0, <2>2, GotoType DEF ThreadLabels, IsrLabels
  <2> QED BY <1>0, <1>3, <2>3 DEF IsrEnter, NoSwitch, TypeInv, TypeOK, SchedTypeOK, streamVars
<1>4. ASSUME NEW x \in Contexts, NEW r \in Receivers, EnqueueCall(x, r)
      PROVE  TypeInv'
  <2>1. PcType'
      BY <1>0, <1>4, GotoType DEF EnqueueCall, ThreadLabels, IsrLabels, CallLabels
  <2>2. r \in Threads
      BY DEF ConstantsOK
  <2> QED BY <1>0, <1>4, <2>1, <2>2 DEF EnqueueCall, NoSwitch, TypeInv, TypeOK, SchedTypeOK, streamVars
<1>5. ASSUME NEW x \in Contexts, NEW S \in {Subsystems} \cup {{s} : s \in Subsystems}, PullCall(x, S)
      PROVE  TypeInv'
  <2>1. PcType'
      BY <1>0, <1>5, GotoType DEF PullCall, ThreadLabels, IsrLabels
  <2>2. S \in SUBSET Subsystems
      OBVIOUS
  <2> QED BY <1>0, <1>5, <2>1, <2>2 DEF PullCall, NoSwitch, TypeInv, TypeOK, SchedTypeOK
<1>6. ASSUME NEW x \in Contexts, YieldCall(x), UNCHANGED streamVars
      PROVE  TypeInv'
  <2>1. PcType'
      BY <1>0, <1>6, GotoType DEF YieldCall, ThreadLabels, CallLabels
  <2> QED BY <1>0, <1>6, <2>1 DEF YieldCall, NoSwitch, TypeInv, TypeOK, SchedTypeOK, streamVars
<1>7. ASSUME NEW x \in Contexts, ReceiveWouldBlock(x)
      PROVE  TypeInv'
  <2>1. PcType'
      BY <1>0, <1>7, GotoType DEF ReceiveWouldBlock, At, PcType, ThreadLabels, IsrLabels, CallLabels
  <2> QED BY <1>0, <1>7, <2>1 DEF ReceiveWouldBlock, NoSwitch, TypeInv, TypeOK, SchedTypeOK, streamVars
<1>8. ASSUME NEW x \in Contexts, NEW s \in Subsystems, Enqueue(x, s)
      PROVE  TypeInv'
  <2>1. PcType'
      BY <1>0, <1>8, GotoType DEF Enqueue, ThreadLabels, IsrLabels, CallLabels
  <2>2. arg[x] \in Receivers
      BY <1>0, <1>8 DEF Enqueue, At, CallInv, CallAt
  <2>3. SchedTypeOK'
      BY <1>0, <1>8, <2>2 DEF Enqueue, NoSwitch, TypeInv, TypeOK, SchedTypeOK
  <2> QED BY <1>0, <1>8, <2>1, <2>2, <2>3 DEF Enqueue, TypeInv, TypeOK
<1>9. ASSUME NEW x \in Contexts, EnqueueNoMem(x)
      PROVE  TypeInv'
  <2>1. PcType'
      BY <1>0, <1>9, GotoType, ReturnFacts DEF EnqueueNoMem, ThreadLabels, IsrLabels, CallLabels
  <2> QED BY <1>0, <1>9, <2>1 DEF EnqueueNoMem, Done, NoSwitch, TypeInv, TypeOK, SchedTypeOK, streamVars
<1>10. ASSUME NEW x \in Contexts, Unlock(x)
       PROVE  TypeInv'
  <2>1. PcType'
      BY <1>0, <1>10, GotoType DEF Unlock, ThreadLabels, IsrLabels
  <2> QED BY <1>0, <1>10, <2>1 DEF Unlock, NoSwitch, TypeInv, TypeOK, SchedTypeOK, streamVars
<1>11. ASSUME NEW x \in Contexts, Receive(x)
       PROVE  TypeInv'
  <2>1. PcType'
      BY <1>0, <1>11, GotoType DEF Receive, At, PcType, ThreadLabels, IsrLabels, CallLabels
  <2> DEFINE r == x[1]
             T == want[r] \cap pendingSubsystems[r]
             s == Min(T)
  <2>2. r \in Receivers
      BY <1>0, <1>11 DEF Receive, At, CallInv, CallAt
  <2>3. s \in pendingSubsystems[r] /\ s \in Subsystems
    <3>1. T # {} /\ T \subseteq Nat /\ pendingSubsystems[r] \subseteq Subsystems
        BY <1>0, <1>11, <2>2 DEF Receive, ConstantsOK, TypeInv, TypeOK
    <3>2. s \in T
        BY <3>1, MinFacts
    <3> QED BY <3>1, <3>2
  <2> HIDE DEF s
  <2>4. queues[r][s] \in Nat \ {0}
      BY <1>0, <2>2, <2>3 DEF PendingInv, TypeInv, TypeOK
  <2>5. /\ queues' = [queues EXCEPT ![r][s] = @ - 1]
        /\ pendingSubsystems' = [pendingSubsystems EXCEPT
             ![r] = IF queues[r][s] = 1 THEN @ \ {s} ELSE @]
      BY <1>11 DEF Receive, s
  <2>6. /\ queues' \in [Receivers -> [Subsystems -> Nat]]
        /\ pendingSubsystems' \in [Receivers -> SUBSET Subsystems]
    <3>0. queues[r] \in [Subsystems -> Nat]
        BY <1>0, <2>2 DEF TypeInv, TypeOK
    <3>1. queues[r] \in [Subsystems -> Nat] /\ queues[r][s] - 1 \in Nat
        BY <2>4, <3>0
    <3>2. [queues[r] EXCEPT ![s] = @ - 1] \in [Subsystems -> Nat]
        BY <2>3, <3>1
    <3> QED BY <1>0, <2>2, <2>3, <2>5, <3>2 DEF TypeInv, TypeOK
  <2>7. SchedTypeOK' /\ want' = want
      BY <1>0, <1>11 DEF Receive, NoSwitch, TypeInv, TypeOK, SchedTypeOK
  <2> QED BY <1>0, <2>1, <2>6, <2>7 DEF TypeInv, TypeOK
<1>12. ASSUME NEW x \in Contexts, ReceiveBlocks(x)
       PROVE  TypeInv'
  <2>1. x[1] \in Receivers /\ x[1] \in Threads /\ x[1] \in Queues
      BY <1>0, <1>12 DEF ReceiveBlocks, At, CallInv, CallAt, ConstantsOK
  <2>2. PcType'
      BY <1>0, <1>12, GotoType DEF ReceiveBlocks, Block, At, PcType, ThreadLabels, IsrLabels, CallLabels
  <2> QED BY <1>0, <1>12, <2>1, <2>2 DEF ReceiveBlocks, Block, TypeInv, TypeOK, SchedTypeOK, streamVars
<1> QED BY <1>1, <1>2, <1>3, <1>4, <1>5, <1>6, <1>7, <1>8, <1>9, <1>10, <1>11, <1>12 DEF Next, Step

-----------------------------------------------------------------------------
(* Wakeups *)

\* A step of context x leaves the other contexts alone, and their locks.
OnlyMoves(x) ==
  /\ \A y \in Contexts \ {x} : pc'[y] = pc[y] /\ arg'[y] = arg[y]
  /\ \A q \in Queues : lock'[q] # lock[q] => lock[q] \in {Nobody, x} /\ lock'[q] \in {Nobody, x}

LEMMA OthersCall ==
  ASSUME ConstantsOK, CallInv, NEW x \in Contexts, OnlyMoves(x), CallAt(x)'
  PROVE  CallInv'
<1> SUFFICES ASSUME NEW y \in Contexts, y # x PROVE CallAt(y)'
    BY DEF CallInv
<1>1. CallAt(y) /\ pc'[y] = pc[y] /\ arg'[y] = arg[y] /\ y # Nobody
    BY ContextFacts DEF CallInv, OnlyMoves
<1>2. \A q \in Receivers : lock[q] = y => lock'[q] = y
    BY <1>1 DEF OnlyMoves, ConstantsOK
<1> QED BY <1>1, <1>2 DEF CallAt

LEMMA OthersBlocked ==
  ASSUME ConstantsOK, BlockedInv, NEW x \in Contexts, OnlyMoves(x),
         \A r \in Receivers : schedState'[r] = "BLOCKED" => schedState[r] = "BLOCKED" \/ x = <<r, "thread">>,
         \A t \in Threads : SwitchedIn(t)' => SwitchedIn(t),
         x[2] = "thread" /\ x[1] \in Receivers => BlockedAt(x[1])'
  PROVE  BlockedInv'
<1> SUFFICES ASSUME NEW r \in Receivers PROVE BlockedAt(r)'
    BY DEF BlockedInv
<1>1. r \in Threads /\ <<r, "thread">> \in Contexts
    BY ContextFacts DEF ConstantsOK
<1>2. CASE <<r, "thread">> = x
    BY <1>2
<1>3. CASE <<r, "thread">> # x
  <2>1. pc'[<<r, "thread">>] = pc[<<r, "thread">>]
      BY <1>1, <1>3 DEF OnlyMoves
  <2>2. BlockedAt(r)
      BY DEF BlockedInv
  <2> QED BY <1>1, <1>3, <2>1, <2>2 DEF BlockedAt, Parked
<1> QED BY <1>2, <1>3

LEMMA OthersUnblock ==
  ASSUME ConstantsOK, NEW x \in Contexts, OnlyMoves(x), NEW r \in Receivers, AboutToUnblock(r),
         pc[x] \notin {"unblock", "unblockState"}
  PROVE  AboutToUnblock(r)'
<1>1. PICK y \in Contexts : lock[r] = y /\ arg[y] = r /\ pc[y] \in {"unblock", "unblockState"}
    BY DEF AboutToUnblock
<1>2. lock'[r] = y
    BY <1>1, ContextFacts DEF OnlyMoves, ConstantsOK
<1> QED BY <1>1, <1>2 DEF OnlyMoves, AboutToUnblock

\* A step of x that blocks nobody, resumes nobody and touches no stream keeps
\* the invariants if x itself is right after it.
LEMMA QuietStep ==
  ASSUME ConstantsOK, AInv, NEW x \in Contexts, OnlyMoves(x), CallAt(x)',
         UNCHANGED <<want, queues, pendingSubsystems>>,
         \A r \in Receivers : schedState'[r] = "BLOCKED" => schedState[r] = "BLOCKED",
         \A t \in Threads : SwitchedIn(t)' => SwitchedIn(t),
         x[2] = "thread" /\ x[1] \in Receivers => BlockedAt(x[1])',
         pc[x] \in {"unblock", "unblockState"} =>
           \/ schedState'[arg[x]] # "BLOCKED"
           \/ pc'[x] = "unblockState" /\ arg'[x] = arg[x] /\ lock'[arg[x]] = lock[arg[x]]
  PROVE  CallInv' /\ BlockedInv' /\ PendingInv' /\ WakeupInv'
<1>1. CallInv' /\ BlockedInv'
    BY OthersCall, OthersBlocked DEF AInv
<1>2. PendingInv'
    BY DEF AInv, PendingInv
<1>3. WakeupInv'
  <2> SUFFICES ASSUME NEW r \in Receivers, schedState'[r] = "BLOCKED", AboutToUnblock(r)
               PROVE  AboutToUnblock(r)'
      BY DEF AInv, WakeupInv
  <2>1. CASE pc[x] \in {"unblock", "unblockState"} /\ lock[r] = x /\ arg[x] = r
      BY <2>1 DEF AboutToUnblock
  <2>2. CASE pc[x] \notin {"unblock", "unblockState"}
      BY <2>2, OthersUnblock
  <2>3. CASE ~(lock[r] = x /\ arg[x] = r)
    <3>1. PICK y \in Contexts : lock[r] = y /\ arg[y] = r /\ pc[y] \in {"unblock", "unblockState"}
        BY DEF AboutToUnblock
    <3>2. y # x /\ lock'[r] = y
        BY <2>3, <3>1, ContextFacts DEF OnlyMoves, ConstantsOK
    <3> QED BY <3>1, <3>2 DEF OnlyMoves, AboutToUnblock
  <2> QED BY <2>1, <2>2, <2>3
<1> QED BY <1>1, <1>2, <1>3

LEMMA SchedWakeup ==
  ASSUME ConstantsOK, AInv, NEW x \in Contexts, SchedStep(x), UNCHANGED streamVars
  PROVE  CallInv' /\ BlockedInv' /\ PendingInv' /\ WakeupInv'
<1> DEFINE Goal == CallInv' /\ BlockedInv' /\ PendingInv' /\ WakeupInv'
<1>0. /\ TypeInv /\ PcType /\ CallAt(x) /\ UNCHANGED <<want, queues, pendingSubsystems>>
      /\ x[2] = "thread" /\ x[1] \in Receivers => BlockedAt(x[1])
    BY DEF AInv, TypeInv, CallInv, BlockedInv, streamVars
<1>1. /\ x = <<x[1], x[2]>> /\ x # Nobody /\ Cpu(x) \in Cpus
      /\ x[2] = "thread" => x[1] \in Threads /\ Cpu(x) = CpuOf[x[1]]
      /\ \A t \in Threads : CpuOf[t] \in Cpus /\ <<t, "thread">> \in Contexts
    BY ContextFacts DEF ConstantsOK
<1>2. Executing(Cpu(x)) = x /\ x[2] = "thread" => SwitchedIn(x[1])
    BY <1>0, <1>1, ExecutingFacts DEF SwitchedIn
<1>3. /\ pc \in [Contexts -> ThreadLabels \cup IsrLabels] /\ arg \in [Contexts -> Threads \cup {Nobody}]
      /\ lock \in [Queues -> Contexts \cup {Nobody}] /\ mode \in [Cpus -> {"thread", "pull", "roundRobin", "idle", "halted", "jump"}]
      /\ \A s \in {"recv", "blockRemove", "blockUnlock", "blockPull", "idle"} : pc[x] = s => x[2] = "thread"
    BY <1>0 DEF PcType, TypeInv, TypeOK, SchedTypeOK, IsrLabels, CallLabels
<1> USE DEF At, Goto, NoSwitch, Done
<1>4. CASE BlockRemove(x)
  <2>1. OnlyMoves(x) /\ CallAt(x)'
      BY <1>0, <1>1, <1>3, <1>4 DEF BlockRemove, OnlyMoves, CallAt
  <2>2. x[2] = "thread" /\ x[1] \in Receivers => BlockedAt(x[1])'
      BY <1>1, <1>3, <1>4 DEF BlockRemove, BlockedAt
  <2>3. \A t \in Threads : SwitchedIn(t)' => SwitchedIn(t)
      BY <1>4 DEF BlockRemove, SwitchedIn
  <2> QED BY <1>0, <1>4, <2>1, <2>2, <2>3, QuietStep DEF BlockRemove
<1>5. CASE BlockUnlock(x)
  <2>1. OnlyMoves(x) /\ CallAt(x)'
      BY <1>0, <1>1, <1>3, <1>5 DEF BlockUnlock, OnlyMoves, CallAt
  <2>2. x[2] = "thread" /\ x[1] \in Receivers => BlockedAt(x[1])'
      BY <1>1, <1>3, <1>5 DEF BlockUnlock, BlockedAt, Parked
  <2>3. \A t \in Threads : SwitchedIn(t)' => SwitchedIn(t)
      BY <1>5 DEF BlockUnlock, SwitchedIn
  <2> QED BY <1>0, <1>5, <2>1, <2>2, <2>3, QuietStep DEF BlockUnlock
<1>6. CASE BlockPull(x)
  <2>0. /\ pc' = [pc EXCEPT ![x] = "recv"] /\ mode' = [mode EXCEPT ![Cpu(x)] = "pull"]
        /\ UNCHANGED <<schedState, runQueue, currentThread, arg, lock>>
      BY <1>3, <1>6 DEF BlockPull, SaveContextAndCallPull
  <2>1. OnlyMoves(x) /\ CallAt(x)'
      BY <1>0, <1>1, <1>3, <1>6, <2>0 DEF BlockPull, OnlyMoves, CallAt
  <2>2. x[2] = "thread" /\ x[1] \in Receivers => BlockedAt(x[1])'
      BY <1>1, <1>3, <2>0 DEF BlockedAt, Parked, SwitchedIn
  <2>3. \A t \in Threads : SwitchedIn(t)' => SwitchedIn(t)
      BY <1>1, <1>3, <2>0 DEF SwitchedIn
  <2> QED BY <1>0, <1>6, <2>0, <2>1, <2>2, <2>3, QuietStep DEF BlockPull
<1>7. CASE Unblock(x)
  <2>1. OnlyMoves(x) /\ CallAt(x)'
      BY <1>0, <1>1, <1>3, <1>7, ReturnFacts DEF Unblock, OnlyMoves, CallAt
  <2>2. x[2] = "thread" /\ x[1] \in Receivers => BlockedAt(x[1])'
      BY <1>0, <1>1, <1>3, <1>7 DEF Unblock, BlockedAt, Parked
  <2>3. \A t \in Threads : SwitchedIn(t)' => SwitchedIn(t)
      BY <1>7 DEF Unblock, SwitchedIn
  <2>4. \/ schedState'[arg[x]] # "BLOCKED"
        \/ pc'[x] = "unblockState" /\ arg'[x] = arg[x] /\ lock' = lock
    <3>1. schedState' = schedState /\ lock' = lock
        BY <1>7 DEF Unblock
    <3>2. schedState[arg[x]] = "BLOCKED" => pc' = [pc EXCEPT ![x] = "unblockState"] /\ arg' = arg
        BY <1>7 DEF Unblock
    <3> QED BY <1>3, <3>1, <3>2
  <2> QED BY <1>0, <1>7, <2>1, <2>2, <2>3, <2>4, QuietStep DEF Unblock
<1>8. CASE UnblockState(x)
  <2>0. arg[x] \in Threads /\ schedState \in [Threads -> {"UNSCHEDULED", "RUNNABLE", "RUNNING", "BLOCKED", "DORMANT"}]
      BY <1>0, <1>8 DEF UnblockState, CallAt, ConstantsOK, TypeInv, TypeOK, SchedTypeOK
  <2>1. OnlyMoves(x) /\ CallAt(x)'
      BY <1>0, <1>1, <1>3, <1>8 DEF UnblockState, OnlyMoves, CallAt
  <2>2. x[2] = "thread" /\ x[1] \in Receivers => BlockedAt(x[1])'
    <3> SUFFICES ASSUME x[2] = "thread", x[1] \in Receivers PROVE schedState'[x[1]] # "BLOCKED"
        BY DEF BlockedAt
    <3>1. schedState[x[1]] # "BLOCKED"
        BY <1>0, <1>1, <1>8 DEF UnblockState, BlockedAt, Parked
    <3> QED BY <1>1, <1>8, <2>0, <3>1 DEF UnblockState
  <2>3. \A t \in Threads : SwitchedIn(t)' => SwitchedIn(t)
      BY <1>8 DEF UnblockState, SwitchedIn
  <2>4. /\ schedState'[arg[x]] # "BLOCKED"
        /\ \A r \in Receivers : schedState'[r] = "BLOCKED" => schedState[r] = "BLOCKED"
      BY <1>8, <2>0 DEF UnblockState, ConstantsOK
  <2> QED BY <1>0, <1>8, <2>1, <2>2, <2>3, <2>4, QuietStep DEF UnblockState
<1>9. CASE Insert(x)
  <2>1. OnlyMoves(x) /\ CallAt(x)'
      BY <1>0, <1>1, <1>3, <1>9 DEF Insert, OnlyMoves, CallAt
  <2>2. x[2] = "thread" /\ x[1] \in Receivers => BlockedAt(x[1])'
      BY <1>0, <1>1, <1>3, <1>9 DEF Insert, BlockedAt, Parked
  <2>3. \A t \in Threads : SwitchedIn(t)' => SwitchedIn(t)
      BY <1>9 DEF Insert, SwitchedIn
  <2> QED BY <1>0, <1>9, <2>1, <2>2, <2>3, QuietStep DEF Insert
<1>10. CASE Preempt(x)
  <2>1. OnlyMoves(x) /\ CallAt(x)'
      BY <1>0, <1>1, <1>3, <1>10, ReturnFacts DEF Preempt, OnlyMoves, CallAt
  <2>2. x[2] = "thread" /\ x[1] \in Receivers => BlockedAt(x[1])'
      BY <1>0, <1>1, <1>3, <1>10 DEF Preempt, BlockedAt, Parked
  <2>3. \A t \in Threads : SwitchedIn(t)' => SwitchedIn(t)
      BY <1>10 DEF Preempt, SwitchedIn
  <2> QED BY <1>0, <1>10, <2>1, <2>2, <2>3, QuietStep DEF Preempt
<1>11. CASE YieldState(x)
  <2>0. /\ currentThread[Cpu(x)] \in Threads
        /\ schedState \in [Threads -> {"UNSCHEDULED", "RUNNABLE", "RUNNING", "BLOCKED", "DORMANT"}]
      BY <1>0, <1>1 DEF TypeInv, TypeOK, SchedTypeOK
  <2>1. OnlyMoves(x) /\ CallAt(x)'
      BY <1>0, <1>1, <1>3, <1>11 DEF YieldState, OnlyMoves, CallAt
  <2>2. x[2] = "thread" /\ x[1] \in Receivers => BlockedAt(x[1])'
    <3> SUFFICES ASSUME x[2] = "thread", x[1] \in Receivers PROVE schedState'[x[1]] # "BLOCKED"
        BY DEF BlockedAt
    <3>1. schedState[x[1]] # "BLOCKED"
        BY <1>0, <1>1, <1>11 DEF YieldState, BlockedAt, Parked
    <3> QED BY <1>1, <1>11, <2>0, <3>1 DEF YieldState
  <2>3. \A t \in Threads : SwitchedIn(t)' => SwitchedIn(t)
      BY <1>11 DEF YieldState, SwitchedIn
  <2>4. \A r \in Receivers : schedState'[r] = "BLOCKED" => schedState[r] = "BLOCKED"
      BY <1>11, <2>0 DEF YieldState, ConstantsOK
  <2> QED BY <1>0, <1>11, <2>1, <2>2, <2>3, <2>4, QuietStep DEF YieldState
<1>12. CASE YieldInsert(x)
  <2>1. OnlyMoves(x) /\ CallAt(x)'
      BY <1>0, <1>1, <1>3, <1>12 DEF YieldInsert, OnlyMoves, CallAt
  <2>2. x[2] = "thread" /\ x[1] \in Receivers => BlockedAt(x[1])'
      BY <1>0, <1>1, <1>3, <1>12 DEF YieldInsert, BlockedAt, Parked
  <2>3. \A t \in Threads : SwitchedIn(t)' => SwitchedIn(t)
      BY <1>12 DEF YieldInsert, SwitchedIn
  <2> QED BY <1>0, <1>12, <2>1, <2>2, <2>3, QuietStep DEF YieldInsert
<1>13. CASE YieldPull(x)
  <2>0. PICK l \in {"unlock", "idle", "isrDone", "none"} :
          /\ pc' = [pc EXCEPT ![x] = l] /\ mode' = [mode EXCEPT ![Cpu(x)] = "pull"]
          /\ UNCHANGED <<schedState, runQueue, currentThread, arg, lock>>
      BY <1>3, <1>13, ReturnFacts DEF YieldPull, SaveContextAndCallPull
  <2>1. OnlyMoves(x) /\ CallAt(x)'
      BY <1>0, <1>1, <1>3, <2>0 DEF OnlyMoves, CallAt
  <2>2. x[2] = "thread" /\ x[1] \in Receivers => BlockedAt(x[1])'
      BY <1>0, <1>1, <1>3, <1>13, <2>0 DEF YieldPull, BlockedAt, Parked
  <2>3. \A t \in Threads : SwitchedIn(t)' => SwitchedIn(t)
      BY <1>1, <1>3, <2>0 DEF SwitchedIn
  <2> QED BY <1>0, <1>13, <2>0, <2>1, <2>2, <2>3, QuietStep DEF YieldPull
<1>14. CASE IsrReturn(x)
  <2>1. OnlyMoves(x) /\ CallAt(x)'
      BY <1>0, <1>1, <1>3, <1>14 DEF IsrReturn, OnlyMoves, CallAt
  <2>2. x[2] # "thread"
      BY <1>0, <1>14 DEF IsrReturn, PcType, ThreadLabels, CallLabels
  <2>3. \A t \in Threads : SwitchedIn(t)' => SwitchedIn(t)
      BY <1>1, <1>3, <1>14 DEF IsrReturn, SwitchedIn
  <2> QED BY <1>0, <1>14, <2>1, <2>2, <2>3, QuietStep DEF IsrReturn
<1> QED BY <1>4, <1>5, <1>6, <1>7, <1>8, <1>9, <1>10, <1>11, <1>12, <1>13, <1>14 DEF SchedStep

LEMMA StreamWakeup ==
  ASSUME ConstantsOK, AInv, NEW x \in Contexts,
         \/ \E r \in Receivers : EnqueueCall(x, r)
         \/ \E S \in {Subsystems} \cup {{s} : s \in Subsystems} : PullCall(x, S)
         \/ YieldCall(x) /\ UNCHANGED streamVars
         \/ ReceiveWouldBlock(x)
         \/ \E s \in Subsystems : Enqueue(x, s)
         \/ EnqueueNoMem(x) \/ Unlock(x) \/ Receive(x) \/ ReceiveBlocks(x)
  PROVE  CallInv' /\ BlockedInv' /\ PendingInv' /\ WakeupInv'
<1>0. /\ TypeInv /\ PcType /\ CallAt(x) /\ CallInv
      /\ x[2] = "thread" /\ x[1] \in Receivers => BlockedAt(x[1])
    BY DEF AInv, TypeInv, CallInv, BlockedInv
<1>1. /\ x = <<x[1], x[2]>> /\ x # Nobody /\ Cpu(x) \in Cpus
      /\ x[2] = "thread" => x[1] \in Threads /\ Cpu(x) = CpuOf[x[1]]
      /\ \A t \in Threads : CpuOf[t] \in Cpus /\ <<t, "thread">> \in Contexts
    BY ContextFacts DEF ConstantsOK
<1>2. Executing(Cpu(x)) = x /\ x[2] = "thread" => SwitchedIn(x[1])
    BY <1>0, <1>1, ExecutingFacts DEF SwitchedIn
<1>3. /\ pc \in [Contexts -> ThreadLabels \cup IsrLabels] /\ arg \in [Contexts -> Threads \cup {Nobody}]
      /\ lock \in [Queues -> Contexts \cup {Nobody}]
      /\ \A s \in {"recv", "blockRemove", "blockUnlock", "blockPull", "idle"} : pc[x] = s => x[2] = "thread"
    BY <1>0 DEF PcType, TypeInv, TypeOK, SchedTypeOK, IsrLabels, CallLabels
<1>4. NoSwitch => \A t \in Threads : SwitchedIn(t)' => SwitchedIn(t)
    BY DEF NoSwitch, SwitchedIn
<1> USE DEF At, Goto, NoSwitch, Done
<1>5. ASSUME NEW r \in Receivers, EnqueueCall(x, r)
      PROVE  CallInv' /\ BlockedInv' /\ PendingInv' /\ WakeupInv'
  <2>1. OnlyMoves(x) /\ CallAt(x)'
      BY <1>0, <1>1, <1>3, <1>5 DEF EnqueueCall, OnlyMoves, CallAt
  <2>2. x[2] = "thread" /\ x[1] \in Receivers => BlockedAt(x[1])'
      BY <1>0, <1>1, <1>3, <1>5 DEF EnqueueCall, BlockedAt, Parked
  <2>3. pc[x] \notin {"unblock", "unblockState"}
      BY <1>5 DEF EnqueueCall
  <2> QED BY <1>4, <1>5, <2>1, <2>2, <2>3, QuietStep DEF EnqueueCall, streamVars
<1>6. CASE YieldCall(x) /\ UNCHANGED streamVars
  <2>1. OnlyMoves(x) /\ CallAt(x)'
      BY <1>0, <1>1, <1>3, <1>6 DEF YieldCall, OnlyMoves, CallAt
  <2>2. x[2] = "thread" /\ x[1] \in Receivers => BlockedAt(x[1])'
      BY <1>0, <1>1, <1>3, <1>6 DEF YieldCall, BlockedAt, Parked
  <2> QED BY <1>4, <1>6, <2>1, <2>2, QuietStep DEF YieldCall, streamVars
<1>7. CASE ReceiveWouldBlock(x)
  <2>1. OnlyMoves(x) /\ CallAt(x)'
      BY <1>0, <1>1, <1>3, <1>7 DEF ReceiveWouldBlock, OnlyMoves, CallAt
  <2>2. x[2] = "thread" /\ x[1] \in Receivers => BlockedAt(x[1])'
      BY <1>0, <1>1, <1>2, <1>3, <1>7 DEF ReceiveWouldBlock, BlockedAt, Parked
  <2> QED BY <1>4, <1>7, <2>1, <2>2, QuietStep DEF ReceiveWouldBlock, streamVars
<1>8. CASE EnqueueNoMem(x)
  <2>1. OnlyMoves(x) /\ CallAt(x)'
      BY <1>0, <1>1, <1>3, <1>8, ReturnFacts DEF EnqueueNoMem, OnlyMoves, CallAt
  <2>2. x[2] = "thread" /\ x[1] \in Receivers => BlockedAt(x[1])'
      BY <1>0, <1>1, <1>3, <1>8 DEF EnqueueNoMem, BlockedAt, Parked
  <2> QED BY <1>4, <1>8, <2>1, <2>2, QuietStep DEF EnqueueNoMem, streamVars
<1>9. CASE Unlock(x)
  <2>1. OnlyMoves(x) /\ CallAt(x)'
      BY <1>0, <1>1, <1>3, <1>9 DEF Unlock, OnlyMoves, CallAt
  <2>2. x[2] = "thread" /\ x[1] \in Receivers => BlockedAt(x[1])'
      BY <1>0, <1>1, <1>3, <1>9 DEF Unlock, BlockedAt, Parked
  <2> QED BY <1>4, <1>9, <2>1, <2>2, QuietStep DEF Unlock, streamVars
<1>10. ASSUME NEW S \in {Subsystems} \cup {{s} : s \in Subsystems}, PullCall(x, S)
       PROVE  CallInv' /\ BlockedInv' /\ PendingInv' /\ WakeupInv'
  <2>1. OnlyMoves(x) /\ CallAt(x)'
      BY <1>0, <1>1, <1>3, <1>10 DEF PullCall, OnlyMoves, CallAt
  <2>2. schedState[x[1]] # "BLOCKED" /\ schedState' = schedState
      BY <1>0, <1>1, <1>10 DEF PullCall, BlockedAt, Parked
  <2>3. CallInv' /\ BlockedInv'
      BY <1>0, <1>4, <1>10, <2>1, <2>2, OthersCall, OthersBlocked DEF AInv, PullCall, BlockedAt
  <2>4. PendingInv'
      BY <1>10 DEF AInv, PendingInv, PullCall
  <2>5. ASSUME NEW r \in Receivers, schedState'[r] = "BLOCKED"
        PROVE  (want[r] \cap pendingSubsystems[r])' = {} \/ AboutToUnblock(r)'
    <3>1. schedState[r] = "BLOCKED" /\ r # x[1]
        BY <2>2, <2>5
    <3>2. want'[r] = want[r] /\ pendingSubsystems' = pendingSubsystems
        BY <1>0, <1>10, <3>1 DEF PullCall, TypeInv, TypeOK
    <3>3. pc[x] \notin {"unblock", "unblockState"}
        BY <1>10 DEF PullCall
    <3> QED BY <2>1, <3>1, <3>2, <3>3, OthersUnblock DEF AInv, WakeupInv
  <2> QED BY <2>3, <2>4, <2>5 DEF WakeupInv
<1>11. ASSUME NEW s \in Subsystems, Enqueue(x, s)
       PROVE  CallInv' /\ BlockedInv' /\ PendingInv' /\ WakeupInv'
  <2> DEFINE r == arg[x]
  <2>1. r \in Receivers /\ r \in Queues
      BY <1>0, <1>11 DEF Enqueue, CallAt, ConstantsOK
  <2>2. OnlyMoves(x) /\ CallAt(x)'
      BY <1>0, <1>1, <1>3, <1>11, <2>1 DEF Enqueue, OnlyMoves, CallAt
  <2>3. x[2] = "thread" /\ x[1] \in Receivers => BlockedAt(x[1])'
      BY <1>0, <1>1, <1>3, <1>11 DEF Enqueue, BlockedAt, Parked
  <2>4. CallInv' /\ BlockedInv'
      BY <1>0, <1>4, <1>11, <2>2, <2>3, OthersCall, OthersBlocked DEF AInv, Enqueue
  <2>5. \A v \in Receivers : v # r => queues'[v] = queues[v] /\ pendingSubsystems'[v] = pendingSubsystems[v]
      BY <1>0, <1>11, <2>1 DEF Enqueue, TypeInv, TypeOK
  <2>6. PendingInv'
    <3>1. /\ queues[r] \in [Subsystems -> Nat]
          /\ pendingSubsystems[r] = {z \in Subsystems : queues[r][z] # 0}
        BY <1>0, <2>1 DEF TypeInv, TypeOK, AInv, PendingInv
    <3>2. /\ queues'[r] = [queues[r] EXCEPT ![s] = @ + 1]
          /\ pendingSubsystems'[r] = pendingSubsystems[r] \cup {s}
        BY <1>0, <1>11, <2>1 DEF Enqueue, TypeInv, TypeOK
    <3>3. pendingSubsystems'[r] = {z \in Subsystems : queues'[r][z] # 0}
        BY <3>1, <3>2
    <3> QED BY <2>5, <3>3 DEF AInv, PendingInv
  <2>7. ASSUME NEW v \in Receivers, schedState'[v] = "BLOCKED"
        PROVE  (want[v] \cap pendingSubsystems[v])' = {} \/ AboutToUnblock(v)'
    <3>1. CASE v = r
        BY <1>3, <1>11, <2>1, <3>1 DEF Enqueue, AboutToUnblock
    <3>2. CASE v # r
        BY <1>11, <2>2, <2>5, <2>7, <3>2, OthersUnblock DEF Enqueue, AInv, WakeupInv
    <3> QED BY <3>1, <3>2
  <2> QED BY <2>4, <2>6, <2>7 DEF WakeupInv
<1>12. CASE Receive(x)
  <2> DEFINE r == x[1]
             T == want[r] \cap pendingSubsystems[r]
             s == Min(T)
  <2>1. r \in Receivers
      BY <1>0, <1>12 DEF Receive, CallAt
  <2>2. OnlyMoves(x) /\ CallAt(x)'
      BY <1>0, <1>1, <1>3, <1>12 DEF Receive, OnlyMoves, CallAt
  <2>3. schedState[r] # "BLOCKED" /\ schedState' = schedState
      BY <1>0, <1>1, <1>2, <1>3, <1>12, <2>1 DEF Receive, BlockedAt, Parked
  <2>4. CallInv' /\ BlockedInv'
      BY <1>0, <1>4, <1>12, <2>2, <2>3, OthersCall, OthersBlocked DEF AInv, Receive, BlockedAt
  <2>5. s \in pendingSubsystems[r] /\ s \in Subsystems
    <3>1. T # {} /\ T \subseteq Nat /\ pendingSubsystems[r] \subseteq Subsystems
        BY <1>0, <1>12, <2>1 DEF Receive, ConstantsOK, TypeInv, TypeOK
    <3>2. s \in T
        BY <3>1, MinFacts
    <3> QED BY <3>1, <3>2
  <2>6. /\ queues' = [queues EXCEPT ![r][s] = @ - 1]
        /\ pendingSubsystems' = [pendingSubsystems EXCEPT
             ![r] = IF queues[r][s] = 1 THEN @ \ {s} ELSE @]
      BY <1>12 DEF Receive
  <2> HIDE DEF s
  <2>7. \A v \in Receivers : v # r => queues'[v] = queues[v] /\ pendingSubsystems'[v] = pendingSubsystems[v]
      BY <1>0, <2>1, <2>6 DEF TypeInv, TypeOK
  <2>8. PendingInv'
    <3>1. /\ queues[r] \in [Subsystems -> Nat]
          /\ pendingSubsystems[r] = {z \in Subsystems : queues[r][z] # 0}
        BY <1>0, <2>1 DEF TypeInv, TypeOK, AInv, PendingInv
    <3>2. /\ queues'[r] = [queues[r] EXCEPT ![s] = @ - 1]
          /\ pendingSubsystems'[r] = IF queues[r][s] = 1 THEN pendingSubsystems[r] \ {s} ELSE pendingSubsystems[r]
        BY <1>0, <2>1, <2>6 DEF TypeInv, TypeOK
    <3>3. pendingSubsystems'[r] = {z \in Subsystems : queues'[r][z] # 0}
        BY <2>5, <3>1, <3>2
    <3> QED BY <2>7, <3>3 DEF AInv, PendingInv
  <2>9. ASSUME NEW v \in Receivers, schedState'[v] = "BLOCKED"
        PROVE  (want[v] \cap pendingSubsystems[v])' = {} \/ AboutToUnblock(v)'
      BY <1>12, <2>2, <2>3, <2>7, <2>9, OthersUnblock DEF Receive, AInv, WakeupInv
  <2> QED BY <2>4, <2>8, <2>9 DEF WakeupInv
<1>13. CASE ReceiveBlocks(x)
  <2> DEFINE r == x[1]
  <2>1. r \in Receivers /\ r \in Queues /\ r \in Threads /\ x = <<r, "thread">>
      BY <1>0, <1>1, <1>3, <1>13 DEF ReceiveBlocks, CallAt, ConstantsOK
  <2>2. OnlyMoves(x) /\ CallAt(x)'
      BY <1>0, <1>1, <1>3, <1>13, <2>1 DEF ReceiveBlocks, Block, OnlyMoves, CallAt
  <2>3. BlockedAt(r)'
      BY <1>1, <1>3, <1>13, <2>1 DEF ReceiveBlocks, Block, BlockedAt
  <2>4. \A v \in Threads : v # r => schedState'[v] = schedState[v]
      BY <1>0, <1>13, <2>1 DEF ReceiveBlocks, Block, TypeInv, TypeOK, SchedTypeOK
  <2>5. \A t \in Threads : SwitchedIn(t)' => SwitchedIn(t)
      BY <1>13 DEF ReceiveBlocks, SwitchedIn
  <2>6. CallInv' /\ BlockedInv'
    <3>1. \A v \in Receivers : schedState'[v] = "BLOCKED" => schedState[v] = "BLOCKED" \/ x = <<v, "thread">>
        BY <2>1, <2>4 DEF ConstantsOK
    <3> QED BY <1>0, <2>2, <2>3, <2>5, <3>1, OthersCall, OthersBlocked DEF AInv
  <2>7. PendingInv'
      BY <1>13 DEF AInv, PendingInv, ReceiveBlocks, streamVars
  <2>8. ASSUME NEW v \in Receivers, schedState'[v] = "BLOCKED"
        PROVE  (want[v] \cap pendingSubsystems[v])' = {} \/ AboutToUnblock(v)'
    <3>1. CASE v = r
        BY <1>13, <3>1 DEF ReceiveBlocks, streamVars
    <3>2. CASE v # r
        BY <1>13, <2>2, <2>4, <2>8, <3>2, OthersUnblock DEF ReceiveBlocks, streamVars, AInv, WakeupInv, ConstantsOK
    <3> QED BY <3>1, <3>2
  <2> QED BY <2>6, <2>7, <2>8 DEF WakeupInv
<1> QED BY <1>5, <1>6, <1>7, <1>8, <1>9, <1>10, <1>11, <1>12, <1>13

\* pull() resumes no thread that is BLOCKED: it makes the one it resumes RUNNING.
LEMMA PullWakeup ==
  ASSUME ConstantsOK, AInv, NEW c \in Cpus, Pull(c), UNCHANGED streamVars
  PROVE  CallInv' /\ BlockedInv' /\ PendingInv' /\ WakeupInv'
<1>0. TypeInv /\ UNCHANGED <<pc, arg, lock, queues, pendingSubsystems, want>>
    BY PullTypes DEF AInv, streamVars
<1>1. CallInv' /\ PendingInv'
    BY <1>0 DEF AInv, CallInv, CallAt, PendingInv
<1>2. ASSUME NEW r \in Receivers, schedState'[r] = "BLOCKED"
      PROVE  schedState[r] = "BLOCKED" /\ (SwitchedIn(r)' => SwitchedIn(r))
  <2> USE DEF TypeInv, TypeOK, SchedTypeOK, SwitchedIn
  <2>0. r \in Threads /\ CpuOf[r] \in Cpus
      BY DEF ConstantsOK
  <2>1. CASE PullFromQ(c)
      BY <1>0, <1>2, <2>0, <2>1 DEF PullFromQ, PullPop, PullNone
  <2>2. CASE Halt(c)
      BY <1>0, <1>2, <2>0, <2>2 DEF Halt
  <2>3. CASE PullCurrent(c)
      BY <1>0, <1>2, <2>0, <2>3 DEF PullCurrent
  <2>4. CASE PullJump(c)
      BY <1>0, <1>2, <2>0, <2>4 DEF PullJump, InPull
  <2> QED BY <2>1, <2>2, <2>3, <2>4 DEF Pull
<1>3. BlockedInv'
    BY <1>0, <1>2 DEF AInv, BlockedInv, BlockedAt, Parked
<1>4. WakeupInv'
    BY <1>0, <1>2 DEF AInv, WakeupInv, AboutToUnblock
<1> QED BY <1>1, <1>3, <1>4

LEMMA IsrWakeup ==
  ASSUME ConstantsOK, AInv, NEW c \in Cpus, IsrEnter(c), UNCHANGED streamVars
  PROVE  CallInv' /\ BlockedInv' /\ PendingInv' /\ WakeupInv'
<1>0. TypeInv /\ PcType
    BY DEF AInv, TypeInv
<1>1. currentThread[c] \in Threads /\ <<c, "pull">> \in Contexts /\ \A t \in Threads : <<t, "isr">> \in Contexts
    BY <1>0, ContextFacts DEF TypeInv, TypeOK, SchedTypeOK
<1>2. PICK y \in Contexts : y[2] # "thread" /\ pc[y] = "none" /\ pc' = [pc EXCEPT ![y] = "isr"]
    BY <1>1 DEF IsrEnter, Executing, Masked, Goto
<1>3. OnlyMoves(y) /\ CallAt(y)'
    BY <1>0, <1>2 DEF IsrEnter, OnlyMoves, CallAt, PcType
<1>4. \A t \in Threads : SwitchedIn(t)' => SwitchedIn(t)
    BY DEF IsrEnter, NoSwitch, SwitchedIn
<1> QED BY <1>2, <1>3, <1>4, QuietStep DEF IsrEnter, NoSwitch, streamVars

LEMMA StepInv ==
  ASSUME ConstantsOK, AInv, [Next]_vars
  PROVE  AInv'
<1>1. CASE Next
  <2>1. TypeInv'
      BY <1>1, TypeStep
  <2>2. ASSUME NEW x \in Contexts, SchedStep(x), UNCHANGED streamVars PROVE AInv'
      BY <2>1, <2>2, SchedWakeup DEF AInv
  <2>3. ASSUME NEW c \in Cpus, Pull(c), UNCHANGED streamVars PROVE AInv'
      BY <2>1, <2>3, PullWakeup DEF AInv
  <2>4. ASSUME NEW c \in IsrCpus, IsrEnter(c), UNCHANGED streamVars PROVE AInv'
      BY <2>1, <2>4, IsrWakeup DEF AInv, ConstantsOK
  <2>5. ASSUME NEW x \in Contexts,
               \/ \E r \in Receivers : EnqueueCall(x, r)
               \/ \E S \in {Subsystems} \cup {{s} : s \in Subsystems} : PullCall(x, S)
               \/ YieldCall(x) /\ UNCHANGED streamVars
               \/ ReceiveWouldBlock(x)
               \/ \E s \in Subsystems : Enqueue(x, s)
               \/ EnqueueNoMem(x) \/ Unlock(x) \/ Receive(x) \/ ReceiveBlocks(x)
        PROVE  AInv'
      BY <2>1, <2>5, StreamWakeup DEF AInv
  <2> QED BY <1>1, <2>2, <2>3, <2>4, <2>5 DEF Next, Step
<1>2. CASE UNCHANGED vars
  <2> USE <1>2 DEF vars, AInv
  <2>1. TypeInv'
      BY DEF TypeInv, TypeOK, SchedTypeOK, PcType
  <2>2. CallInv'
      BY DEF CallInv, CallAt
  <2>3. BlockedInv'
      BY DEF BlockedInv, BlockedAt, Parked, SwitchedIn
  <2>4. PendingInv' /\ WakeupInv'
      BY DEF PendingInv, WakeupInv, AboutToUnblock
  <2> QED BY <2>1, <2>2, <2>3, <2>4
<1> QED BY <1>1, <1>2

LEMMA Invariance ==
  ASSUME ConstantsOK
  PROVE  Spec => []AInv
BY InitInv, StepInv, PTL DEF Spec

\* No lost wakeup: whatever threads of any CPU and ISRs send while a thread goes
\* through pull() and block(), a BLOCKED receiver whose lock is free has no
\* message it waits for, and the bitmap it looks at names the queues that have.
THEOREM WakeupNotLost ==
  ASSUME ConstantsOK
  PROVE  Spec => []NoLostWakeup
<1>1. ASSUME AInv PROVE NoLostWakeup
  <2>1. PendingExact
      BY <1>1 DEF AInv, PendingInv, PendingExact
  <2>2. ASSUME NEW r \in Receivers, schedState[r] = "BLOCKED", lock[r] = Nobody
        PROVE  ~ HasMessage(r)
    <3>1. ~ AboutToUnblock(r)
        BY <2>2, ContextFacts DEF AboutToUnblock
    <3>2. want[r] \cap pendingSubsystems[r] = {} /\ want[r] \subseteq Subsystems
        BY <1>1, <2>2, <3>1 DEF AInv, WakeupInv, TypeInv, TypeOK
    <3> QED BY <1>1, <3>2 DEF AInv, PendingInv, HasMessage
  <2> QED BY <2>1, <2>2 DEF NoLostWakeup
<1> QED BY <1>1, Invariance, PTL

=============================================================================
