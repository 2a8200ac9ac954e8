-------------------------- MODULE PrioQueueProofs --------------------------
(***************************************************************************)
(* Proofs about PrioQueue for any number of workers, items and priorities. *)
(* NoneStranded is not inductive: what a scan in progress has yet to see   *)
(* (ScanInv), and what pop() knows before it counts (CountInv), are needed.*)
(***************************************************************************)
EXTENDS PrioQueue, WellFoundedInduction, TLAPS

LockInv ==
  /\ headLock # Nobody => pc[headLock] \in {"popCount", "scan"}
  /\ \A w \in Workers : pc[w] \in {"popCount", "scan"} => headLock = w /\ headQueue = qId[w]

ArgInv == \A w \in Workers : pc[w] = "insertHead" => item[w] \in Items

CountInv ==
  \A w \in Workers : pc[w] = "popCount" =>
    \A p \in Prios : queues[p] # <<>> => headQueue \in 0 .. p \/ Announcing(p)

ScanInv ==
  \A w \in Workers : pc[w] = "scan" =>
    \A p \in Prios : queues[p] # <<>> => Announcing(p) \/ (p # qId[w] /\ p >= i[w])

IInv == TypeOK /\ LockInv /\ ArgInv /\ NoneStranded /\ CountInv /\ ScanInv

USE NPriosAssumption, PrioAssumption, MaxInsertsAssumption, NobodyAssumption,
    StickyAssumption
-----------------------------------------------------------------------------
\* A set of natural numbers that is not empty has a least element.
LEMMA LeastElement ==
  ASSUME NEW I \in SUBSET Nat, I # {}
  PROVE  \E m \in I : \A n \in I : m <= n
<1> DEFINE R == OpToRel(<, Nat)
<1>1. IsWellFoundedOn(R, Nat)
  BY NatLessThanWellFounded
<1>2. \A x, y \in Nat : y < x => <<y, x>> \in R
  BY DEF OpToRel
<1>3. PICK m \in I : \A n \in I : <<n, m>> \notin R
  <2>1. I \subseteq Nat
    OBVIOUS
  <2> HIDE DEF R
  <2>2. \E m \in I : \A n \in I : ~ (<<n, m>> \in R)
    BY <1>1, <2>1, WFMin, Zenon
  <2> QED BY <2>2
<1>4. ASSUME NEW n \in I PROVE m <= n
  <2>1. n \in Nat /\ m \in Nat
    OBVIOUS
  <2> HIDE DEF R
  <2>2. ~ (n < m)
    BY <1>2, <1>3, <2>1, Zenon
  <2> QED BY <2>1, <2>2
<1> QED BY <1>4

\* RemoveFirst() of a list gives a list of the same items, and the empty list
\* stays empty.
LEMMA RemoveFirstSeq ==
  ASSUME NEW S, NEW s \in Seq(S), NEW e
  PROVE  RemoveFirst(s, e) \in Seq(S) /\ (s = <<>> => RemoveFirst(s, e) = <<>>)
<1> DEFINE I == {n \in 1 .. Len(s) : s[n] = e}
<1>1. CASE I = {}
  BY <1>1 DEF RemoveFirst
<1>2. CASE I # {}
  <2>1. SelectInSeq(s, LAMBDA v : v = e) = Min(I)
    BY <1>2 DEF SelectInSeq
  <2>2. RemoveFirst(s, e) = RemoveAt(s, Min(I))
    BY <1>2, <2>1 DEF RemoveFirst
  <2>3. RemoveAt(s, Min(I)) \in Seq(S)
    <3>1. PICK m \in I : \A n \in I : m <= n
      <4>1. I \in SUBSET Nat
        OBVIOUS
      <4> HIDE DEF I
      <4>2. \E m \in I : \A n \in I : m <= n
        BY <1>2, <4>1, LeastElement
      <4> QED BY <4>2
    <3> QED BY <3>1 DEF RemoveAt, Min
  <2> QED BY <1>2, <2>2, <2>3
<1> QED BY <1>1, <1>2

-----------------------------------------------------------------------------
\* Every list keeps its type, whatever Queue::insert(), pop() and remove() do.
LEMMA TypeStep == TypeOK /\ ArgInv /\ [Next]_vars => TypeOK'
<1> SUFFICES ASSUME TypeOK, ArgInv, [Next]_vars PROVE TypeOK'
  OBVIOUS
<1> USE DEF TypeOK, ArgInv, Prios, Goto
<1>1. ASSUME NEW w \in Workers, NEW x \in Items, Insert(w, x) PROVE TypeOK'
  <2>1. Prio[x] \in Prios /\ queues[Prio[x]] \in Seq(Items)
    OBVIOUS
  <2>2. Enqueue(queues[Prio[x]], x) \in Seq(Items)
    BY <2>1 DEF Enqueue
  <2>3. queues' \in [Prios -> Seq(Items)]
    BY <1>1, <2>1, <2>2 DEF Insert
  <2>4. item' \in [Workers -> Items \cup {Nothing}] /\ inserts' \in Nat
    BY <1>1 DEF Insert
  <2>5. pc' \in [Workers -> {"idle", "insertHead", "popCount", "scan", "removeHead"}]
    BY <1>1 DEF Insert
  <2>6. UNCHANGED <<headQueue, headLock, qId, i>>
    BY <1>1 DEF Insert
  <2> QED BY <2>3, <2>4, <2>5, <2>6
<1>2. ASSUME NEW w \in Workers, NEW x \in Items, Remove1(w, x) PROVE TypeOK'
  <2>1. RemoveFirst(queues[Prio[x]], x) \in Seq(Items)
    BY RemoveFirstSeq
  <2> QED BY <1>2, <2>1 DEF Remove1
<1>3. ASSUME NEW w \in Workers, PopNone(w) PROVE TypeOK'
  BY <1>3 DEF PopNone
<1>4. ASSUME NEW w \in Workers, Pop(w) PROVE TypeOK'
  <2>1. queues' \in [Prios -> Seq(Items)]
    BY <1>4 DEF Pop, Dequeue
  <2>2. headQueue' \in -1 .. NPrios - 1
    BY <1>4 DEF Pop, Dequeue
  <2>3. headLock' \in Workers \cup {Nobody}
    BY <1>4 DEF Pop, Dequeue
  <2>4. pc' \in [Workers -> {"idle", "insertHead", "popCount", "scan", "removeHead"}]
    BY <1>4 DEF Pop, Dequeue
  <2>5. item' \in [Workers -> Items \cup {Nothing}] /\ inserts' \in Nat
    BY <1>4 DEF Pop, Dequeue
  <2>6. qId' \in [Workers -> Prios]
    BY <1>4 DEF Pop, Dequeue
  <2>7. i' \in [Workers -> 0 .. NPrios]
    BY <1>4 DEF Pop, Dequeue
  <2> QED BY <2>1, <2>2, <2>3, <2>4, <2>5, <2>6, <2>7
<1>5. ASSUME NEW w \in Workers, InsertHead(w) PROVE TypeOK'
  BY <1>5 DEF InsertHead
<1>6. ASSUME NEW w \in Workers, PopCount(w) PROVE TypeOK'
  <2>1. queues' \in [Prios -> Seq(Items)]
    BY <1>6 DEF PopCount
  <2>2. headQueue' \in -1 .. NPrios - 1
    BY <1>6 DEF PopCount
  <2>3. headLock' \in Workers \cup {Nobody}
    BY <1>6 DEF PopCount
  <2>4. pc' \in [Workers -> {"idle", "insertHead", "popCount", "scan", "removeHead"}]
    BY <1>6 DEF PopCount
  <2>5. item' \in [Workers -> Items \cup {Nothing}] /\ inserts' \in Nat
    BY <1>6 DEF PopCount
  <2>6. qId' \in [Workers -> Prios]
    BY <1>6 DEF PopCount
  <2>7. i' \in [Workers -> 0 .. NPrios]
    <3>1. i' = i \/ i' = [i EXCEPT ![w] = 0]
      BY <1>6 DEF PopCount
    <3>2. 0 \in 0 .. NPrios
      OBVIOUS
    <3> QED BY <3>1, <3>2
  <2> QED BY <2>1, <2>2, <2>3, <2>4, <2>5, <2>6, <2>7
<1>7. ASSUME NEW w \in Workers, RemoveHead(w) PROVE TypeOK'
  <2>1. queues' \in [Prios -> Seq(Items)]
    BY <1>7 DEF RemoveHead
  <2>2. headQueue' \in -1 .. NPrios - 1
    BY <1>7 DEF RemoveHead
  <2>3. headLock' \in Workers \cup {Nobody}
    BY <1>7 DEF RemoveHead
  <2>4. pc' \in [Workers -> {"idle", "insertHead", "popCount", "scan", "removeHead"}]
    BY <1>7 DEF RemoveHead
  <2>5. item' \in [Workers -> Items \cup {Nothing}] /\ inserts' \in Nat
    BY <1>7 DEF RemoveHead
  <2>6. qId' \in [Workers -> Prios]
    BY <1>7 DEF RemoveHead
  <2>7. i' \in [Workers -> 0 .. NPrios]
    <3>1. i' = i \/ i' = [i EXCEPT ![w] = 0]
      BY <1>7 DEF RemoveHead
    <3>2. 0 \in 0 .. NPrios
      OBVIOUS
    <3> QED BY <3>1, <3>2
  <2> QED BY <2>1, <2>2, <2>3, <2>4, <2>5, <2>6, <2>7
<1>8. ASSUME NEW w \in Workers, ScanFound(w) PROVE TypeOK'
  <2>1. queues' \in [Prios -> Seq(Items)]
    BY <1>8 DEF ScanFound
  <2>2. headQueue' \in -1 .. NPrios - 1
    BY <1>8 DEF ScanFound
  <2>3. headLock' \in Workers \cup {Nobody}
    BY <1>8 DEF ScanFound
  <2>4. pc' \in [Workers -> {"idle", "insertHead", "popCount", "scan", "removeHead"}]
    BY <1>8 DEF ScanFound
  <2>5. item' \in [Workers -> Items \cup {Nothing}] /\ inserts' \in Nat
    BY <1>8 DEF ScanFound
  <2>6. qId' \in [Workers -> Prios]
    BY <1>8 DEF ScanFound
  <2>7. i' \in [Workers -> 0 .. NPrios]
    BY <1>8 DEF ScanFound
  <2> QED BY <2>1, <2>2, <2>3, <2>4, <2>5, <2>6, <2>7
<1>9. ASSUME NEW w \in Workers, ScanNext(w) PROVE TypeOK'
  <2>1. UNCHANGED <<queues, headQueue, headLock, pc, item, qId, inserts>>
    BY <1>9 DEF ScanNext
  <2>2. i' = [i EXCEPT ![w] = i[w] + 1] /\ i[w] < NPrios /\ i[w] \in 0 .. NPrios
    BY <1>9 DEF ScanNext
  <2>3. i[w] + 1 \in 0 .. NPrios
    BY <2>2
  <2>4. i' \in [Workers -> 0 .. NPrios]
    BY <2>2, <2>3
  <2> QED BY <2>1, <2>4
<1>10. ASSUME NEW w \in Workers, ScanEnd(w) PROVE TypeOK'
  BY <1>10 DEF ScanEnd
<1>11. CASE UNCHANGED vars
  BY <1>11 DEF vars
<1> QED BY <1>1, <1>2, <1>3, <1>4, <1>5, <1>6, <1>7, <1>8, <1>9, <1>10, <1>11 DEF Next, Step

\* The head lock's holder is in pop() or in a scan, and serves headQueue.
LEMMA LockStep == TypeOK /\ LockInv /\ ArgInv /\ [Next]_vars => LockInv' /\ ArgInv'
<1> SUFFICES ASSUME TypeOK, LockInv, ArgInv, [Next]_vars PROVE LockInv' /\ ArgInv'
  OBVIOUS
<1> USE DEF TypeOK, LockInv, ArgInv, Prios, Goto
<1>1. ASSUME NEW w \in Workers, NEW x \in Items, Insert(w, x) PROVE LockInv' /\ ArgInv'
  BY <1>1 DEF Insert, Enqueue
<1>2. ASSUME NEW w \in Workers, NEW x \in Items, Remove1(w, x) PROVE LockInv' /\ ArgInv'
  BY <1>2 DEF Remove1
<1>3. ASSUME NEW w \in Workers, PopNone(w) PROVE LockInv' /\ ArgInv'
  BY <1>3 DEF PopNone
<1>4. ASSUME NEW w \in Workers, Pop(w) PROVE LockInv' /\ ArgInv'
  BY <1>4 DEF Pop, Dequeue
<1>5. ASSUME NEW w \in Workers, InsertHead(w) PROVE LockInv' /\ ArgInv'
  <2>1. headLock = Nobody /\ UNCHANGED <<headLock, item, qId>> /\ pc' = [pc EXCEPT ![w] = "idle"]
    BY <1>5 DEF InsertHead
  <2>2. \A v \in Workers : pc[v] \notin {"popCount", "scan"}
    BY <2>1
  <2>3. LockInv'
    BY <2>1, <2>2
  <2>4. ArgInv'
    BY <2>1
  <2> QED BY <2>3, <2>4
<1>6. ASSUME NEW w \in Workers, PopCount(w) PROVE LockInv' /\ ArgInv'
  <2>1. headLock = w /\ UNCHANGED <<headQueue, item, qId>> /\ pc[w] = "popCount"
    BY <1>6 DEF PopCount
  <2>2. \/ pc' = [pc EXCEPT ![w] = "scan"] /\ headLock' = headLock
        \/ pc' = [pc EXCEPT ![w] = "idle"] /\ headLock' = Nobody
    BY <1>6 DEF PopCount
  <2>3. \A v \in Workers \ {w} : pc[v] \notin {"popCount", "scan"}
    BY <2>1
  <2>4. LockInv'
    BY <2>1, <2>2, <2>3
  <2>5. ArgInv'
    BY <2>1, <2>2
  <2> QED BY <2>4, <2>5
<1>7. ASSUME NEW w \in Workers, RemoveHead(w) PROVE LockInv' /\ ArgInv'
  BY <1>7 DEF RemoveHead
<1>8. ASSUME NEW w \in Workers, ScanFound(w) PROVE LockInv' /\ ArgInv'
  BY <1>8 DEF ScanFound
<1>9. ASSUME NEW w \in Workers, ScanNext(w) PROVE LockInv' /\ ArgInv'
  BY <1>9 DEF ScanNext
<1>10. ASSUME NEW w \in Workers, ScanEnd(w) PROVE LockInv' /\ ArgInv'
  BY <1>10 DEF ScanEnd
<1>11. CASE UNCHANGED vars
  BY <1>11 DEF vars
<1> QED BY <1>1, <1>2, <1>3, <1>4, <1>5, <1>6, <1>7, <1>8, <1>9, <1>10, <1>11 DEF Next, Step

-----------------------------------------------------------------------------
\* No step strands an item: an insert() announces it, and a scan moves the
\* head past a list only while whoever filled it has still to announce it.
LEMMA StrandedStep == IInv /\ [Next]_vars => NoneStranded' /\ CountInv' /\ ScanInv'
<1> SUFFICES ASSUME IInv, [Next]_vars PROVE NoneStranded' /\ CountInv' /\ ScanInv'
  OBVIOUS
<1> USE DEF IInv, TypeOK, ArgInv, Prios, Goto
<1>1. ASSUME NEW w \in Workers, NEW x \in Items, Insert(w, x) PROVE NoneStranded' /\ CountInv' /\ ScanInv'
  <2>1. \A p \in Prios : Announcing(p) => Announcing(p)'
    BY <1>1 DEF Insert, Announcing
  <2>2. Announcing(Prio[x])' /\ \A p \in Prios \ {Prio[x]} : queues'[p] = queues[p]
    BY <1>1 DEF Insert, Announcing
  <2>3. NoneStranded'
    BY <1>1, <2>1, <2>2 DEF Insert, LockInv, NoneStranded, CountInv, ScanInv
  <2>4. CountInv'
    BY <1>1, <2>1, <2>2 DEF Insert, LockInv, NoneStranded, CountInv, ScanInv
  <2>5. ScanInv'
    BY <1>1, <2>1, <2>2 DEF Insert, LockInv, NoneStranded, CountInv, ScanInv
  <2> QED BY <2>3, <2>4, <2>5
<1>2. ASSUME NEW w \in Workers, NEW x \in Items, Remove1(w, x) PROVE NoneStranded' /\ CountInv' /\ ScanInv'
  <2>1. \A p \in Prios : Announcing(p) => Announcing(p)'
    BY <1>2 DEF Remove1, Announcing
  <2>2. \A p \in Prios : queues'[p] # <<>> => queues[p] # <<>>
    BY <1>2, RemoveFirstSeq DEF Remove1
  <2>3. NoneStranded'
    BY <1>2, <2>1, <2>2 DEF Remove1, LockInv, NoneStranded, CountInv, ScanInv
  <2>4. CountInv'
    BY <1>2, <2>1, <2>2 DEF Remove1, LockInv, NoneStranded, CountInv, ScanInv
  <2>5. ScanInv'
    BY <1>2, <2>1, <2>2 DEF Remove1, LockInv, NoneStranded, CountInv, ScanInv
  <2> QED BY <2>3, <2>4, <2>5
<1>3. ASSUME NEW w \in Workers, PopNone(w) PROVE NoneStranded' /\ CountInv' /\ ScanInv'
  <2>1. \A p \in Prios : Announcing(p) => Announcing(p)'
    BY <1>3 DEF PopNone, Announcing
  <2>2. queues' = queues
    BY <1>3 DEF PopNone
  <2>3. NoneStranded'
    BY <1>3, <2>1, <2>2 DEF PopNone, LockInv, NoneStranded, CountInv, ScanInv
  <2>4. CountInv'
    BY <1>3, <2>1, <2>2 DEF PopNone, LockInv, NoneStranded, CountInv, ScanInv
  <2>5. ScanInv'
    BY <1>3, <2>1, <2>2 DEF PopNone, LockInv, NoneStranded, CountInv, ScanInv
  <2> QED BY <2>3, <2>4, <2>5
<1>4. ASSUME NEW w \in Workers, Pop(w) PROVE NoneStranded' /\ CountInv' /\ ScanInv'
  <2>1. \A p \in Prios : Announcing(p) => Announcing(p)'
    BY <1>4 DEF Pop, Announcing
  <2>2. \A p \in Prios : queues'[p] # <<>> => queues[p] # <<>>
    BY <1>4 DEF Pop, Dequeue
  <2>3. NoneStranded'
    BY <1>4, <2>1, <2>2 DEF Pop, LockInv, NoneStranded, CountInv, ScanInv
  <2>4. CountInv'
    BY <1>4, <2>1, <2>2 DEF Pop, LockInv, NoneStranded, CountInv, ScanInv
  <2>5. ScanInv'
    BY <1>4, <2>1, <2>2 DEF Pop, LockInv, NoneStranded, CountInv, ScanInv
  <2> QED BY <2>3, <2>4, <2>5
<1>5. ASSUME NEW w \in Workers, InsertHead(w) PROVE NoneStranded' /\ CountInv' /\ ScanInv'
  <2>1. \A p \in Prios : Announcing(p) /\ p # Prio[item[w]] => Announcing(p)'
    BY <1>5 DEF InsertHead, Announcing
  <2>2. queues' = queues /\ headQueue' \in 0 .. Prio[item[w]] /\ (headQueue # -1 => headQueue' <= headQueue)
    BY <1>5 DEF InsertHead, Announcing
  <2>3. NoneStranded'
    <3> SUFFICES ASSUME NEW p \in Prios, queues'[p] # <<>> PROVE headQueue' \in 0 .. p \/ Announcing(p)'
      BY DEF NoneStranded
    <3>1. queues[p] # <<>> /\ (headQueue \in 0 .. p \/ Announcing(p))
      BY <1>5, <2>2 DEF InsertHead, NoneStranded
    <3>2. CASE headQueue \in 0 .. p
      BY <2>2, <3>2
    <3>3. CASE Announcing(p) /\ p # Prio[item[w]]
      BY <2>1, <3>3
    <3>4. CASE p = Prio[item[w]]
      BY <2>2, <3>4
    <3> QED BY <3>1, <3>2, <3>3, <3>4
  <2>4. CountInv'
    BY <1>5, <2>1, <2>2 DEF InsertHead, LockInv, NoneStranded, CountInv, ScanInv
  <2>5. ScanInv'
    BY <1>5, <2>1, <2>2 DEF InsertHead, LockInv, NoneStranded, CountInv, ScanInv
  <2> QED BY <2>3, <2>4, <2>5
<1>6. ASSUME NEW w \in Workers, PopCount(w) PROVE NoneStranded' /\ CountInv' /\ ScanInv'
  <2>1. \A p \in Prios : Announcing(p) => Announcing(p)'
    BY <1>6 DEF PopCount, Announcing
  <2>2. queues' = queues
    BY <1>6 DEF PopCount
  <2>3. NoneStranded'
    BY <1>6, <2>1, <2>2 DEF PopCount, LockInv, NoneStranded, CountInv, ScanInv
  <2>4. CountInv'
    BY <1>6, <2>1, <2>2 DEF PopCount, LockInv, NoneStranded, CountInv, ScanInv
  <2>5. ScanInv'
    <3> SUFFICES ASSUME NEW v \in Workers, pc'[v] = "scan", NEW p \in Prios, queues'[p] # <<>>
                 PROVE  Announcing(p)' \/ (p # qId'[v] /\ p >= i'[v])
      BY DEF ScanInv
    <3>1. v = w
      BY <1>6 DEF PopCount, LockInv
    <3>2. queues[qId[w]] = <<>> /\ i'[w] = 0 /\ qId' = qId
      BY <1>6, <3>1 DEF PopCount
    <3> QED BY <2>2, <3>1, <3>2
  <2> QED BY <2>3, <2>4, <2>5
<1>7. ASSUME NEW w \in Workers, RemoveHead(w) PROVE NoneStranded' /\ CountInv' /\ ScanInv'
  <2>1. \A p \in Prios : Announcing(p) => Announcing(p)'
    BY <1>7 DEF RemoveHead, Announcing
  <2>2. queues' = queues
    BY <1>7 DEF RemoveHead
  <2>3. NoneStranded'
    BY <1>7, <2>1, <2>2 DEF RemoveHead, LockInv, NoneStranded, CountInv, ScanInv
  <2>4. CountInv'
    BY <1>7, <2>1, <2>2 DEF RemoveHead, LockInv, NoneStranded, CountInv, ScanInv
  <2>5. ScanInv'
    <3> SUFFICES ASSUME NEW v \in Workers, pc'[v] = "scan", NEW p \in Prios, queues'[p] # <<>>
                 PROVE  Announcing(p)' \/ (p # qId'[v] /\ p >= i'[v])
      BY DEF ScanInv
    <3>1. v = w
      BY <1>7 DEF RemoveHead, LockInv
    <3>2. queues[qId[w]] = <<>> /\ i'[w] = 0 /\ qId' = qId
      BY <1>7, <3>1 DEF RemoveHead
    <3> QED BY <2>2, <3>1, <3>2
  <2> QED BY <2>3, <2>4, <2>5
<1>8. ASSUME NEW w \in Workers, ScanFound(w) PROVE NoneStranded' /\ CountInv' /\ ScanInv'
  <2>1. \A p \in Prios : Announcing(p) => Announcing(p)'
    BY <1>8 DEF ScanFound, Announcing
  <2>2. queues' = queues
    BY <1>8 DEF ScanFound
  <2>3. NoneStranded'
    BY <1>8, <2>1, <2>2 DEF ScanFound, LockInv, NoneStranded, CountInv, ScanInv
  <2>4. CountInv'
    BY <1>8, <2>1, <2>2 DEF ScanFound, LockInv, NoneStranded, CountInv, ScanInv
  <2>5. ScanInv'
    BY <1>8, <2>1, <2>2 DEF ScanFound, LockInv, NoneStranded, CountInv, ScanInv
  <2> QED BY <2>3, <2>4, <2>5
<1>9. ASSUME NEW w \in Workers, ScanNext(w) PROVE NoneStranded' /\ CountInv' /\ ScanInv'
  <2>1. \A p \in Prios : Announcing(p) => Announcing(p)'
    BY <1>9 DEF ScanNext, Announcing
  <2>2. queues' = queues
    BY <1>9 DEF ScanNext
  <2>3. NoneStranded'
    BY <1>9, <2>1, <2>2 DEF ScanNext, LockInv, NoneStranded, CountInv, ScanInv
  <2>4. CountInv'
    BY <1>9, <2>1, <2>2 DEF ScanNext, LockInv, NoneStranded, CountInv, ScanInv
  <2>5. ScanInv'
    BY <1>9, <2>1, <2>2 DEF ScanNext, LockInv, NoneStranded, CountInv, ScanInv
  <2> QED BY <2>3, <2>4, <2>5
<1>10. ASSUME NEW w \in Workers, ScanEnd(w) PROVE NoneStranded' /\ CountInv' /\ ScanInv'
  <2>1. \A p \in Prios : Announcing(p) => Announcing(p)'
    BY <1>10 DEF ScanEnd, Announcing
  <2>2. queues' = queues
    BY <1>10 DEF ScanEnd
  <2>3. NoneStranded'
    BY <1>10, <2>1, <2>2 DEF ScanEnd, LockInv, NoneStranded, CountInv, ScanInv
  <2>4. CountInv'
    BY <1>10, <2>1, <2>2 DEF ScanEnd, LockInv, NoneStranded, CountInv, ScanInv
  <2>5. ScanInv'
    BY <1>10, <2>1, <2>2 DEF ScanEnd, LockInv, NoneStranded, CountInv, ScanInv
  <2> QED BY <2>3, <2>4, <2>5
<1>11. CASE UNCHANGED vars
  BY <1>11 DEF vars, NoneStranded, CountInv, ScanInv, Announcing
<1> QED BY <1>1, <1>2, <1>3, <1>4, <1>5, <1>6, <1>7, <1>8, <1>9, <1>10, <1>11 DEF Next, Step

LEMMA InitIInv == Init => IInv
  BY DEF Init, IInv, TypeOK, LockInv, ArgInv, NoneStranded, CountInv, ScanInv, Prios

LEMMA StepIInv == IInv /\ [Next]_vars => IInv'
  BY TypeStep, LockStep, StrandedStep DEF IInv

LEMMA AlwaysIInv == Spec => []IInv
  BY InitIInv, StepIInv, PTL DEF Spec

\* The state of the lists, of the head and of every call keeps its type.
THEOREM TypeCorrect == Spec => []TypeOK
<1>1. IInv => TypeOK
  BY DEF IInv
<1> QED BY <1>1, AlwaysIInv, PTL

\* NoneStranded for any number of workers, items and priorities: whatever
\* insert(), pop() and remove() run at once, no list with items in it stays
\* before the list pop() serves.
THEOREM NoItemStranded == Spec => []NoneStranded
<1>1. IInv => NoneStranded
  BY DEF IInv
<1> QED BY <1>1, AlwaysIInv, PTL

\* What a scan of w that ends knows when nobody else is in a call: the lists
\* before the one it stands at, and the one it came from, are empty.
LEMMA ScanAlone ==
  ASSUME IInv, NEW w \in Workers, pc[w] = "scan", \A v \in Workers \ {w} : pc[v] = "idle"
  PROVE  \A p \in Prios : queues[p] # <<>> => p # qId[w] /\ p >= i[w]
<1>1. \A v \in Workers : pc[v] # "insertHead"
  OBVIOUS
<1>2. \A p \in Prios : ~ Announcing(p)
  BY <1>1 DEF Announcing
<1> QED BY <1>2 DEF IInv, ScanInv

\* A scan that ends undisturbed leaves the head at the first list with items in
\* it, or at -1 if there is none.
LEMMA ScanRepairsStep ==
  ASSUME IInv, Next, NEW w \in Workers, pc[w] = "scan", pc'[w] = "idle",
         \A v \in Workers \ {w} : pc[v] = "idle"
  PROVE  HeadIsFirstQueue'
<1> USE DEF Goto
<1>1. pc \in [Workers -> {"idle", "insertHead", "popCount", "scan", "removeHead"}]
  BY DEF IInv, TypeOK
<1>2. i[w] \in 0 .. NPrios
  BY DEF IInv, TypeOK
<1>3. \A p \in Prios : queues[p] # <<>> => p >= i[w]
  BY ScanAlone
<1>4. ScanFound(w) \/ ScanEnd(w)
  <2>1. ASSUME NEW v \in Workers, NEW x \in Items, Insert(v, x) \/ Remove1(v, x) PROVE FALSE
    BY <1>1, <2>1 DEF Insert, Remove1
  <2>2. ASSUME NEW v \in Workers,
               PopNone(v) \/ Pop(v) \/ InsertHead(v) \/ PopCount(v) \/ RemoveHead(v) \/ ScanNext(v)
        PROVE  FALSE
    BY <1>1, <2>2 DEF PopNone, Pop, InsertHead, PopCount, RemoveHead, ScanNext
  <2>3. ASSUME NEW v \in Workers, ScanFound(v) \/ ScanEnd(v) PROVE v = w
    BY <1>1, <2>3 DEF ScanFound, ScanEnd
  <2> QED BY <2>1, <2>2, <2>3 DEF Next, Step
<1>5. CASE ScanFound(w)
  <2>1. headQueue' = i[w] /\ i[w] \in Prios /\ queues' = queues /\ queues[i[w]] # <<>>
    BY <1>2, <1>5 DEF ScanFound, Prios
  <2>2. \A p \in 0 .. headQueue' - 1 : queues'[p] = <<>>
    BY <1>3, <2>1 DEF Prios
  <2> QED BY <2>1, <2>2 DEF HeadIsFirstQueue
<1>6. CASE ScanEnd(w)
  <2>1. headQueue' = -1 /\ queues' = queues /\ i[w] = NPrios
    BY <1>6 DEF ScanEnd
  <2>2. \A p \in Prios : queues'[p] = <<>>
    BY <1>3, <2>1 DEF Prios
  <2> QED BY <2>1, <2>2 DEF HeadIsFirstQueue
<1> QED BY <1>4, <1>5, <1>6

\* ScanRepairsHead for any number of workers, items and priorities: the head
\* that a race of insert() and pop() left at an empty list is exact again after
\* the scan of the next pop(), if no other call overlaps with its end.
THEOREM HeadRepaired == Spec => ScanRepairsHead
<1>1. IInv /\ [Next]_vars => [\A w \in Workers :
        pc[w] = "scan" /\ pc'[w] = "idle" /\ (\A v \in Workers \ {w} : pc[v] = "idle")
          => HeadIsFirstQueue']_vars
  <2> SUFFICES ASSUME IInv, Next, NEW w \in Workers, pc[w] = "scan", pc'[w] = "idle",
                      \A v \in Workers \ {w} : pc[v] = "idle"
               PROVE  HeadIsFirstQueue'
    OBVIOUS
  <2> QED BY ScanRepairsStep
<1> QED BY <1>1, AlwaysIInv, PTL DEF Spec, ScanRepairsHead
=============================================================================
