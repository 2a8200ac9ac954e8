----------------------------- MODULE PrioQueue -----------------------------
(***************************************************************************)
(* PrioQueue<T>: one FIFO list per priority, each under its own WaitLock,  *)
(* and headQueue, the number of the list pop() serves, under a lock of its *)
(* own.  pop() and the tail of remove() hold the head lock while they visit*)
(* the lists; insert() takes it only after its item is in its list.        *)
(*                                                                         *)
(* WaitLock implements Mutex (WaitLockProofs), so a lock is its holder.  A *)
(* critical section that touches one list, or only headQueue, is one step. *)
(***************************************************************************)
EXTENDS Integers, SequencesExt

CONSTANTS
  Workers,    \* the CPUs, or threads, that call in
  Items,
  NPrios,     \* nPrios
  Prio,       \* Prio[item]: the prio every call passes for the item
  Sticky,     \* the items inserted with PRIOQUEUE_INSERT_FRONT
  MaxInserts, \* bound on the number of insert() calls
  Nothing,    \* NULL
  Nobody      \* the holder of a free lock

Prios == 0 .. NPrios - 1

ASSUME NPriosAssumption == NPrios \in Nat \ {0}
ASSUME PrioAssumption == Prio \in [Items -> Prios]
ASSUME NobodyAssumption == Nobody \notin Workers
ASSUME MaxInsertsAssumption == MaxInserts \in Nat
ASSUME StickyAssumption == Sticky \subseteq Items

VARIABLES
  queues,     \* queues[p].q.rsrc
  headQueue,  \* headQueue.rsrc
  headLock,   \* headQueue.lock: its holder
  pc,
  item,       \* the argument of insert() and remove(), the result of pop()
  qId,        \* pop()'s qId, remove()'s prio
  i,          \* the loop variable of both
  inserts     \* bound: insert() calls so far

vars == <<queues, headQueue, headLock, pc, item, qId, i, inserts>>

Init ==
  /\ queues = [p \in Prios |-> <<>>]
  /\ headQueue = -1 /\ headLock = Nobody
  /\ pc = [w \in Workers |-> "idle"]
  /\ item = [w \in Workers |-> Nothing]
  /\ qId = [w \in Workers |-> 0]
  /\ i = [w \in Workers |-> 0]
  /\ inserts = 0

Goto(w, l) == pc' = [pc EXCEPT ![w] = l]

\* The scheduler inserts a thread that is in no queue and in nobody's hands.
Loose(x) ==
  /\ \A p \in Prios : \A n \in 1 .. Len(queues[p]) : queues[p][n] # x
  /\ \A w \in Workers : pc[w] # "idle" => item[w] # x

\* Queue::insert()
Enqueue(q, x) == IF x \in Sticky THEN <<x>> \o q ELSE Append(q, x)

\* Queue::pop()
Dequeue(q) == IF q = <<>> THEN q ELSE Tail(q)

Insert(w, x) ==
  /\ pc[w] = "idle" /\ Loose(x) /\ inserts < MaxInserts
  /\ queues' = [queues EXCEPT ![Prio[x]] = Enqueue(@, x)]
  /\ item' = [item EXCEPT ![w] = x]
  /\ inserts' = inserts + 1
  /\ Goto(w, "insertHead")
  /\ UNCHANGED <<headQueue, headLock, qId, i>>

\* Variant: the head is only set when there is none.
InsertHeadOnlyFirst(w) ==
  /\ pc[w] = "insertHead" /\ headLock = Nobody
  /\ headQueue' = IF headQueue = -1 THEN Prio[item[w]] ELSE headQueue
  /\ Goto(w, "idle")
  /\ UNCHANGED <<queues, headLock, item, qId, i, inserts>>

\* Variant: lists numbered from one.
InsertHeadOneBased(w) ==
  /\ pc[w] = "insertHead" /\ headLock = Nobody
  /\ headQueue' = Prio[item[w]] + 1
  /\ Goto(w, "idle")
  /\ UNCHANGED <<queues, headLock, item, qId, i, inserts>>

InsertHead(w) ==
  /\ pc[w] = "insertHead" /\ headLock = Nobody
  /\ headQueue' = IF headQueue = -1 \/ Prio[item[w]] < headQueue
                    THEN Prio[item[w]] ELSE headQueue
  /\ Goto(w, "idle")
  /\ UNCHANGED <<queues, headLock, item, qId, i, inserts>>

\* pop() that finds headQueue == -1.
PopNone(w) ==
  /\ pc[w] = "idle" /\ headLock = Nobody /\ headQueue = -1
  /\ item' = [item EXCEPT ![w] = Nothing]
  /\ UNCHANGED <<queues, headQueue, headLock, pc, qId, i, inserts>>

\* pop() up to and including queues[qId].pop(): the list may be empty.
Pop(w) ==
  /\ pc[w] = "idle" /\ headLock = Nobody /\ headQueue # -1
  /\ headLock' = w
  /\ qId' = [qId EXCEPT ![w] = headQueue]
  /\ item' = [item EXCEPT ![w] = IF queues[headQueue] = <<>> THEN Nothing
                                 ELSE Head(queues[headQueue])]
  /\ queues' = [queues EXCEPT ![headQueue] = Dequeue(@)]
  /\ Goto(w, "popCount")
  /\ UNCHANGED <<headQueue, i, inserts>>

\* `queues[qId].getNItems() == 0'
PopCount(w) ==
  /\ pc[w] = "popCount"
  /\ \/ /\ queues[qId[w]] = <<>>
        /\ Goto(w, "scan")
        /\ i' = [i EXCEPT ![w] = 0]
        /\ UNCHANGED headLock
     \/ /\ queues[qId[w]] # <<>>
        /\ Goto(w, "idle")
        /\ headLock' = Nobody
        /\ UNCHANGED i
  /\ UNCHANGED <<queues, headQueue, item, qId, inserts>>

\* Variant: the scan leaves the head at the list it came from.
ScanFoundOld(w) ==
  /\ pc[w] = "scan" /\ i[w] < NPrios
  /\ i[w] # qId[w] /\ queues[i[w]] # <<>>
  /\ UNCHANGED headQueue
  /\ headLock' = Nobody
  /\ Goto(w, "idle")
  /\ UNCHANGED <<queues, item, qId, i, inserts>>

\* The loop of pop() and remove() meets a list with items in it.
ScanFound(w) ==
  /\ pc[w] = "scan" /\ i[w] < NPrios
  /\ i[w] # qId[w] /\ queues[i[w]] # <<>>
  /\ headQueue' = i[w]
  /\ headLock' = Nobody
  /\ Goto(w, "idle")
  /\ UNCHANGED <<queues, item, qId, i, inserts>>

ScanNext(w) ==
  /\ pc[w] = "scan" /\ i[w] < NPrios
  /\ i[w] = qId[w] \/ queues[i[w]] = <<>>
  /\ i' = [i EXCEPT ![w] = @ + 1]
  /\ UNCHANGED <<queues, headQueue, headLock, pc, item, qId, inserts>>

\* Variant: the loop stops one list short.
ScanEndShort(w) ==
  /\ pc[w] = "scan" /\ i[w] >= NPrios - 1
  /\ headQueue' = -1
  /\ headLock' = Nobody
  /\ Goto(w, "idle")
  /\ UNCHANGED <<queues, item, qId, i, inserts>>

ScanEnd(w) ==
  /\ pc[w] = "scan" /\ i[w] = NPrios
  /\ headQueue' = -1
  /\ headLock' = Nobody
  /\ Goto(w, "idle")
  /\ UNCHANGED <<queues, item, qId, i, inserts>>

\* Queue::remove(): the item may not be there.
Remove1(w, x) ==
  /\ pc[w] = "idle"
  /\ queues' = [queues EXCEPT ![Prio[x]] = RemoveFirst(@, x)]
  /\ item' = [item EXCEPT ![w] = x]
  /\ qId' = [qId EXCEPT ![w] = Prio[x]]
  /\ Goto(w, "removeHead")
  /\ UNCHANGED <<headQueue, headLock, i, inserts>>

\* remove() from the head lock's acquire() to the loop, or to the end.
RemoveHead(w) ==
  /\ pc[w] = "removeHead" /\ headLock = Nobody
  /\ \/ /\ qId[w] = headQueue /\ queues[qId[w]] = <<>>
        /\ headLock' = w
        /\ i' = [i EXCEPT ![w] = 0]
        /\ Goto(w, "scan")
     \/ /\ qId[w] # headQueue \/ queues[qId[w]] # <<>>
        /\ Goto(w, "idle")
        /\ UNCHANGED <<headLock, i>>
  /\ UNCHANGED <<queues, headQueue, item, qId, inserts>>

Step(w) ==
  \/ InsertHead(w) \/ PopCount(w) \/ RemoveHead(w)
  \/ ScanFound(w) \/ ScanNext(w) \/ ScanEnd(w)

Next ==
  \E w \in Workers :
    \/ \E x \in Items : Insert(w, x) \/ Remove1(w, x)
    \/ PopNone(w) \/ Pop(w) \/ Step(w)

Spec == Init /\ [][Next]_vars

\* A call that has begun runs to its end, and some worker goes on calling
\* pop(), as an idle CPU does in TaskStream::pull().
Fairness ==
  /\ \A w \in Workers : SF_vars(Step(w))
  /\ SF_vars(\E w \in Workers : Pop(w))

FairSpec == Spec /\ Fairness
-----------------------------------------------------------------------------
TypeOK ==
  /\ queues \in [Prios -> Seq(Items)]
  /\ headQueue \in -1 .. NPrios - 1
  /\ headLock \in Workers \cup {Nobody}
  /\ pc \in [Workers -> {"idle", "insertHead", "popCount", "scan", "removeHead"}]
  /\ item \in [Workers -> Items \cup {Nothing}]
  /\ qId \in [Workers -> Prios]
  /\ i \in [Workers -> 0 .. NPrios]
  /\ inserts \in Nat

\* An insert() whose item is in list p and whose head update is to come.
Announcing(p) == \E w \in Workers : pc[w] = "insertHead" /\ Prio[item[w]] = p

(***************************************************************************)
(* No item is stranded: whenever nobody holds the head lock, each list with*)
(* items in it is at or after the list pop() would serve, or an insert()   *)
(* is about to make it so.  The scan of pop() and remove() visits the lists*)
(* one by one while inserts land behind it.                                *)
(***************************************************************************)
NoneStranded ==
  headLock = Nobody =>
    \A p \in Prios : queues[p] # <<>> => headQueue \in 0 .. p \/ Announcing(p)

\* Every item that is in a list is taken out of it if pop() goes on being
\* called, although the head may be stale and pop() return NULL.
EverybodyServed ==
  \A x \in Items :
    (\E p \in Prios : x \in ToSet(queues[p])) ~> (\A p \in Prios : x \notin ToSet(queues[p]))

(***************************************************************************)
(* prioQueue.h says of headQueue "Q number of the first queue with items in*)
(* it. -1 if all Qs empty".  It is not so between calls either: pop() may  *)
(* take the item of an insert() that then sets the head to an empty list.  *)
(***************************************************************************)
HeadIsFirstQueue ==
  (\A w \in Workers : pc[w] = "idle") =>
    \/ headQueue = -1 /\ \A p \in Prios : queues[p] = <<>>
    \/ /\ headQueue \in Prios /\ queues[headQueue] # <<>>
       /\ \A p \in 0 .. headQueue - 1 : queues[p] = <<>>

\* A scan that ends while nobody else is inside a call leaves the head exact:
\* a stale head costs one pop() that returns NULL, not two.
ScanRepairsHead ==
  [][\A w \in Workers :
       pc[w] = "scan" /\ pc'[w] = "idle" /\ (\A v \in Workers \ {w} : pc[v] = "idle")
         => HeadIsFirstQueue']_vars
=============================================================================
