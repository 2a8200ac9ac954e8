----------------------- MODULE SortedHeapDoubleList ------------------------
(***************************************************************************)
(* SortedHeapDoubleList: a doubly linked list that is meant to be in the   *)
(* ascending order of its criteria, pointer by pointer.  Every operation   *)
(* is one critical section of the list's lock.  A node is a member of Nodes*)
(* while it is allocated; an item is named by its node.                    *)
(***************************************************************************)
EXTENDS Integers, SequencesExt

CONSTANTS Nodes, Criteria, NULL

VARIABLES
  head, tail, nItems,       \* list.rsrc
  next, prev, criterion     \* the nodes; NULL for a node that is free

vars == <<head, tail, nItems, next, prev, criterion>>

Init ==
  /\ head = NULL /\ tail = NULL /\ nItems = 0
  /\ next = [n \in Nodes |-> NULL] /\ prev = [n \in Nodes |-> NULL]
  /\ criterion = [n \in Nodes |-> NULL]

Free == {n \in Nodes : criterion[n] = NULL}
-----------------------------------------------------------------------------
(* addItem(), one action for each of its cases; n is the new node.         *)

New(n, k) == n \in Free /\ criterion' = [criterion EXCEPT ![n] = k] /\ nItems' = nItems + 1

AddToEmpty(n, k) ==
  /\ head = NULL
  /\ New(n, k)
  /\ head' = n /\ tail' = n
  /\ next' = [next EXCEPT ![n] = NULL] /\ prev' = [prev EXCEPT ![n] = NULL]

LinkAfterTail(n) ==
  /\ next' = [next EXCEPT ![tail] = n, ![n] = NULL]
  /\ prev' = [prev EXCEPT ![n] = tail]
  /\ tail' = n
  /\ UNCHANGED head

LinkBeforeHead(n) ==
  /\ next' = [next EXCEPT ![n] = head]
  /\ prev' = [prev EXCEPT ![n] = NULL, ![head] = n]
  /\ head' = n
  /\ UNCHANGED tail

\* Variant: the second node goes after the first, whichever is less.
AddToOneAfter(n, k) ==
  /\ head # NULL /\ head = tail
  /\ New(n, k)
  /\ LinkAfterTail(n)

AddToOne(n, k) ==
  /\ head # NULL /\ head = tail
  /\ New(n, k)
  /\ IF k >= criterion[head] THEN LinkAfterTail(n) ELSE LinkBeforeHead(n)

AddAtHead(n, k) ==
  /\ head # tail /\ criterion[head] > k
  /\ New(n, k)
  /\ LinkBeforeHead(n)

AddAtTail(n, k) ==
  /\ head # tail /\ criterion[head] <= k /\ criterion[tail] <= k
  /\ New(n, k)
  /\ LinkAfterTail(n)

\* The first node that is not greater than the new one is the head: the scan
\* starts there, and AddAtHead took the other case.
AddInMiddle(n, k) ==
  /\ head # tail /\ criterion[head] <= k /\ criterion[tail] > k
  /\ New(n, k)
  /\ next' = [next EXCEPT ![n] = next[head], ![head] = n]
  /\ prev' = [prev EXCEPT ![n] = head, ![next[head]] = n]
  /\ UNCHANGED <<head, tail>>
-----------------------------------------------------------------------------
(* removeItem(), popFromHead(), popFromTail()                              *)

Delete(n) == criterion' = [criterion EXCEPT ![n] = NULL] /\ nItems' = nItems - 1

RemoveItem(n) ==
  /\ n \notin Free
  /\ Delete(n)
  /\ IF head = n
     THEN head' = next[n] /\ UNCHANGED next
     ELSE next' = [next EXCEPT ![prev[n]] = next[n]] /\ UNCHANGED head
  /\ IF tail = n
     THEN tail' = prev[n] /\ UNCHANGED prev
     ELSE prev' = [prev EXCEPT ![next[n]] = prev[n]] /\ UNCHANGED tail

PopFromHead ==
  /\ head # NULL
  /\ Delete(head)
  /\ prev' = IF next[head] # NULL THEN [prev EXCEPT ![next[head]] = NULL] ELSE prev
  /\ head' = next[head]
  /\ tail' = IF tail = head THEN NULL ELSE tail
  /\ UNCHANGED next

PopFromTail ==
  /\ tail # NULL
  /\ Delete(tail)
  /\ next' = IF prev[tail] # NULL THEN [next EXCEPT ![prev[tail]] = NULL] ELSE next
  /\ tail' = prev[tail]
  /\ head' = IF tail = head THEN NULL ELSE head
  /\ UNCHANGED prev

Next ==
  \/ \E n \in Nodes, k \in Criteria :
       AddToEmpty(n, k) \/ AddToOne(n, k) \/ AddAtHead(n, k) \/ AddAtTail(n, k) \/ AddInMiddle(n, k)
  \/ \E n \in Nodes : RemoveItem(n)
  \/ PopFromHead
  \/ PopFromTail

Spec == Init /\ [][Next]_vars
-----------------------------------------------------------------------------
\* The nodes met from node n on along the links f, at most one more than exist.
Walk(f, n) ==
  LET walk[i \in 0 .. Len(SetToSeq(Nodes)) + 1] ==
        IF i = 0 THEN <<n>>
        ELSE LET w == walk[i - 1] IN
             IF Last(w) = NULL THEN w ELSE Append(w, f[Last(w)])
  IN Front(walk[Len(SetToSeq(Nodes)) + 1])

List == Walk(next, head)

\* The list reads the same from its tail backwards as from its head forwards,
\* has every node that is allocated once, and counts them: getNItems() is
\* what TimerQueue::cancel() decides on to stop the timer.
WellLinked ==
  /\ Walk(prev, tail) = Reverse(List)
  /\ ToSet(List) = Nodes \ Free
  /\ Len(List) = nItems

\* "queues of sorted timer request objects" (timerQueue.cpp).  So they are as
\* long as the list never has more than three items.
Sorted ==
  \A i, j \in 1 .. Len(List) : i < j => criterion[List[i]] <= criterion[List[j]]
=============================================================================
