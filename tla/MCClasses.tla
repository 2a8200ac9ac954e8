------------------------------ MODULE MCClasses -----------------------------
(***************************************************************************)
(* Three container classes of __kclasses: PrioQueue, with three threads to *)
(* queue, two of the more favoured priority and one of those sticky;       *)
(* SortedHeapDoubleList; and HardwareIdList, that two threads use.  One    *)
(* behaviour is about one of them.                                         *)
(***************************************************************************)
EXTENDS PrioQueue

CONSTANTS t1, t2, t3, Nodes, Criteria, NULL, Users, Ids, Sizes, MaxOps

MCPrio == t1 :> 1 @@ t2 :> 1 @@ t3 :> 2

VARIABLES class, head, tail, nItems, next, prev, criterion
VARIABLES arr, maxIndex, maxAllocatedIndex, firstValidIndex, user, members, unset, raced, calls

listVars == <<head, tail, nItems, next, prev, criterion>>
idVars == <<arr, maxIndex, maxAllocatedIndex, firstValidIndex, user, members, unset, raced, calls>>
allVars == <<class, queues, headQueue, headLock, pc, item, qId, i, inserts, head, tail,
             nItems, next, prev, criterion, arr, maxIndex, maxAllocatedIndex,
             firstValidIndex, user, members, unset, raced, calls>>

L == INSTANCE SortedHeapDoubleList
H == INSTANCE HardwareIdList

Classes == {"PrioQueue", "SortedHeapDoubleList", "HardwareIdList"}
MCInit ==
  /\ class \in Classes /\ Init /\ L!Init /\ H!Init
  /\ class # "HardwareIdList" => maxAllocatedIndex = -1

OfQueue(A) == class = "PrioQueue" /\ A /\ UNCHANGED <<class, listVars, idVars>>
OfList(A) == class = "SortedHeapDoubleList" /\ A /\ UNCHANGED <<class, vars, idVars>>
OfIds(A) == class = "HardwareIdList" /\ A /\ UNCHANGED <<class, vars, listVars>>

MCNext ==
  \/ OfQueue(Next) \/ OfList(L!Next) \/ OfIds(H!Next)
  \/ OfIds(UNCHANGED idVars)   \* the threads are done with the list

MCSpec == MCInit /\ [][MCNext]_allVars

MCFairSpec ==
  /\ MCSpec
  /\ \A w \in Workers : SF_allVars(OfQueue(Step(w)))
  /\ SF_allVars(OfQueue(\E w \in Workers : Pop(w)))

\* SortedHeapDoubleList: the list is in the order of its criteria.
Sorted == L!Sorted

\* SortedHeapDoubleList: and the same from both ends, with as many nodes as it
\* counts.
ListInOrder == L!WellLinked /\ L!Sorted

\* HardwareIdList: unless two threads change it at once, the links and getItem()
\* agree with what was added and removed, and a walk meets all that stays.
IdsInOrder == H!IdsInOrder
=============================================================================
