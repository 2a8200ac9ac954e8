--------------------------- MODULE HardwareIdList ---------------------------
(***************************************************************************)
(* HardwareIdList, the array of the CPUs, banks and streams by hardware    *)
(* identifier, whose valid entries are also linked in the order of their   *)
(* identifiers.  addItem() and removeItem() read the bounds under the read *)
(* lock, let it go, and use what they have read under the write lock.  A   *)
(* write section is one step: the lock is that of MultipleReaderLock.      *)
(***************************************************************************)
EXTENDS Integers, FiniteSets, FiniteSetsExt, Sequences, SequencesExt

CONSTANTS
  Users,         \* threads that add, remove and walk
  Ids,           \* hardware identifiers
  Sizes,         \* of the preallocated array; 0 is none
  MaxOps

INVALID == -1

VARIABLES
  arr,           \* [next, valid] of each entry of the array
  maxIndex, maxAllocatedIndex, firstValidIndex,
  user,          \* of each thread: where it is, what it has read
  members,       \* history: the identifiers that were added and not removed
  unset,         \* history: entries of a new array that nobody has written
  raced,         \* history: a write section used bounds another had changed
  calls

idVars == <<arr, maxIndex, maxAllocatedIndex, firstValidIndex, user, members, unset, raced, calls>>
listVars == <<arr, maxIndex, maxAllocatedIndex, firstValidIndex, members, unset, raced>>

Idle == [at |-> "idle", id |-> INVALID, max |-> INVALID, alloc |-> INVALID, stale |-> FALSE,
         cursor |-> INVALID, stays |-> {}, seen |-> {}]

\* initialize(): an array that is handed over is cleared.
Init ==
  /\ \E n \in Sizes :
       /\ arr = [i \in 0 .. n - 1 |-> [next |-> 0, valid |-> FALSE]]
       /\ maxAllocatedIndex = n - 1
  /\ maxIndex = INVALID /\ firstValidIndex = INVALID
  /\ user = [u \in Users |-> Idle]
  /\ members = {} /\ unset = {} /\ raced = FALSE /\ calls = 0

Begin(u, r) ==
  /\ user[u].at = "idle" /\ calls < MaxOps /\ calls' = calls + 1
  /\ user' = [user EXCEPT ![u] = r] /\ UNCHANGED listVars

\* The end of a write section: the others have read what is now out of date,
\* and a walk no longer has to visit what was removed.
Wrote(u, removed) ==
  /\ user' = [v \in Users |->
                IF v = u THEN Idle
                ELSE [user[v] EXCEPT !.stale = @ \/ user[v].at \in {"add", "remove"},
                                     !.stays = @ \ removed]]
  /\ raced' = (raced \/ user[u].stale)
  /\ UNCHANGED calls

-----------------------------------------------------------------------------
AddRead(u, id) ==
  Begin(u, [Idle EXCEPT !.at = "add", !.id = id, !.max = maxIndex, !.alloc = maxAllocatedIndex])

Grows(u) == user[u].id > user[u].alloc \/ user[u].alloc = INVALID

\* The new array has the old entries; those between them and the new one are
\* as they came from memAlloc().
AddGrown(u) ==
  LET id == user[u].id
      linked == IF user[u].max = INVALID THEN arr ELSE [arr EXCEPT ![user[u].max].next = id]
      copied == {i \in 0 .. user[u].alloc : i \in DOMAIN arr}
  IN  /\ user[u].at = "add" /\ Grows(u)
      /\ \E junk \in SUBSET (0 .. id - 1 \ copied) :
           arr' = [i \in 0 .. id |->
                     IF i = id THEN [next |-> INVALID, valid |-> TRUE]
                     ELSE IF i \in copied THEN linked[i]
                     ELSE [next |-> 0, valid |-> i \in junk]]
      /\ unset' = (unset \cup (0 .. id - 1 \ copied)) \ {id}
      /\ firstValidIndex' = IF user[u].max = INVALID THEN id ELSE firstValidIndex
      /\ maxIndex' = id /\ maxAllocatedIndex' = id
      /\ members' = members \cup {id}
      /\ Wrote(u, {})
AddFails(u) ==
  /\ user[u].at = "add" /\ Grows(u)
  /\ user' = [user EXCEPT ![u] = Idle] /\ UNCHANGED <<listVars, calls>>

\* The identifiers along the links, from the first one.
Chain[i \in Ids \cup {INVALID}, n \in 0 .. Cardinality(Ids) + 1] ==
  IF i = INVALID \/ n = 0 \/ i \notin DOMAIN arr THEN <<>> ELSE <<i>> \o Chain[arr[i].next, n - 1]
InOrder == Chain[firstValidIndex, Cardinality(Ids) + 1]

\* The entry after which the loop puts a new one that is neither the first nor
\* the last, or the entry itself, which is left where it is.
Before(id) == {i \in ToSet(InOrder) : arr[i].next > id}
Linked_BeforeEqual(id) ==
  IF Before(id) = {} THEN arr
  ELSE LET i == Min(Before(id)) IN [arr EXCEPT ![id].next = arr[i].next, ![i].next = id]
Linked(id) ==
  IF Before(id) = {} \/ Min(Before(id)) = id THEN arr
  ELSE LET i == Min(Before(id)) IN [arr EXCEPT ![id].next = arr[i].next, ![i].next = id]

AddInPlace(u) ==
  LET id == user[u].id
      last == user[u].max
  IN  /\ user[u].at = "add" /\ ~Grows(u) /\ id \in DOMAIN arr
      /\ \/ /\ firstValidIndex = INVALID
            /\ firstValidIndex' = id /\ maxIndex' = id
            /\ arr' = [arr EXCEPT ![id] = [next |-> INVALID, valid |-> TRUE]]
         \/ /\ firstValidIndex # INVALID /\ id < firstValidIndex
            /\ firstValidIndex' = id /\ UNCHANGED maxIndex
            /\ arr' = [arr EXCEPT ![id] = [next |-> firstValidIndex, valid |-> TRUE]]
         \/ /\ firstValidIndex # INVALID /\ id >= firstValidIndex /\ id > last
            /\ maxIndex' = id /\ UNCHANGED firstValidIndex
            \* With no entry when the bounds were read the link is written
            \* before the array.
            /\ arr' = [i \in DOMAIN arr |->
                         IF i = id THEN [next |-> INVALID, valid |-> TRUE]
                         ELSE IF i = last THEN [arr[i] EXCEPT !.next = id] ELSE arr[i]]
         \/ /\ firstValidIndex # INVALID /\ id >= firstValidIndex /\ id <= last
            /\ arr' = [Linked(id) EXCEPT ![id].valid = TRUE]
            /\ UNCHANGED <<firstValidIndex, maxIndex>>
      /\ members' = members \cup {id} /\ unset' = unset \ {id}
      /\ UNCHANGED maxAllocatedIndex
      /\ Wrote(u, {})
-----------------------------------------------------------------------------
RemoveRead(u, id) ==
  /\ id <= maxIndex
  /\ Begin(u, [Idle EXCEPT !.at = "remove", !.id = id, !.max = maxIndex])

RemoveHead(u) ==
  LET id == user[u].id IN
  /\ user[u].at = "remove" /\ firstValidIndex = id
  /\ firstValidIndex' = arr[id].next
  /\ maxIndex' = IF id = maxIndex THEN INVALID ELSE maxIndex
  /\ arr' = [arr EXCEPT ![id].valid = FALSE]
  /\ members' = members \ {id} /\ UNCHANGED <<maxAllocatedIndex, unset>>
  /\ Wrote(u, {id})

RemoveOther(u) ==
  LET id == user[u].id
      prev == {i \in ToSet(InOrder) : arr[i].next = id}
  IN  /\ user[u].at = "remove" /\ firstValidIndex # id
      /\ IF prev = {} THEN UNCHANGED <<arr, maxIndex, members>>
         ELSE /\ maxIndex' = IF id = maxIndex THEN Min(prev) ELSE maxIndex
              /\ arr' = [arr EXCEPT ![Min(prev)].next = arr[id].next, ![id].valid = FALSE]
              /\ members' = members \ {id}
      /\ UNCHANGED <<maxAllocatedIndex, firstValidIndex, unset>>
      /\ Wrote(u, {id})
-----------------------------------------------------------------------------
(* A loop from begin() to end(): getNextItem() finds the first entry, then *)
(* the one that the current entry names.                                   *)

WalkBegin(u) ==
  /\ firstValidIndex # INVALID
  /\ Begin(u, [Idle EXCEPT !.at = "walk", !.cursor = firstValidIndex, !.stays = members,
                           !.seen = {firstValidIndex}])
WalkNext(u) ==
  /\ user[u].at = "walk" /\ user[u].cursor \in DOMAIN arr
  /\ LET next == arr[user[u].cursor].next IN
     user' = [user EXCEPT ![u] =
                IF next = INVALID THEN [@ EXCEPT !.at = "walked"]
                ELSE [@ EXCEPT !.cursor = next, !.seen = @ \cup {next}]]
  /\ UNCHANGED <<listVars, calls>>
WalkEnd(u) ==
  /\ user[u].at = "walked" /\ user' = [user EXCEPT ![u] = Idle] /\ UNCHANGED <<listVars, calls>>

\* After a race an entry may be outside the array: that is not followed further.
Next == ~raced /\ \E u \in Users :
  \/ \E id \in Ids : AddRead(u, id) \/ RemoveRead(u, id)
  \/ AddGrown(u) \/ AddFails(u) \/ AddInPlace(u) \/ RemoveHead(u) \/ RemoveOther(u)
  \/ WalkBegin(u) \/ WalkNext(u) \/ WalkEnd(u)
-----------------------------------------------------------------------------
\* getItem()
Found(id) == id <= maxIndex /\ id >= firstValidIndex /\ id \in DOMAIN arr /\ arr[id].valid

\* HardwareIdList: unless two threads change the list at once, the links go
\* through the identifiers that were added and not removed, in order;
\* getItem() finds these and no others, but for the entries of a grown array
\* that nobody has written; and a walk meets every identifier that stays in
\* the list meanwhile, whatever is added, removed or grown under it.
IdsInOrder ==
  ~raced =>
    /\ InOrder = SetToSortSeq(members, <)
    /\ maxIndex = IF members = {} THEN INVALID ELSE Max(members)
    /\ \A id \in Ids \ unset : Found(id) <=> id \in members
    /\ \A u \in Users : user[u].at = "walked" => user[u].stays \subseteq user[u].seen
=============================================================================
