------------------------------ MODULE Spawning ------------------------------
(***************************************************************************)
(* Ids of processes and threads, handed out by a WrapAroundCounter         *)
(* (include/__kclasses/wrapAroundCounter.h), and the objects made for them *)
(* by several CPUs at once: ProcessTrib::spawnDistributary                 *)
(* (kernel/common/processTrib/processTrib.cpp) and                         *)
(* ProcessStream::spawnThread (kernel/common/process.cpp, thread.cpp).     *)
(*                                                                         *)
(* kind says which of the two a behaviour is about: the array of processes *)
(* or the threads of one process.                                          *)
(***************************************************************************)
EXTENDS Naturals, Sequences, FiniteSets

CONSTANTS
  Spawners,     \* threads that spawn, by CPU
  AttrOf,       \* what they run with: [affinity, policy, prio]
  Parent,       \* the affinity of their process
  StartVal, MaxVal, Classes, DefaultClass, Requests,
  MaxSpawns     \* bound on the spawns of a behaviour

Ids == StartVal .. MaxVal

VARIABLES
  kind,         \* "process" or "thread"
  arr,          \* the array indexed by id; 0 is NULL
  nextVal,      \* the counter
  round,        \* how often it wrapped
  objs,         \* the objects: [id, round, state, ...]
  nThreads,     \* ProcessStream::nThreads
  nSpawns, spawn    \* the calls so far, and the one each spawner is in

spawnVars == <<kind, arr, nextVal, round, objs, nThreads, nSpawns, spawn>>

Idle == [pc |-> "idle"]
Init ==
  /\ kind \in {"process", "thread"}
  /\ arr = [i \in Ids |-> 0] /\ nextVal = StartVal /\ round = 0
  /\ objs = <<>> /\ nThreads = 0 /\ nSpawns = 0 /\ spawn = [s \in Spawners |-> Idle]

-----------------------------------------------------------------------------
(* The counter.  One look from nextVal on; when there is nothing, another  *)
(* from the start, with the lock let go in between.                        *)

Vacant == {i \in nextVal .. MaxVal : arr[i] = 0}
Goto(s, c) == spawn' = [spawn EXCEPT ![s] = c]

Beyond(i) == i + 1
getNextValue(s, otherwise) ==
  IF Vacant # {}
  THEN LET i == CHOOSE i \in Vacant : \A j \in Vacant : i <= j
       IN  /\ nextVal' = Beyond(i) /\ UNCHANGED round
           /\ Goto(s, [pc |-> "id", id |-> i, round |-> round])
  ELSE nextVal' = StartVal /\ round' = round + 1 /\ Goto(s, otherwise)

\* getNewProcessId, getNewThreadId; no id at all ends the spawn.
getNewId(s) ==
  /\ spawn[s].pc = "idle" /\ nSpawns < MaxSpawns /\ nSpawns' = nSpawns + 1
  /\ getNextValue(s, [pc |-> "again"])
  /\ UNCHANGED <<kind, arr, objs, nThreads>>
secondTry(s) ==
  /\ spawn[s].pc = "again" /\ getNextValue(s, Idle)
  /\ UNCHANGED <<kind, arr, objs, nThreads, nSpawns>>

Object(s, state) == [id |-> spawn[s].id, round |-> spawn[s].round, state |-> state]

-----------------------------------------------------------------------------
(* Processes.                                                              *)

\* The object, its affinity, name, arguments and streams; when one of them
\* fails the id is simply not used.
initialize(s) ==
  /\ kind = "process" /\ spawn[s].pc = "id"
  /\ \/ /\ objs' = Append(objs, Object(s, "made"))
        /\ Goto(s, [pc |-> "made", o |-> Len(objs) + 1])
     \/ UNCHANGED objs /\ Goto(s, Idle)
  /\ UNCHANGED <<kind, arr, nextVal, round, nThreads, nSpawns>>

setSlot(s) ==
  /\ spawn[s].pc = "made"
  /\ LET o == spawn[s].o IN arr' = [arr EXCEPT ![objs[o].id] = o] /\ objs' = [objs EXCEPT ![o].state = "live"]
  /\ Goto(s, [spawn[s] EXCEPT !.pc = "slotted"])
  /\ UNCHANGED <<kind, nextVal, round, nThreads, nSpawns>>

\* The first thread; without it the process is deleted, and then its slot
\* is cleared.
firstThread(s) ==
  /\ spawn[s].pc = "slotted"
  /\ \/ Goto(s, Idle) /\ UNCHANGED objs
     \/ objs' = [objs EXCEPT ![spawn[s].o].state = "deleted"] /\ Goto(s, [spawn[s] EXCEPT !.pc = "clear"])
  /\ UNCHANGED <<kind, arr, nextVal, round, nThreads, nSpawns>>
clearSlot(s) ==
  /\ spawn[s].pc = "clear"
  /\ arr' = [arr EXCEPT ![objs[spawn[s].o].id] = 0] /\ Goto(s, Idle)
  /\ UNCHANGED <<kind, nextVal, round, objs, nThreads, nSpawns>>

-----------------------------------------------------------------------------
(* Threads.  A request is [affinity: a set of CPUs, empty for NULL,        *)
(* pinherit, policy, prioFlag, prio, dormant].                             *)

inheritAffinity(s, r) ==
  IF r.affinity # {} THEN r.affinity ELSE IF r.pinherit THEN Parent ELSE AttrOf[s].affinity

inheritSchedPolicy(s, r) == IF r.policy # "INVALID" THEN r.policy ELSE AttrOf[s].policy

\* A priority is that of a class, or one of its own.  The flag that tells
\* that the spawner has one of its own is looked for among other flags, so
\* that the thread shares it.
inheritSchedPrio(s, r) ==
  CASE r.prioFlag = "SET" -> [of |-> "self", prio |-> r.prio]
    [] r.prioFlag = "STINHERIT" -> [of |-> s, prio |-> AttrOf[s].prio]
    [] r.prioFlag = "PRIOCLASS_SET" /\ r.prio \in DOMAIN Classes -> [of |-> "class", prio |-> Classes[r.prio]]
    [] OTHER -> [of |-> "class", prio |-> Classes[DefaultClass]]

\* In the array as soon as it is there.
allocateNewThread(s) ==
  /\ kind = "thread" /\ spawn[s].pc = "id"
  /\ \/ /\ objs' = Append(objs, Object(s, "unscheduled"))
        /\ arr' = [arr EXCEPT ![spawn[s].id] = Len(objs) + 1] /\ nThreads' = nThreads + 1
        /\ Goto(s, [pc |-> "build", o |-> Len(objs) + 1])
     \/ UNCHANGED <<objs, arr, nThreads>> /\ Goto(s, Idle)
  /\ UNCHANGED <<kind, nextVal, round, nSpawns>>

\* Its bitmap, its stacks, what it inherits and its context; a failure
\* leaves it where it is in the array.
spawnThread(s, r) ==
  LET o == spawn[s].o IN
  /\ spawn[s].pc = "build"
  /\ \/ objs' = [objs EXCEPT ![o] = [id |-> @.id, round |-> @.round, by |-> s, request |-> r,
                                     state |-> IF r.dormant THEN "dormant" ELSE "scheduled",
                                     affinity |-> inheritAffinity(s, r), policy |-> inheritSchedPolicy(s, r),
                                     schedPrio |-> inheritSchedPrio(s, r)]]
     \/ UNCHANGED objs
  /\ Goto(s, Idle)
  /\ UNCHANGED <<kind, arr, nextVal, round, nThreads, nSpawns>>

Next ==
  \E s \in Spawners :
    \/ getNewId(s) \/ secondTry(s)
    \/ initialize(s) \/ setSlot(s) \/ firstThread(s) \/ clearSlot(s)
    \/ allocateNewThread(s) \/ \E r \in Requests : spawnThread(s, r)

Spec == Init /\ [][Next]_spawnVars

-----------------------------------------------------------------------------
(* Properties.                                                             *)

HasId == {s \in Spawners : spawn[s].pc = "id"}
Alive == {o \in DOMAIN objs : objs[o].state # "deleted"}

=============================================================================
