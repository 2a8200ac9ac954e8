---------------------------- MODULE ReadersWriter ----------------------------
(***************************************************************************)
(* What a kernel lock promises its users: readers share the resource with  *)
(* each other, a writer shares it with nobody, and only who is inside      *)
(* leaves.  A lock with no readers is a mutex.                             *)
(***************************************************************************)
CONSTANT Users

VARIABLES reading, writing

vars == <<reading, writing>>

Init == reading = {} /\ writing = {}

StartReading(u) ==
  /\ writing = {} /\ u \notin reading
  /\ reading' = reading \union {u} /\ writing' = writing

StopReading(u) ==
  /\ u \in reading
  /\ reading' = reading \ {u} /\ writing' = writing

StartWriting(u) ==
  /\ writing = {} /\ reading = {}
  /\ writing' = {u} /\ reading' = reading

StopWriting(u) ==
  /\ writing = {u}
  /\ writing' = {} /\ reading' = reading

Next ==
  \E u \in Users :
    StartReading(u) \/ StopReading(u) \/ StartWriting(u) \/ StopWriting(u)

Spec == Init /\ [][Next]_vars
=============================================================================
