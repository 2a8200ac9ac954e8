------------------------------ MODULE Allocator -----------------------------
(***************************************************************************)
(* What the kernel's allocators of pages and frames promise: they give out *)
(* contiguous units that nobody has, and take back what was given.  A unit *)
(* that comes back is free, or it is lost.  Free units can be reserved, and*)
(* units that nobody has provided.                                         *)
(***************************************************************************)
EXTENDS Integers

CONSTANT Units    \* a set of integers

VARIABLES
  free,    \* what can be given out
  used     \* what clients have

Given == used' \ used
Returned == used \ used'

Contiguous(S) == \A x, y \in S : \A z \in x .. y : z \in S

Init == free \subseteq Units /\ used = {}

Get ==
  /\ Given # {} /\ Contiguous(Given) /\ Given \subseteq free
  /\ used' = used \cup Given /\ free' = free \ Given

Release ==
  /\ Returned # {} /\ used' = used \ Returned
  /\ free \subseteq free' /\ free' \subseteq free \cup Returned

Reserve == free' \subseteq free /\ UNCHANGED used

Provide == free \subseteq free' /\ free' \subseteq Units \ used /\ UNCHANGED used

Next == Get \/ Release \/ Reserve \/ Provide

Spec == Init /\ [][Next]_<<free, used>>
=============================================================================
