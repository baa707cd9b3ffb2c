-------------------------- MODULE MCCircleAllowance --------------------------
(* Small instances of CircleAllowance for TLC. *)
EXTENDS CircleAllowance, TLC

\* Circles are interchangeable, and so are the slots.
Symmetry == Permutations(Circle) \cup Permutations(Request)
=============================================================================
