--------------------------- MODULE MCDisplayOrder ----------------------------
(* Small instances of DisplayOrder for TLC. *)
EXTENDS DisplayOrder, TLC

Symmetry == Permutations(Item) \cup Permutations(Request)

Busy == {r \in Request : job[r] # Idle}

\* Bound: a tidy list is followed through every overlap of two requests, and
\* once it is not tidy through one new request at a time.
Followed == tidy \/ Cardinality(Busy') <= Cardinality(Busy) \/ Busy = {}
=============================================================================
