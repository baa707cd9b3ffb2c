--------------------------- MODULE MCSubscription ---------------------------
(* Small instances of Subscription for TLC. *)
EXTENDS Subscription, TLC

\* Sync requests are interchangeable.
Symmetry == Permutations(Sync)
=============================================================================
