------------------------------- MODULE FreeTier -------------------------------
(***************************************************************************)
(* What a user is promised and held to.  On the free tier they never add   *)
(* to their circles beyond Limit, and within any window they take back at  *)
(* most Budget circles at a charge; taking some, whether by creating,      *)
(* joining or restoring, is one indivisible step.  A pass, granted to      *)
(* someone who is premium at that moment, or an admin, lifts both for one  *)
(* request, which is then not charged.  Nothing is ever taken away when a  *)
(* subscription ends.                                                      *)
(***************************************************************************)
EXTENDS Naturals, FiniteSets

CONSTANTS
    Circle, Limit, Budget, IsAdmin,
    MayEnrol    \* whether circles are also entered without asking

VARIABLES
    held,       \* the circles the user is active in
    charges,    \* charged restores inside the window
    premium,
    pass

vars == <<held, charges, premium, pass>>

Init == held = {} /\ charges = 0 /\ ~premium /\ ~pass

Within(S, n) == Cardinality(held \cup S) <= Limit /\ charges + n <= Budget

Take(S, n) ==
    /\ S \cap held = {}
    /\ IF pass \/ IsAdmin THEN n = 0 ELSE Within(S, n)
    /\ n <= Cardinality(S)
    /\ held' = held \cup S
    /\ charges' = charges + n
    /\ pass' = FALSE
    /\ UNCHANGED premium

Enrol(c) ==
    /\ MayEnrol
    /\ held' = held \cup {c}
    /\ pass' = FALSE
    /\ UNCHANGED <<charges, premium>>

Release(S) == held' = held \ S /\ pass' = FALSE /\ UNCHANGED <<charges, premium>>

\* The oldest charge leaves the window.
Forget == charges > 0 /\ charges' = charges - 1 /\ UNCHANGED <<held, premium, pass>>

Subscribe == premium' = ~premium /\ UNCHANGED <<held, charges, pass>>

Grant == (premium \/ IsAdmin) /\ pass' = TRUE /\ UNCHANGED <<held, charges, premium>>

Next ==
    \/ \E S \in SUBSET Circle : Release(S) \/ \E n \in 0..Budget : Take(S, n)
    \/ \E c \in Circle : Enrol(c)
    \/ Forget \/ Subscribe \/ Grant

Spec == Init /\ [][Next]_vars
=============================================================================
