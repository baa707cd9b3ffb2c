--------------------------- MODULE SessionFamilies ---------------------------
(***************************************************************************)
(* What rotating refresh tokens promise.  A login begins a family.  From   *)
(* then on the family has at most one token that can be exchanged; the     *)
(* exchange first retires it and then renews the family with a token never *)
(* used before; and a family that was ended, because a retired token was   *)
(* presented again, is never renewed.                                      *)
(***************************************************************************)

CONSTANTS Token, Family, NoToken

VARIABLES
    status,     \* of each family
    current,    \* the one token of each family that can be exchanged
    spent       \* tokens that could once be exchanged and never will again

vars == <<status, current, spent>>

Status == {"new", "open", "retired", "ended"}

Init ==
    /\ status = [f \in Family |-> "new"]
    /\ current = [f \in Family |-> NoToken]
    /\ spent = {}

\* A token never seen in any family.
Fresh(t) == t \notin spent /\ \A f \in Family : current[f] # t

CurrentOf(F) == {current[f] : f \in F} \ {NoToken}

\* A login, or the renewal of a family whose token was retired.
Open(f, t, from) ==
    /\ status[f] = from
    /\ Fresh(t)
    /\ status' = [status EXCEPT ![f] = "open"]
    /\ current' = [current EXCEPT ![f] = t]
    /\ UNCHANGED spent

\* The current tokens of the families F are spent together, F taking a status.
Close(F, as) ==
    /\ status' = [f \in Family |-> IF f \in F THEN as ELSE status[f]]
    /\ current' = [f \in Family |-> IF f \in F THEN NoToken ELSE current[f]]
    /\ spent' = spent \cup CurrentOf(F)

Begin(f, t) == Open(f, t, "new")

Renew(f, t) == Open(f, t, "retired")

Retire(F) == (\A f \in F : status[f] = "open") /\ Close(F, "retired")

End(f) == status[f] # "new" /\ Close({f}, "ended")

Next ==
    \/ \E f \in Family, t \in Token : Begin(f, t) \/ Renew(f, t)
    \/ \E F \in SUBSET Family : Retire(F)
    \/ \E f \in Family : End(f)

Spec == Init /\ [][Next]_vars
=============================================================================
