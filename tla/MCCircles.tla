------------------------------ MODULE MCCircles ------------------------------
(* Small instances of Circles for TLC. *)
EXTENDS Circles, TLC

\* Users without the admin role are interchangeable, and so are the slots.
Symmetry == Permutations(User \ Admin) \cup Permutations(Request)

\* A bound on the racing run: behaviours with an invite are followed until an
\* account or the circle is gone, a membership is archived, or the invite is not
\* closed because its UPDATE failed, after which it admits anyone.  Those without
\* one are followed to their end, for what becomes of the owner.
Followed ==
    \/ accounts = User /\ circle # "deleted" /\ active = members /\ unspent = {}
    \/ \A i \in Invite : invite[i] = "undrawn"
=============================================================================
