------------------------------- MODULE MCPrayers -------------------------------
(* Small instances of Prayers for TLC. *)
EXTENDS Prayers, TLC

CONSTANTS u1, u2, c1, w1, w2

\* u1 leads the circle; u2 is the admin of the runs that have one.
MCLeader == c1 :> u1

Symmetry == Permutations(Request)

Full == [title |-> w1, text |-> w2, answered |-> "yes", dated |-> FALSE]
TitleOnly == [Full EXCEPT !.text = Empty, !.answered = "none"]
TextOnly == [Full EXCEPT !.title = Empty]

OneBody == {Full}
Bodies == {Full, TitleOnly, TextOnly}

\* Bounds.  A behaviour shares one prayer, which is for the one contact there is
\* (a group that is nobody's link, or another), and circles, members and accounts
\* come and go; or it changes and deletes contacts that are no groups, with prayers
\* that have one row at most and are not shared; or the groups of members, with one
\* such prayer.  Overlaps and failures are followed for one contact and one prayer
\* without rows.
AtMost(n, Id, row) == Cardinality({i \in Id : row[i].state # "undrawn"}) <= n
NoCircle == circles = Circle /\ members = {m \in Circle \X User : m[2] = Leader[m[1]]}
NoGroup == \A s \in There : contact[s].kind = "other" /\ contact[s].circle = None
Unlinked == \A s \in There : contact[s].user = None
Followed ==
    \/ /\ AtMost(1, Contact, contact) /\ AtMost(1, Prayer, prayer)
       /\ NoGroup \/ Unlinked
       /\ calm \/ (NoCircle /\ NoGroup /\ accounts = User /\ AtMost(0, Access, access))
    \/ calm /\ accounts = User /\ AtMost(1, Access, access) /\ NoCircle /\ NoGroup
    \/ calm /\ accounts = User /\ AtMost(1, Access, access) /\ AtMost(1, Prayer, prayer) /\ Unlinked
=============================================================================
