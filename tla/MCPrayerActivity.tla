--------------------------- MODULE MCPrayerActivity ----------------------------
(* A small instance of PrayerActivity for TLC. *)
EXTENDS PrayerActivity, TLC

Symmetry == Permutations(User \ {Creator}) \cup Permutations(Request)

NoComments == comment = [k \in Comment |-> NoComment]
NoNotices == \A n \in Notice : window[n] = {}
NoShares == audience = {} /\ present = {} /\ posted = {} /\ told = [u \in User |-> 0]
Jobs(steps) == \A r \in Request : job[r].step \in steps \cup {"idle"}
Everyone(as) == \A u \in User : member[u] \in as

\* Bounds.  A behaviour has comments and their notices, comments that are private
\* or hidden, edits and their notices, prayers, or one share up to its end; what
\* happens elsewhere is cut down to what each of them looks at.
Noticed ==
    /\ NoShares /\ ~analytics.found /\ muted = {} /\ direct = {Creator}
    /\ Jobs({"insert", "list", "gate", "debounce", "send"})
    /\ \A r \in Request : ~job[r].flag /\ job[r].kind = "comment"
    /\ \A k \in Comment : comment[k].state # "gone" /\ ~comment[k].private /\ ~comment[k].hidden
    /\ Everyone(IF shared THEN {"active", "archived"} ELSE {"active"})
    /\ member[Creator] = "active" /\ Cardinality(Active) >= 2 /\ ~subject.linked
Moderated ==
    /\ NoShares /\ ~analytics.found /\ NoNotices /\ muted = {} /\ direct = {Creator}
    /\ Jobs({"insert", "list", "delete", "hide", "toggle"})
    /\ Everyone({"active"}) /\ shared /\ ~subject.linked
Edited ==
    /\ NoShares /\ ~analytics.found /\ NoComments /\ muted = {}
    /\ Jobs({"gate", "debounce", "send"})
    /\ \A u \in User \ {Creator} : member[u] = "active" /\ u \notin direct
Prayed ==
    /\ NoShares /\ NoComments /\ NoNotices /\ muted = {} /\ direct = {Creator}
    /\ Jobs({"first", "again"}) /\ Everyone({"active", "out"}) /\ subject.user = None
Shared ==
    /\ NoComments /\ NoNotices /\ ~analytics.found /\ Jobs({})
    /\ Everyone({"active", "archived"}) /\ member[Creator] = "active" /\ Creator \notin muted
    /\ Cardinality(muted) <= 1
    /\ Creator \in direct /\ Cardinality(direct) <= 2
    /\ subject.linked \/ subject.user = None
    /\ posted # {} \/ NoShares

Followed == Noticed \/ Moderated \/ Edited \/ Prayed \/ Shared
=============================================================================
