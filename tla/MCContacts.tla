------------------------------ MODULE MCContacts -------------------------------
(* Small instances of Contacts for TLC. *)
EXTENDS Contacts, TLC

Symmetry == Permutations(User) \cup Permutations(Request)

Asking == \E a \in Ask : ask[a].status # "undrawn"

\* Bounds.  A behaviour has connection requests for one contact, or two contacts
\* one of which may become a member of the other, or a circle until it is gone:
\* the three meet in the contacts only.  Overlaps and failures are followed for
\* one contact and its connection requests.  Once a card was deleted by hand, or
\* a membership ended with an account, nobody archives the circle and contacts
\* keep their links.
Followed ==
    \/ circle = "none" /\ nest = {} /\ Cardinality(Drawn) <= 1
    \/ calm /\ ~Asking /\ circle = "none" /\ Cardinality(Drawn) <= 2
    \/ /\ calm /\ ~Asking /\ nest = {} /\ circle = "there"
       /\ letGo \cup left # {} =>
              /\ active = members
              /\ \A s \in There : subject[s].kind = "group" \/ subject[s].user # NoUser

\* Of the contacts in a circle's time at most one is older than the circle, a
\* card or a contact of a future fellow; the others are the circle's.  They lose
\* their link but get no other one, and only cards change their kind.
OfTheCircle ==
    /\ circle = "none" /\ circle' # "none" =>
           /\ Cardinality(Drawn) <= 1
           /\ \A s \in Drawn : \/ subject[s] = Row("group", subject[s].owner, NoUser)
                               \/ Knows(subject[s].owner, subject[s].user)
    /\ circle # "none" =>
           /\ job' = job => Drawn' = Drawn
           /\ \A r \in Request : job[r] = Idle =>
                  /\ job'[r].step # "relink"
                  /\ job'[r].step = "retype" => job'[r].subject \in Cards /\ job'[r].word # "family"
=============================================================================
