---------------------------- MODULE MCCredentials ----------------------------
(* Small instances of Credentials for TLC. *)
EXTENDS Credentials, TLC

CONSTANTS p1, p2, s1, s2, s3, m1, m2

\* Two identities at one provider, one at another.
TwoAndOne == s1 :> p1 @@ s2 :> p1 @@ s3 :> p2

\* One address in two spellings.
ToFirst == [m \in Mail |-> m1]

Symmetry == Permutations(User) \cup Permutations({s1, s2}) \cup Permutations(Request)

\* Bounds.  A behaviour draws a pending link or a reset code, not both: the two
\* parts meet only in the password, which other actions set as well.  What is
\* said of codes and of wrong guesses is said of calm behaviours, so the others
\* are followed without codes and only until a guess is wrong.  The second spelling
\* of the address is followed in calm behaviours.
Followed ==
    /\ calm \/ \A u \in User : mail[u] # m2
    /\ calm \/ \A r \in Request : job[r].mail # m2
    /\ \/ calm /\ \A l \in Link : link[l].state = "undrawn"
       \/ /\ \A c \in Code : code[c].state = "undrawn"
          /\ calm \/ \A l \in Link : guesses[l] = 0
=============================================================================
