---------------------------- MODULE RefreshTokens ----------------------------
(***************************************************************************)
(* The server-side refresh tokens: the table auth_refresh_token and the    *)
(* handlers that read and write it (controllers/authHelpers.go and the     *)
(* login, refresh and logout endpoints above it).                          *)
(*                                                                         *)
(* Every SQL statement of these handlers is its own transaction.  A        *)
(* refresh is three of them: the SELECT of the presented token, the UPDATE *)
(* that revokes it, and the INSERT of its successor; between two of them   *)
(* any other request may run.  A login and a logout are one statement      *)
(* each, so they are one action.  Requests that are turned away without a  *)
(* write (an unknown or an expired token) leave no trace and have no       *)
(* action.                                                                 *)
(***************************************************************************)

CONSTANTS
    User,
    Token,      \* plaintexts crypto/rand can return; none is drawn twice
    Family,     \* family identifiers, drawn the same way
    OwnerOf,    \* the user whose login draws a family
    Request,    \* concurrent slots for POST /auth/refresh
    NoToken,
    NoFamily

ASSUME OwnerAssumption == OwnerOf \in [Family -> User]
ASSUME NoneAssumption == NoToken \notin Token /\ NoFamily \notin Family

VARIABLES
    stored,     \* tokens with a row in auth_refresh_token
    family,     \* its family_id, NoFamily for a token not drawn yet
    revoked,    \* its revoked flag
    expired,    \* whether expires_at is in the past
    pc,         \* the statement a refresh executes next
    presented,  \* the record a refresh has read
    parent,     \* history: the token a refresh exchanged for this one
    replayed,   \* history: families revoked because of a reuse
    overlapped  \* history: whether two refreshes were ever under way together

vars == <<stored, family, revoked, expired, pc, presented, parent, replayed, overlapped>>

Step == {"idle", "revokeFamily", "revokePresented", "issue"}

Issued == {t \in Token : family[t] # NoFamily}

FamilyRows(f) == {t \in stored : family[t] = f}

\* The tokens validateAndRotateRefreshToken would accept, but for their age.
Live(f) == FamilyRows(f) \ revoked

TypeOK ==
    /\ family \in [Token -> Family \cup {NoFamily}]
    /\ stored \subseteq Issued
    /\ revoked \subseteq Issued
    /\ expired \subseteq Issued
    /\ pc \in [Request -> Step]
    /\ presented \in [Request -> Issued \cup {NoToken}]
    /\ \A r \in Request : pc[r] # "idle" => presented[r] \in Issued
    /\ parent \in [Token -> Issued \cup {NoToken}]
    /\ replayed \subseteq Family
    /\ overlapped \in BOOLEAN

Init ==
    /\ stored = {}
    /\ family = [t \in Token |-> NoFamily]
    /\ revoked = {}
    /\ expired = {}
    /\ pc = [r \in Request |-> "idle"]
    /\ presented = [r \in Request |-> NoToken]
    /\ parent = [t \in Token |-> NoToken]
    /\ replayed = {}
    /\ overlapped = FALSE

-----------------------------------------------------------------------------
\* The INSERT of issueRefreshToken: t is new, not revoked and not expired.
IssueRefreshToken(t, f, from) ==
    /\ t \notin Issued
    /\ stored' = stored \cup {t}
    /\ family' = [family EXCEPT ![t] = f]
    /\ parent' = [parent EXCEPT ![t] = from]
    /\ UNCHANGED <<revoked, expired, replayed, overlapped>>

\* A successful login of any kind draws a new family.  When the INSERT fails
\* the login succeeds without a refresh token and nothing is written.
Login(t, f) ==
    /\ \A s \in Token : family[s] # f
    /\ IssueRefreshToken(t, f, NoToken)
    /\ UNCHANGED <<pc, presented>>

Goto(r, step) == pc' = [pc EXCEPT ![r] = step]

\* The handler returns and its local record goes with it.
Return(r) == Goto(r, "idle") /\ presented' = [presented EXCEPT ![r] = NoToken]

Read(r, t, step) ==
    /\ pc[r] = "idle"
    /\ t \in stored
    /\ Goto(r, step)
    /\ presented' = [presented EXCEPT ![r] = t]
    /\ overlapped' = (overlapped \/ \E q \in Request : pc[q] # "idle")
    /\ UNCHANGED <<stored, family, revoked, expired, parent, replayed>>

\* The SELECT finds a token that is revoked already.
LookupRevoked(r, t) == t \in revoked /\ Read(r, t, "revokeFamily")

\* Mutant of LookupCurrent: revoked is not looked at.
LookupCurrentAny(r, t) == t \notin expired /\ Read(r, t, "revokePresented")

\* The SELECT finds a token that is neither revoked nor expired.
LookupCurrent(r, t) ==
    /\ t \notin revoked
    /\ t \notin expired
    /\ Read(r, t, "revokePresented")

\* Mutant of RevokeFamily: only the presented token is revoked.
RevokeFamilyOne(r) ==
    /\ pc[r] = "revokeFamily"
    /\ revoked' = revoked \cup ({presented[r]} \cap stored)
    /\ replayed' = replayed \cup {family[presented[r]]}
    /\ Return(r)
    /\ UNCHANGED <<stored, family, expired, parent, overlapped>>

\* Reuse: one UPDATE revokes every row of the family.
RevokeFamily(r) ==
    /\ pc[r] = "revokeFamily"
    /\ LET f == family[presented[r]] IN
           /\ revoked' = revoked \cup FamilyRows(f)
           /\ replayed' = replayed \cup {f}
    /\ Return(r)
    /\ UNCHANGED <<stored, family, expired, parent, overlapped>>

\* Mutant of RevokePresented: the UPDATE is left out.
RevokePresentedSkipped(r) ==
    /\ pc[r] = "revokePresented"
    /\ Goto(r, "issue")
    /\ UNCHANGED <<stored, family, revoked, expired, presented, parent, replayed, overlapped>>

\* The UPDATE by primary key: it does not look at revoked again.
RevokePresented(r) ==
    /\ pc[r] = "revokePresented"
    /\ revoked' = revoked \cup ({presented[r]} \cap stored)
    /\ Goto(r, "issue")
    /\ UNCHANGED <<stored, family, expired, presented, parent, replayed, overlapped>>

\* The successor joins the family of the record that was read.
IssueSuccessor(r, t) ==
    /\ pc[r] = "issue"
    /\ IssueRefreshToken(t, family[presented[r]], presented[r])
    /\ Return(r)

\* The next statement fails, or the server stops: what was written stays.
\* A failed family revocation is only logged, so it too ends here.
Abandon(r) ==
    /\ pc[r] # "idle"
    /\ Return(r)
    /\ UNCHANGED <<stored, family, revoked, expired, parent, replayed, overlapped>>

\* Mutant of RevokeRefreshToken: whether the token exists is not looked at.
RevokeUnknownToken(t) ==
    /\ revoked' = revoked \cup {t}
    /\ UNCHANGED <<stored, family, expired, pc, presented, parent, replayed, overlapped>>

\* Logout revokes the presented token; an unknown one is no error.
RevokeRefreshToken(t) ==
    /\ revoked' = revoked \cup ({t} \cap stored)
    /\ UNCHANGED <<stored, family, expired, pc, presented, parent, replayed, overlapped>>

\* Account deletion removes the user's rows; requests in flight go on.
DeleteUserTokens(u) ==
    /\ stored' = {t \in stored : OwnerOf[family[t]] # u}
    /\ UNCHANGED <<family, revoked, expired, pc, presented, parent, replayed, overlapped>>

\* expires_at passes.
Expire(t) ==
    /\ t \in stored \ expired
    /\ expired' = expired \cup {t}
    /\ UNCHANGED <<stored, family, revoked, pc, presented, parent, replayed, overlapped>>

Refresh(r) ==
    \/ \E t \in Token : LookupRevoked(r, t) \/ LookupCurrent(r, t)
    \/ RevokeFamily(r)
    \/ RevokePresented(r)
    \/ \E t \in Token : IssueSuccessor(r, t)
    \/ Abandon(r)

Next ==
    \/ \E t \in Token, f \in Family : Login(t, f)
    \/ \E r \in Request : Refresh(r)
    \/ \E t \in Token : RevokeRefreshToken(t) \/ Expire(t)
    \/ \E u \in User : DeleteUserTokens(u)

Spec == Init /\ [][Next]_vars

-----------------------------------------------------------------------------
(* Safety *)

\* Whatever the interleaving, a token that was exchanged for another is of no
\* further use: its row is revoked, or gone with its account.  This is what
\* the order "revoke, then issue" of validateAndRotateRefreshToken buys, and
\* why a failed INSERT costs the session rather than leaving two tokens.
RotatedIsRetired ==
    \A t \in Token :
        parent[t] # NoToken => parent[t] \notin stored \ revoked

\* Every token of a family descends from one login: a refresh passes on the
\* family of the token it exchanged, and no two logins share a family.
FamilyIsOneLogin ==
    /\ \A t \in Issued : parent[t] # NoToken => family[parent[t]] = family[t]
    /\ \A s, t \in Issued :
           (parent[s] = NoToken /\ parent[t] = NoToken /\ family[s] = family[t])
               => s = t

\* A family whose reuse was detected has no token left that can be exchanged
\* ("the entire Family_ID is revoked as a theft signal", models/authToken.go).
\* It is so while refreshes do not overlap, and not always when they do.
ReplayedFamilyIsRevoked == \A f \in replayed : Live(f) = {}

\* At most one token of a family can be exchanged at any time: rotation
\* replaces a token, it does not add one.  True until refreshes overlap.
OneLivePerFamily == ~overlapped => \A f \in Family : \A s, t \in Live(f) : s = t

(* The promise, and what it sees of the table: one refresh at a time keeps it. *)
CurrentIn(S) == IF S = {} THEN NoToken ELSE CHOOSE t \in S : TRUE

Begun == {family[t] : t \in Token}

StatusOf(f) ==
    IF f \in replayed THEN "ended"
    ELSE IF Live(f) # {} THEN "open"
    ELSE IF f \in Begun THEN "retired" ELSE "new"

statusSeen == [f \in Family |-> StatusOf(f)]

currentSeen == [f \in Family |-> CurrentIn(Live(f))]

spentSeen == {t \in Issued : t \notin stored \/ t \in revoked}

Families == INSTANCE SessionFamilies WITH
    status <- statusSeen, current <- currentSeen, spent <- spentSeen

\* As long as refreshes do not overlap, the table and its handlers implement the
\* promise of SessionFamilies: at most one live token, always a new one, and
\* none after a reuse.
ImplementsFamilies ==
    Families!Init /\ [][~overlapped' => Families!Next]_(Families!vars)
=============================================================================
