-------------------------- MODULE CredentialsProofs --------------------------
(***************************************************************************)
(* What holds of accounts, identities, pending links and reset codes for   *)
(* any users, providers, limits and overlapping requests.                  *)
(***************************************************************************)
EXTENDS Credentials, FiniteSetTheorems, TLAPS

USE ProviderAssumption, AttemptsAssumption, NoneAssumption

-----------------------------------------------------------------------------
(* Jobs *)

LEMMA IdleOK == Idle \in Job /\ Idle.step = "idle" /\ Holds(Idle)
  BY DEF Job, Idle, Step, Holds

\* A field at a time.
LEMMA FieldOf ==
  ASSUME NEW i \in Job
  PROVE  /\ \A x \in Step : LET k == [i EXCEPT !.step = x] IN
              /\ k \in Job /\ k.step = x /\ k.user = i.user /\ k.sub = i.sub
              /\ k.link = i.link /\ k.code = i.code /\ k.attempts = i.attempts /\ k.flag = i.flag
         /\ \A x \in User : LET k == [i EXCEPT !.user = x] IN
              /\ k \in Job /\ k.step = i.step /\ k.user = x /\ k.sub = i.sub
              /\ k.link = i.link /\ k.code = i.code /\ k.attempts = i.attempts /\ k.flag = i.flag
         /\ \A x \in Sub \cup {NoSub} : LET k == [i EXCEPT !.sub = x] IN
              /\ k \in Job /\ k.step = i.step /\ k.user = i.user /\ k.sub = x
              /\ k.link = i.link /\ k.code = i.code /\ k.attempts = i.attempts /\ k.flag = i.flag
         /\ \A x \in Mail \cup {NoMail} : LET k == [i EXCEPT !.mail = x] IN
              /\ k \in Job /\ k.step = i.step /\ k.user = i.user /\ k.sub = i.sub
              /\ k.link = i.link /\ k.code = i.code /\ k.attempts = i.attempts /\ k.flag = i.flag
         /\ \A x \in Link : LET k == [i EXCEPT !.link = x] IN
              /\ k \in Job /\ k.step = i.step /\ k.user = i.user /\ k.sub = i.sub
              /\ k.link = x /\ k.code = i.code /\ k.attempts = i.attempts /\ k.flag = i.flag
         /\ \A x \in Code : LET k == [i EXCEPT !.code = x] IN
              /\ k \in Job /\ k.step = i.step /\ k.user = i.user /\ k.sub = i.sub
              /\ k.link = i.link /\ k.code = x /\ k.attempts = i.attempts /\ k.flag = i.flag
         /\ \A x \in Nat : LET k == [i EXCEPT !.attempts = x] IN
              /\ k \in Job /\ k.step = i.step /\ k.user = i.user /\ k.sub = i.sub
              /\ k.link = i.link /\ k.code = i.code /\ k.attempts = x /\ k.flag = i.flag
         /\ \A x \in BOOLEAN : LET k == [i EXCEPT !.flag = x] IN
              /\ k \in Job /\ k.step = i.step /\ k.user = i.user /\ k.sub = i.sub
              /\ k.link = i.link /\ k.code = i.code /\ k.attempts = i.attempts /\ k.flag = x
  BY DEF Job

JobsOK == job \in [Request -> Job] /\ \A r \in Request : Holds(job[r])

\* What requests hold stays true as rows come and go.
Grows ==
    /\ accounts \subseteq accounts'
    /\ \A l \in Link : link[l].state # "undrawn" => link'[l].state # "undrawn"
    /\ \A c \in Code : code[c].user \in User => code'[c].user = code[c].user

LEMMA HoldsGrow ==
  ASSUME Grows
  PROVE  \A j : Holds(j) => Holds(j)'
  BY DEF Grows, Holds

\* A step of one slot to a job that holds what it should.
LEMMA PutJob ==
  ASSUME JobsOK, Grows, NEW r \in Request, NEW j \in Job, Holds(j),
         job' = [job EXCEPT ![r] = j]
  PROVE  JobsOK'
  BY HoldsGrow DEF JobsOK

LEMMA KeepJobs ==
  ASSUME JobsOK, Grows, UNCHANGED job
  PROVE  JobsOK'
  BY HoldsGrow DEF JobsOK

-----------------------------------------------------------------------------
(* Rows *)

ProfilesOK ==
    /\ accounts \subseteq User
    /\ mail \in [User -> Mail \cup {NoMail}]
    /\ password \subseteq accounts
    /\ named \subseteq Sub
    /\ \A u \in User \ accounts : mail[u] = NoMail
    /\ \A u, v \in User : u # v /\ mail[u] = mail[v] => mail[u] = NoMail

IdentitiesOK ==
    /\ linked \in [Sub -> accounts \cup {NoUser}]
    /\ \A s, t \in Sub : s # t /\ ProviderOf[s] = ProviderOf[t] /\ linked[s] = linked[t]
                             => linked[s] = NoUser

LinksOK ==
    /\ link \in [Link -> LinkRow]
    /\ \A l \in Link : link[l].state # "undrawn" =>
           link[l].user \in accounts /\ link[l].sub \in Sub
    /\ guesses \in [Link -> Nat] /\ claims \in [Link -> Nat]

CodesOK ==
    /\ code \in [Code -> CodeRow]
    /\ \A c \in Code : code[c].user \in accounts \cup {NoUser}
    /\ \A c \in Code : code[c].state = "undrawn" <=> code[c].user = NoUser
    /\ verified \in [Code -> Nat]

-----------------------------------------------------------------------------
(* What each step leaves alone *)

LEMMA ArriveChanges ==
  ASSUME NEW r \in Request, Arrive(r)
  PROVE  /\ UNCHANGED <<profiles, links, resets>>
         /\ \E j : Start(r, j)
  BY DEF Arrive, OAuthLogin, ConfirmLink, OAuthLink, OAuthUnlink, VerifyResetCode, ResetPassword

LEMMA AdvanceChanges ==
  ASSUME NEW r \in Request, Advance(r)
  PROVE  /\ UNCHANGED profiles \/ CreateCommit(r) \/ ResetWrite(r)
         /\ UNCHANGED linked \/ CreateCommit(r) \/ ConfirmClaim(r) \/ LinkInsert(r)
                             \/ UnlinkDelete(r)
         /\ UNCHANGED link \/ PendSweep(r) \/ PendInsert(r) \/ ConfirmGuess(r)
                           \/ ConfirmClaim(r) \/ LinkDrop(r)
         /\ UNCHANGED guesses \/ ConfirmUser(r)
         /\ UNCHANGED claims \/ ConfirmClaim(r)
         /\ UNCHANGED resets \/ VerifyCount(r) \/ VerifyCountFails(r) \/ ResetMark(r)
<1> USE DEF profiles, links, resets
<1>1. CASE LoginMail(r) \/ PendSweep(r) \/ PendInsert(r) \/ CreateName(r)
  BY <1>1 DEF LoginMail, PendSweep, PendInsert, CreateName
<1>2. CASE CreateCommit(r)
  BY <1>2 DEF CreateCommit
<1>3. CASE ConfirmUser(r) \/ ConfirmGuess(r) \/ ConfirmClaim(r) \/ LinkDrop(r)
  BY <1>3 DEF ConfirmUser, ConfirmGuess, ConfirmClaim, LinkDrop
<1>4. CASE LinkInsert(r) \/ UnlinkCount(r) \/ UnlinkDelete(r)
  BY <1>4 DEF LinkInsert, UnlinkCount, UnlinkDelete
<1>5. CASE VerifyCount(r) \/ VerifyCountFails(r) \/ ResetWrite(r) \/ ResetMark(r)
  BY <1>5 DEF VerifyCount, VerifyCountFails, ResetWrite, ResetMark
<1> QED
  BY <1>1, <1>2, <1>3, <1>4, <1>5 DEF Advance

\* Steps of no slot: accounts, passwords, codes and the clock.
Apart ==
    \/ \E u \in User, m \in Mail \cup {NoMail} : SignUp(u, m)
    \/ \E u \in User : ChangeUserPassword(u)
    \/ \E u \in User, c \in Code : ForgotPassword(u, c)
    \/ \E l \in Link : LinkExpires(l)
    \/ \E c \in Code : CodeExpires(c)

LEMMA ApartChanges ==
  ASSUME Apart
  PROVE  UNCHANGED <<linked, guesses, claims, verified, job, calm>>
  BY DEF Apart, SignUp, ChangeUserPassword, ForgotPassword, LinkExpires,
         CodeExpires, links, resets

LEMMA Kinds ==
  ASSUME Next
  PROVE  Apart \/ \E r \in Request : Arrive(r) \/ Advance(r) \/ Abandon(r)
  BY DEF Next, Apart, PublicUserSignup, UserSignup, SetPassword

-----------------------------------------------------------------------------
(* Profiles and identities *)

RowsOK == ProfilesOK /\ IdentitiesOK /\ LinksOK /\ CodesOK

LEMMA SameProfiles ==
  ASSUME ProfilesOK, UNCHANGED profiles
  PROVE  ProfilesOK' /\ UNCHANGED accounts
  BY DEF ProfilesOK, profiles

LEMMA NewAccount ==
  ASSUME ProfilesOK, NEW u \in User, NEW m \in Mail \cup {NoMail}, Available(m), AddAccount(u, m),
         password' \in {password, password \cup {u}}, named' \subseteq Sub
  PROVE  ProfilesOK' /\ accounts' = accounts \cup {u}
<1>1. accounts' = accounts \cup {u} /\ mail' = [mail EXCEPT ![u] = m]
  BY DEF AddAccount
<1>2. \A v \in User : mail[v] = m => m = NoMail
  BY DEF Available, ProfilesOK
<1>3. mail' \in [User -> Mail \cup {NoMail}] /\ \A v \in User : mail'[v] = IF v = u THEN m ELSE mail[v]
  BY <1>1 DEF ProfilesOK
<1>4. \A v, w \in User : v # w /\ mail'[v] = mail'[w] => mail'[v] = NoMail
  BY <1>2, <1>3 DEF ProfilesOK
<1> QED
  BY <1>1, <1>3, <1>4 DEF ProfilesOK

LEMMA StoredPassword ==
  ASSUME ProfilesOK, NEW u \in accounts, StorePassword(u)
  PROVE  ProfilesOK' /\ UNCHANGED accounts
  BY DEF StorePassword, ProfilesOK

\* The keys of user_external_identity, as a row comes in.
LEMMA NewIdentity ==
  ASSUME IdentitiesOK, accounts \subseteq accounts', NEW s \in Sub, NEW u \in accounts',
         CanLink(s, u), linked' = [linked EXCEPT ![s] = u]
  PROVE  IdentitiesOK'
<1>1. linked' \in [Sub -> accounts' \cup {NoUser}]
  BY DEF IdentitiesOK
<1>2. \A t \in Sub : linked'[t] = IF t = s THEN u ELSE linked[t]
  BY DEF IdentitiesOK
<1> QED
  BY <1>1, <1>2 DEF IdentitiesOK, CanLink

LEMMA SameIdentities ==
  ASSUME IdentitiesOK, accounts \subseteq accounts', UNCHANGED linked
  PROVE  IdentitiesOK'
  BY DEF IdentitiesOK

\* A new account and its identity, or neither.
LEMMA CreateKeeps ==
  ASSUME JobsOK, ProfilesOK, IdentitiesOK, NEW r \in Request, CreateCommit(r)
  PROVE  /\ ProfilesOK' /\ IdentitiesOK' /\ accounts \subseteq accounts'
         /\ \A u \in accounts' \ accounts : \E s \in Sub : linked'[s] = u
<1> DEFINE s == job[r].sub
           m == job[r].mail
<1>1. s \in Sub /\ m \in Mail \cup {NoMail}
  BY DEF JobsOK, Job, Holds, CreateCommit, At
<1>2. CASE UNCHANGED <<profiles, links>>
  BY <1>2, SameProfiles, SameIdentities DEF links
<1>3. CASE ~UNCHANGED <<profiles, links>>
  <2>1. PICK u \in User :
            /\ Available(m) /\ AddAccount(u, m) /\ linked[s] = NoUser
            /\ linked' = [linked EXCEPT ![s] = u]
            /\ named' = (IF job[r].flag THEN named ELSE named \cup {s}) /\ UNCHANGED password
    BY <1>3 DEF CreateCommit
  <2>2. named' \subseteq Sub
    BY <1>1, <2>1 DEF ProfilesOK
  <2>3. ProfilesOK' /\ accounts' = accounts \cup {u}
    BY <1>1, <2>1, <2>2, NewAccount
  <2>4. CanLink(s, u)
    BY <2>1 DEF CanLink, AddAccount, IdentitiesOK
  <2>5. IdentitiesOK'
    BY <1>1, <2>1, <2>3, <2>4, NewIdentity
  <2>6. linked'[s] = u
    BY <1>1, <2>1 DEF IdentitiesOK
  <2> QED
    BY <1>1, <2>3, <2>5, <2>6
<1> QED
  BY <1>2, <1>3

LEMMA ProfilesKept ==
  ASSUME JobsOK, RowsOK, Next
  PROVE  ProfilesOK' /\ accounts \subseteq accounts'
<1>1. ASSUME NEW r \in Request, Advance(r) PROVE ProfilesOK' /\ accounts \subseteq accounts'
  <2>1. ASSUME ResetWrite(r) PROVE ProfilesOK' /\ accounts \subseteq accounts'
    <3>1. job[r].user \in accounts
      BY <2>1 DEF ResetWrite, At, JobsOK, Holds
    <3> QED
      BY <2>1, <3>1, StoredPassword DEF ResetWrite, RowsOK
  <2> QED
    BY <1>1, <2>1, AdvanceChanges, SameProfiles, CreateKeeps DEF RowsOK
<1>2. ASSUME NEW r \in Request, Arrive(r) \/ Abandon(r) PROVE UNCHANGED profiles
  BY <1>2, ArriveChanges DEF Abandon
<1>3. ASSUME Apart PROVE ProfilesOK' /\ accounts \subseteq accounts'
  <2>1. ASSUME NEW u \in User, NEW m \in Mail \cup {NoMail}, SignUp(u, m)
        PROVE  ProfilesOK' /\ accounts \subseteq accounts'
    <3>1. named' \subseteq Sub
      BY <2>1 DEF SignUp, RowsOK, ProfilesOK
    <3> QED
      BY <2>1, <3>1, NewAccount DEF SignUp, RowsOK
  <2>2. ASSUME NEW u \in User, ChangeUserPassword(u)
        PROVE  ProfilesOK' /\ accounts \subseteq accounts'
    BY <2>2, StoredPassword DEF ChangeUserPassword, RowsOK
  <2>3. ASSUME \/ \E u \in User, c \in Code : ForgotPassword(u, c)
               \/ \E l \in Link : LinkExpires(l)
               \/ \E c \in Code : CodeExpires(c)
        PROVE  UNCHANGED profiles
    BY <2>3 DEF ForgotPassword, LinkExpires, CodeExpires
  <2> QED
    BY <1>3, <2>1, <2>2, <2>3, SameProfiles DEF Apart, RowsOK
<1> QED
  BY <1>1, <1>2, <1>3, Kinds, SameProfiles DEF RowsOK

LEMMA IdentitiesKept ==
  ASSUME JobsOK, RowsOK, Next
  PROVE  IdentitiesOK'
<1>0. accounts \subseteq accounts' /\ IdentitiesOK
  BY ProfilesKept DEF RowsOK
<1>1. ASSUME NEW r \in Request, ConfirmClaim(r) PROVE IdentitiesOK'
  <2> DEFINE l == job[r].link
  <2>1. link[l].sub \in Sub /\ link[l].user \in accounts
    BY <1>1 DEF ConfirmClaim, At, JobsOK, Holds, RowsOK, LinksOK
  <2>2. \/ UNCHANGED linked
        \/ /\ CanLink(link[l].sub, link[l].user)
           /\ linked' = [linked EXCEPT ![link[l].sub] = link[l].user]
    BY <1>1 DEF ConfirmClaim
  <2> QED
    BY <1>0, <2>1, <2>2, SameIdentities, NewIdentity
<1>2. ASSUME NEW r \in Request, LinkInsert(r) PROVE IdentitiesOK'
  <2> DEFINE u == job[r].user
             s == job[r].sub
  <2>1. u \in accounts /\ s \in Sub
    BY <1>2 DEF LinkInsert, At, JobsOK, Holds
  <2>2. linked' = IF CanLink(s, u) THEN [linked EXCEPT ![s] = u] ELSE linked
    BY <1>2 DEF LinkInsert
  <2> QED
    BY <1>0, <2>1, <2>2, SameIdentities, NewIdentity
<1>3. ASSUME NEW r \in Request, UnlinkDelete(r) PROVE IdentitiesOK'
  <2>1. linked' = [t \in Sub |-> IF t = job[r].sub THEN NoUser ELSE linked[t]]
    BY <1>3 DEF UnlinkDelete
  <2> QED
    BY <1>0, <2>1 DEF IdentitiesOK
<1>4. ASSUME NEW r \in Request, Arrive(r) \/ Abandon(r) PROVE UNCHANGED linked
  BY <1>4, ArriveChanges DEF Abandon, links
<1> QED
  BY <1>0, <1>1, <1>2, <1>3, <1>4, Kinds, AdvanceChanges, ApartChanges, SameIdentities,
     CreateKeeps DEF RowsOK


-----------------------------------------------------------------------------
(* Pending links and codes *)

\* A link is claimed at most once, and then its row is gone.
ClaimsOK == \A l \in Link : claims[l] <= 1 /\ (link[l].state # "gone" => claims[l] = 0)

\* A row that is not gone keeps its claims at zero; no row leaves the table
\* and comes back.
LinksMove ==
    /\ \A l \in Link : link[l].state # "undrawn" => link'[l].state # "undrawn"
    /\ \A l \in Link : link[l].state = "gone" => link'[l].state = "gone"

LEMMA LinkFieldOf ==
  ASSUME NEW i \in LinkRow
  PROVE  /\ \A x \in {"undrawn", "live", "expired", "gone"} :
              LET k == [i EXCEPT !.state = x] IN
              k \in LinkRow /\ k.state = x /\ k.user = i.user /\ k.sub = i.sub
         /\ \A x \in 0 .. MaxLinkAttempts :
              LET k == [i EXCEPT !.attempts = x] IN
              k \in LinkRow /\ k.state = i.state /\ k.user = i.user /\ k.sub = i.sub
  BY DEF LinkRow

\* One row is written.
LEMMA PutLink ==
  ASSUME LinksOK, accounts \subseteq accounts', NEW l \in Link, NEW k \in LinkRow,
         k.state # "undrawn", k.user \in accounts, k.sub \in Sub,
         link[l].state = "gone" => k.state = "gone",
         link' = [link EXCEPT ![l] = k], UNCHANGED <<guesses, claims>>
  PROVE  LinksOK' /\ LinksMove
<1>1. link' \in [Link -> LinkRow]
  BY DEF LinksOK
<1>2. \A i \in Link : link'[i] = IF i = l THEN k ELSE link[i]
  BY DEF LinksOK
<1> QED
  BY <1>1, <1>2 DEF LinksOK, LinksMove

LEMMA SameLinks ==
  ASSUME LinksOK, accounts \subseteq accounts', UNCHANGED <<link, claims>>,
         guesses' \in [Link -> Nat]
  PROVE  LinksOK' /\ LinksMove
  BY DEF LinksOK, LinksMove

LEMMA LinksKept ==
  ASSUME JobsOK, RowsOK, ClaimsOK, Next
  PROVE  LinksOK' /\ LinksMove /\ ClaimsOK'
<1>0. accounts \subseteq accounts' /\ LinksOK /\ guesses \in [Link -> Nat]
  BY ProfilesKept DEF RowsOK, LinksOK
<1>1. ASSUME NEW r \in Request, PendSweep(r) PROVE LinksOK' /\ LinksMove /\ UNCHANGED claims
  <2>1. link' = [l \in Link |-> IF link[l].state = "expired"
                                THEN [link[l] EXCEPT !.state = "gone"] ELSE link[l]]
        /\ UNCHANGED <<guesses, claims>>
    BY <1>1 DEF PendSweep
  <2>2. \A l \in Link : /\ link'[l] \in LinkRow /\ link'[l].user = link[l].user
                        /\ link'[l].sub = link[l].sub
                        /\ link'[l].state = IF link[l].state = "expired" THEN "gone" ELSE link[l].state
    BY <1>0, <2>1 DEF LinksOK, LinkRow
  <2>3. link' \in [Link -> LinkRow]
    BY <2>1, <2>2
  <2>4. LinksMove
    BY <2>2 DEF LinksMove
  <2> QED
    BY <1>0, <2>1, <2>2, <2>3, <2>4 DEF LinksOK
<1>2. ASSUME NEW r \in Request, PendInsert(r) PROVE LinksOK' /\ LinksMove /\ UNCHANGED claims
  <2>1. job[r].user \in accounts /\ job[r].sub \in Sub
    BY <1>2 DEF PendInsert, At, JobsOK, Holds
  <2> DEFINE k == [state |-> "live", user |-> job[r].user, sub |-> job[r].sub, attempts |-> 0]
  <2>2. k \in LinkRow
    BY <2>1, AttemptsAssumption DEF LinkRow, RowsOK, ProfilesOK
  <2>3. PICK l \in Link : link[l].state = "undrawn" /\ link' = [link EXCEPT ![l] = k]
    BY <1>2 DEF PendInsert
  <2>4. UNCHANGED <<guesses, claims>>
    BY <1>2 DEF PendInsert
  <2>5. k.state = "live" /\ k.user \in accounts /\ k.sub \in Sub
    BY <2>1
  <2> HIDE DEF k
  <2> QED
    BY <1>0, <2>2, <2>3, <2>4, <2>5, PutLink
<1>3. ASSUME NEW r \in Request, ConfirmGuess(r) PROVE LinksOK' /\ LinksMove /\ UNCHANGED claims
  <2> DEFINE l == job[r].link
             k == [link[l] EXCEPT !.attempts = job[r].attempts + 1]
  <2>1. l \in Link /\ link[l].state # "undrawn" /\ job[r].attempts + 1 \in 0 .. MaxLinkAttempts
    BY <1>3, AttemptsAssumption DEF ConfirmGuess, At, JobsOK, Job, Holds
  <2>2. /\ k \in LinkRow /\ k.state = link[l].state
        /\ k.user = link[l].user /\ k.sub = link[l].sub
    BY <1>0, <2>1 DEF LinksOK, LinkRow
  <2>3. link[l].user \in accounts /\ link[l].sub \in Sub
    BY <1>0, <2>1 DEF LinksOK
  <2>4. UNCHANGED link \/ link' = [link EXCEPT ![l] = k]
    BY <1>3 DEF ConfirmGuess
  <2>5. UNCHANGED <<guesses, claims>>
    BY <1>3 DEF ConfirmGuess
  <2> HIDE DEF l, k
  <2> QED
    BY <1>0, <2>1, <2>2, <2>3, <2>4, <2>5, PutLink, SameLinks
<1>4. ASSUME NEW r \in Request, LinkDrop(r) \/ ConfirmClaim(r)
      PROVE  LinksOK' /\ LinksMove /\ (ClaimsOK' \/ UNCHANGED claims)
  <2> DEFINE l == job[r].link
             k == [link[l] EXCEPT !.state = "gone"]
  <2>1. l \in Link /\ link[l].state # "undrawn"
    BY <1>4 DEF LinkDrop, ConfirmClaim, At, JobsOK, Holds
  <2>2. k \in LinkRow /\ k.state = "gone" /\ k.user = link[l].user /\ k.sub = link[l].sub
    BY <1>0, <2>1, LinkFieldOf DEF LinksOK
  <2>3. link[l].user \in accounts /\ link[l].sub \in Sub
    BY <1>0, <2>1 DEF LinksOK
  <2>4. \/ UNCHANGED <<link, guesses, claims>>
        \/ link' = [link EXCEPT ![l] = k] /\ UNCHANGED <<guesses, claims>>
        \/ /\ link[l].state # "gone" /\ link' = [link EXCEPT ![l] = k]
           /\ UNCHANGED guesses /\ claims' = [claims EXCEPT ![l] = @ + 1]
    BY <1>4 DEF LinkDrop, ConfirmClaim
  <2> HIDE DEF l, k
  <2>5. CASE UNCHANGED <<link, guesses, claims>>
    BY <1>0, <2>5, SameLinks
  <2>6. CASE link' = [link EXCEPT ![l] = k] /\ UNCHANGED <<guesses, claims>>
    BY <1>0, <2>1, <2>2, <2>3, <2>6, PutLink
  <2>7. CASE /\ link[l].state # "gone" /\ link' = [link EXCEPT ![l] = k]
             /\ UNCHANGED guesses /\ claims' = [claims EXCEPT ![l] = @ + 1]
    <3>1. link' \in [Link -> LinkRow] /\ \A i \in Link : link'[i] = IF i = l THEN k ELSE link[i]
      BY <1>0, <2>2, <2>7 DEF LinksOK
    <3>2. claims[l] = 0
      BY <2>1, <2>7 DEF ClaimsOK
    <3>3. /\ claims' \in [Link -> Nat]
          /\ \A i \in Link : claims'[i] = IF i = l THEN 1 ELSE claims[i]
      BY <1>0, <2>1, <2>7, <3>2 DEF LinksOK
    <3>4. LinksOK'
      BY <1>0, <2>2, <2>3, <2>7, <3>1, <3>3 DEF LinksOK
    <3>5. LinksMove
      BY <2>2, <3>1 DEF LinksMove
    <3>6. ClaimsOK'
      BY <2>2, <3>1, <3>3 DEF ClaimsOK
    <3> QED
      BY <3>4, <3>5, <3>6
  <2> QED
    BY <2>4, <2>5, <2>6, <2>7
<1>5. ASSUME NEW r \in Request, ConfirmUser(r) PROVE LinksOK' /\ LinksMove /\ UNCHANGED claims
  <2>1. UNCHANGED <<link, claims>>
    BY <1>5 DEF ConfirmUser
  <2>2. guesses' \in [Link -> Nat]
    BY <1>0, <1>5 DEF ConfirmUser
  <2> QED
    BY <1>0, <2>1, <2>2, SameLinks
<1>6. ASSUME NEW l \in Link, LinkExpires(l) PROVE LinksOK' /\ LinksMove /\ UNCHANGED claims
  <2> DEFINE k == [link[l] EXCEPT !.state = "expired"]
  <2>1. link[l].state = "live" /\ link' = [link EXCEPT ![l] = k] /\ UNCHANGED <<guesses, claims>>
    BY <1>6 DEF LinkExpires
  <2>2. k \in LinkRow /\ k.state = "expired" /\ k.user = link[l].user /\ k.sub = link[l].sub
    BY <1>0, LinkFieldOf DEF LinksOK
  <2>3. link[l].user \in accounts /\ link[l].sub \in Sub
    BY <1>0, <2>1 DEF LinksOK
  <2> HIDE DEF k
  <2> QED
    BY <1>0, <2>1, <2>2, <2>3, PutLink
<1>7. ASSUME UNCHANGED <<link, guesses, claims>> PROVE LinksOK' /\ LinksMove
  BY <1>0, <1>7, SameLinks
<1>8. ASSUME NEW r \in Request, Arrive(r) \/ Abandon(r) PROVE UNCHANGED <<link, guesses, claims>>
  BY <1>8, ArriveChanges DEF Abandon, links
<1>9. Apart => UNCHANGED <<link, guesses, claims>> \/ \E l \in Link : LinkExpires(l)
  BY DEF Apart, SignUp, ChangeUserPassword, ForgotPassword, CodeExpires, links
<1>10. ASSUME NEW r \in Request, CreateCommit(r) PROVE UNCHANGED <<link, guesses, claims>>
  BY <1>10 DEF CreateCommit, links
<1>11. LinksOK' /\ LinksMove /\ (ClaimsOK' \/ UNCHANGED claims)
  BY <1>1, <1>2, <1>3, <1>4, <1>5, <1>6, <1>7, <1>8, <1>9, <1>10, Kinds, AdvanceChanges
<1> QED
  BY <1>11 DEF LinksMove, ClaimsOK

CodesMove == \A c \in Code : code[c].user \in User => code'[c].user = code[c].user

LEMMA PutCode ==
  ASSUME CodesOK, ProfilesOK', accounts \subseteq accounts', NEW c \in Code, NEW k \in CodeRow,
         k.state # "undrawn", k.user \in accounts,
         code[c].user \in User => k.user = code[c].user,
         code' = [code EXCEPT ![c] = k], verified' \in [Code -> Nat]
  PROVE  CodesOK' /\ CodesMove
<1>1. code' \in [Code -> CodeRow]
  BY DEF CodesOK
<1>2. \A i \in Code : code'[i] = IF i = c THEN k ELSE code[i]
  BY DEF CodesOK
<1>3. NoUser \notin accounts
  BY DEF ProfilesOK
<1> QED
  BY <1>1, <1>2, <1>3 DEF CodesOK, CodesMove

LEMMA SameCodes ==
  ASSUME CodesOK, accounts \subseteq accounts', UNCHANGED code,
         verified' \in [Code -> Nat]
  PROVE  CodesOK' /\ CodesMove
  BY DEF CodesOK, CodesMove

LEMMA CodesKept ==
  ASSUME JobsOK, RowsOK, Next
  PROVE  CodesOK' /\ CodesMove
<1>0. /\ ProfilesOK' /\ accounts \subseteq accounts' /\ CodesOK /\ accounts \subseteq User
      /\ code \in [Code -> CodeRow] /\ verified \in [Code -> Nat]
      /\ \A c \in Code : code[c].state = "undrawn" <=> code[c].user = NoUser
      /\ \A c \in Code : code[c].user \in accounts \cup {NoUser}
  BY ProfilesKept DEF RowsOK, CodesOK, ProfilesOK
<1>1. ASSUME NEW r \in Request, VerifyCount(r) \/ VerifyCountFails(r) PROVE CodesOK' /\ CodesMove
  <2> DEFINE c == job[r].code
             k == [code[c] EXCEPT !.attempts = job[r].attempts + 1]
  <2>1. c \in Code /\ code[c].user \in User /\ job[r].attempts + 1 \in 0 .. MaxCodeAttempts
    BY <1>1 DEF VerifyCount, VerifyCountFails, At, JobsOK, Job, Holds
  <2>2. k \in CodeRow /\ k.state = code[c].state /\ k.user = code[c].user
    BY <1>0, <2>1 DEF CodeRow
  <2>3. code[c].user \in accounts /\ code[c].state # "undrawn"
    BY <1>0, <2>1
  <2>4. verified' = [verified EXCEPT ![c] = @ + 1]
        /\ (UNCHANGED code \/ code' = [code EXCEPT ![c] = k])
    BY <1>1 DEF VerifyCount, VerifyCountFails, GiveToken
  <2> HIDE DEF c, k
  <2>5. verified' \in [Code -> Nat]
    BY <1>0, <2>1, <2>3, <2>4
  <2> QED
    BY <1>0, <2>1, <2>2, <2>3, <2>4, <2>5, PutCode, SameCodes
<1>2. ASSUME NEW r \in Request, ResetMark(r) PROVE CodesOK' /\ CodesMove
  <2>1. job[r].user \in accounts
    BY <1>2 DEF ResetMark, At, JobsOK, Holds
  <2>2. /\ code' = [c \in Code |-> IF code[c].user = job[r].user
                                   THEN [code[c] EXCEPT !.state = "used"] ELSE code[c]]
        /\ UNCHANGED verified
    BY <1>2 DEF ResetMark
  <2>3. \A c \in Code :
           /\ code'[c] \in CodeRow /\ code'[c].user = code[c].user
           /\ code'[c].state = IF code[c].user = job[r].user THEN "used" ELSE code[c].state
    BY <1>0, <2>2 DEF CodeRow
  <2>4. code' \in [Code -> CodeRow]
    BY <2>2, <2>3
  <2> QED
    BY <1>0, <2>1, <2>2, <2>3, <2>4 DEF CodesOK, CodesMove
<1>3. ASSUME NEW u \in User, NEW c \in Code, ForgotPassword(u, c) PROVE CodesOK' /\ CodesMove
  <2> DEFINE k == [state |-> "live", user |-> u, attempts |-> 0]
  <2>1. u \in accounts /\ code[c].state = "undrawn" /\ code' = [code EXCEPT ![c] = k]
        /\ UNCHANGED verified
    BY <1>3 DEF ForgotPassword
  <2>2. k \in CodeRow /\ k.state = "live" /\ k.user = u
    BY DEF CodeRow
  <2> HIDE DEF k
  <2> QED
    BY <1>0, <2>1, <2>2, PutCode
<1>4. ASSUME NEW c \in Code, CodeExpires(c) PROVE CodesOK' /\ CodesMove
  <2> DEFINE k == [code[c] EXCEPT !.state = "expired"]
  <2>1. code[c].state = "live" /\ code' = [code EXCEPT ![c] = k] /\ UNCHANGED verified
    BY <1>4 DEF CodeExpires
  <2>2. k \in CodeRow /\ k.state = "expired" /\ k.user = code[c].user
    BY <1>0 DEF CodeRow
  <2>3. code[c].user \in accounts
    BY <1>0, <2>1
  <2> HIDE DEF k
  <2> QED
    BY <1>0, <2>1, <2>2, <2>3, PutCode
<1>5. ASSUME UNCHANGED <<code, verified>> PROVE CodesOK' /\ CodesMove
  BY <1>0, <1>5, SameCodes
<1>6. ASSUME NEW r \in Request, Arrive(r) \/ Abandon(r) PROVE UNCHANGED resets
  BY <1>6, ArriveChanges DEF Abandon
<1>7. ASSUME Apart
      PROVE  \/ UNCHANGED <<code, verified>>
             \/ \E u \in User, c \in Code : ForgotPassword(u, c)
             \/ \E c \in Code : CodeExpires(c)
  BY <1>7 DEF Apart, SignUp, ChangeUserPassword, LinkExpires, resets
<1> QED
  BY <1>1, <1>2, <1>3, <1>4, <1>5, <1>6, <1>7, Kinds, AdvanceChanges DEF resets

LEMMA GrowsKept ==
  ASSUME JobsOK, RowsOK, ClaimsOK, Next
  PROVE  Grows
  BY ProfilesKept, LinksKept, CodesKept DEF Grows, LinksMove, CodesMove


-----------------------------------------------------------------------------
(* What requests hold *)

LEMMA Started ==
  ASSUME JobsOK, RowsOK, NEW r \in Request, Arrive(r)
  PROVE  \E j \in Job : Holds(j) /\ job' = [job EXCEPT ![r] = j]
<1> USE DEF Start
<1>0. /\ accounts \subseteq User /\ link \in [Link -> LinkRow]
      /\ linked \in [Sub -> accounts \cup {NoUser}]
      /\ \A c \in Code : code[c].state # "undrawn" => code[c].user \in User /\ code[c].attempts \in Nat
      /\ \A l \in Link : link[l].attempts \in Nat
  BY DEF RowsOK, ProfilesOK, CodesOK, LinksOK, IdentitiesOK, CodeRow, LinkRow
<1>1. ASSUME NEW s \in Sub, NEW m \in Mail \cup {NoMail}, OAuthLogin(r, s, m)
      PROVE  \E j \in Job : Holds(j) /\ job' = [job EXCEPT ![r] = j]
  <2> DEFINE j == [Idle EXCEPT !.step = "loginMail", !.sub = s, !.mail = m]
  <2>1. j \in Job /\ j.step = "loginMail" /\ j.sub = s
    BY DEF Job, Idle, Step
  <2>2. job' = [job EXCEPT ![r] = j]
    BY <1>1 DEF OAuthLogin
  <2> HIDE DEF j
  <2> QED
    BY <2>1, <2>2 DEF Holds
<1>2. ASSUME NEW l \in Link, ConfirmLink(r, l)
      PROVE  \E j \in Job : Holds(j) /\ job' = [job EXCEPT ![r] = j]
  <2> DEFINE gone == link[l].state = "expired" \/ link[l].attempts >= MaxLinkAttempts
             step == IF gone THEN "linkDrop" ELSE "confirmUser"
             j == [Idle EXCEPT !.step = step, !.link = l,
                               !.attempts = IF step = "confirmUser" THEN link[l].attempts ELSE 0]
  <2>1. link[l].state # "undrawn" /\ job' = [job EXCEPT ![r] = j]
    BY <1>2 DEF ConfirmLink
  <2>2. CASE gone
    <3>1. j \in Job /\ j.step = "linkDrop" /\ j.link = l
      BY <2>2 DEF Job, Idle, Step
    <3> HIDE DEF j
    <3> QED
      BY <2>1, <3>1 DEF Holds
  <2>3. CASE ~gone
    <3>1. j \in Job /\ j.step = "confirmUser" /\ j.link = l /\ j.attempts = link[l].attempts
      BY <1>0, <2>3 DEF Job, Idle, Step
    <3>2. link[l].attempts < MaxLinkAttempts
      BY <1>0, <2>3, AttemptsAssumption
    <3> HIDE DEF j
    <3> QED
      BY <2>1, <3>1, <3>2 DEF Holds
  <2> QED
    BY <2>2, <2>3
<1>3. ASSUME NEW u \in User, NEW s \in Sub, OAuthLink(r, u, s)
      PROVE  \E j \in Job : Holds(j) /\ job' = [job EXCEPT ![r] = j]
  <2> DEFINE j == [Idle EXCEPT !.step = "linkInsert", !.user = u, !.sub = s]
  <2>1. j \in Job /\ j.step = "linkInsert" /\ j.sub = s /\ j.user = u
    BY DEF Job, Idle, Step
  <2>2. job' = [job EXCEPT ![r] = j] /\ u \in accounts
    BY <1>3 DEF OAuthLink
  <2> HIDE DEF j
  <2> QED
    BY <2>1, <2>2 DEF Holds
<1>4. ASSUME NEW u \in User, NEW s \in Sub, OAuthUnlink(r, u, s)
      PROVE  \E j \in Job : Holds(j) /\ job' = [job EXCEPT ![r] = j]
  <2> DEFINE b == u \in password
             j == [Idle EXCEPT !.step = "unlinkCount", !.user = u, !.sub = s, !.flag = b]
  <2>1. b \in BOOLEAN
    BY SMT
  <2>2. job' = [job EXCEPT ![r] = j] /\ u \in accounts
    BY <1>0, <1>4 DEF OAuthUnlink
  <2> HIDE DEF b
  <2>3. j \in Job /\ j.step = "unlinkCount" /\ j.sub = s /\ j.user = u
    BY <2>1 DEF Job, Idle, Step
  <2> HIDE DEF j
  <2> QED
    BY <2>2, <2>3 DEF Holds
<1>5. ASSUME NEW c \in Code, VerifyResetCode(r, c)
      PROVE  \E j \in Job : Holds(j) /\ job' = [job EXCEPT ![r] = j]
  <2> DEFINE j == [Idle EXCEPT !.step = "verifyCount", !.code = c, !.attempts = code[c].attempts]
  <2>1. /\ job' = [job EXCEPT ![r] = j] /\ code[c].attempts < MaxCodeAttempts
        /\ code[c].user \in User /\ code[c].attempts \in Nat
    BY <1>0, <1>5 DEF VerifyResetCode
  <2>2. j \in Job /\ j.step = "verifyCount" /\ j.code = c /\ j.attempts = code[c].attempts
    BY <2>1 DEF Job, Idle, Step
  <2> HIDE DEF j
  <2> QED
    BY <2>1, <2>2 DEF Holds
<1>6. ASSUME NEW u \in User, ResetPassword(r, u)
      PROVE  \E j \in Job : Holds(j) /\ job' = [job EXCEPT ![r] = j]
  <2> DEFINE j == [Idle EXCEPT !.step = "resetWrite", !.user = u]
  <2>1. j \in Job /\ j.step = "resetWrite" /\ j.user = u
    BY DEF Job, Idle, Step
  <2>2. job' = [job EXCEPT ![r] = j] /\ u \in accounts
    BY <1>0, <1>6 DEF ResetPassword
  <2> HIDE DEF j
  <2> QED
    BY <2>1, <2>2 DEF Holds
<1> QED
  BY <1>1, <1>2, <1>3, <1>4, <1>5, <1>6 DEF Arrive

LEMMA Advanced ==
  ASSUME JobsOK, RowsOK, NEW r \in Request, Advance(r), ~UnlinkDelete(r)
  PROVE  \E j \in Job : Holds(j) /\ job' = [job EXCEPT ![r] = j]
<1> DEFINE i == job[r]
<1>0. /\ i \in Job /\ Holds(i) /\ accounts \subseteq User
      /\ Idle \in Job /\ Holds(Idle)
  BY IdleOK DEF JobsOK, RowsOK, ProfilesOK
<1>1. CASE job' = [job EXCEPT ![r] = Idle]
  BY <1>0, <1>1
<1>2. ASSUME NEW x \in Step, Goto(r, x),
             \/ x = "createName" /\ i.step = "loginMail"
             \/ x = "pendInsert" /\ i.step = "pendSweep"
             \/ x = "confirmClaim" /\ i.step = "confirmUser"
             \/ x = "confirmGuess" /\ i.step = "confirmUser"
             \/ x = "linkDrop" /\ i.step = "confirmClaim"
             \/ x = "unlinkDelete" /\ i.step = "unlinkCount"
             \/ x = "resetMark" /\ i.step = "resetWrite"
      PROVE  \E j \in Job : Holds(j) /\ job' = [job EXCEPT ![r] = j]
  <2> DEFINE j == [i EXCEPT !.step = x]
  <2>1. job' = [job EXCEPT ![r] = j]
    BY <1>2 DEF Goto, Become
  <2>2. /\ j \in Job /\ j.step = x /\ j.user = i.user /\ j.sub = i.sub
        /\ j.link = i.link /\ j.code = i.code /\ j.attempts = i.attempts
    BY <1>0, FieldOf
  <2> HIDE DEF i, j
  <2>3. Holds(j)
    BY <1>0, <1>2, <2>2 DEF Holds
  <2> QED
    BY <2>1, <2>2, <2>3
<1>3. ASSUME LoginMail(r), NEW u \in accounts,
             Become(r, [i EXCEPT !.step = "pendSweep", !.user = u])
      PROVE  \E j \in Job : Holds(j) /\ job' = [job EXCEPT ![r] = j]
  <2> DEFINE j == [i EXCEPT !.step = "pendSweep", !.user = u]
  <2>1. job' = [job EXCEPT ![r] = j] /\ i.step = "loginMail"
    BY <1>3 DEF Become, LoginMail, At
  <2>2. j \in Job /\ j.step = "pendSweep" /\ j.user = u /\ j.sub = i.sub
    BY <1>0 DEF Job, Step
  <2> HIDE DEF i, j
  <2>3. Holds(j)
    BY <1>0, <2>1, <2>2 DEF Holds
  <2> QED
    BY <2>1, <2>2, <2>3
<1>4. ASSUME CreateName(r)
      PROVE  \E j \in Job : Holds(j) /\ job' = [job EXCEPT ![r] = j]
  <2> DEFINE b == i.sub \in named
             j == [i EXCEPT !.step = "createCommit", !.flag = b]
  <2>1. b \in BOOLEAN
    BY SMT
  <2>2. job' = [job EXCEPT ![r] = j] /\ i.step = "createName"
    BY <1>4 DEF Become, CreateName, At
  <2> HIDE DEF b
  <2>3. j \in Job /\ j.step = "createCommit" /\ j.sub = i.sub
    BY <1>0, <2>1 DEF Job, Step
  <2> HIDE DEF i, j
  <2>4. Holds(j)
    BY <1>0, <2>2, <2>3 DEF Holds
  <2> QED
    BY <2>2, <2>3, <2>4
<1>5. CASE LoginMail(r)
  <2>1. \/ \E u \in accounts : Become(r, [i EXCEPT !.step = "pendSweep", !.user = u])
        \/ Goto(r, "createName") /\ i.step = "loginMail"
    BY <1>5 DEF LoginMail, At
  <2> HIDE DEF i
  <2> QED
    BY <1>2, <1>3, <1>5, <2>1 DEF Step
<1>6. CASE PendSweep(r) \/ ConfirmUser(r) \/ ConfirmClaim(r) \/ UnlinkCount(r) \/ ResetWrite(r)
  <2>1. \/ Finish(r)
        \/ Goto(r, "pendInsert") /\ i.step = "pendSweep"
        \/ Goto(r, "confirmClaim") /\ i.step = "confirmUser"
        \/ Goto(r, "confirmGuess") /\ i.step = "confirmUser"
        \/ Goto(r, "linkDrop") /\ i.step = "confirmClaim"
        \/ Goto(r, "unlinkDelete") /\ i.step = "unlinkCount"
        \/ Goto(r, "resetMark") /\ i.step = "resetWrite"
    BY <1>6 DEF PendSweep, ConfirmUser, ConfirmClaim, UnlinkCount, ResetWrite, At
  <2> HIDE DEF i
  <2> QED
    BY <1>1, <1>2, <2>1 DEF Step, Finish, Become
<1>7. CASE PendInsert(r) \/ CreateCommit(r) \/ ConfirmGuess(r) \/ LinkDrop(r) \/ LinkInsert(r)
           \/ VerifyCount(r) \/ VerifyCountFails(r) \/ ResetMark(r)
  BY <1>1, <1>7 DEF PendInsert, CreateCommit, ConfirmGuess, LinkDrop, LinkInsert,
                    VerifyCount, VerifyCountFails, ResetMark, Finish, Become
<1> QED
  BY <1>4, <1>5, <1>6, <1>7 DEF Advance

LEMMA UnlinkJobs ==
  ASSUME JobsOK, RowsOK, ClaimsOK, Next, NEW r \in Request, UnlinkDelete(r)
  PROVE  JobsOK'
<1> DEFINE s == job[r].sub
<1>1. job' = [q \in Request |-> IF q = r THEN Idle ELSE Dangling(job[q], s)]
  BY DEF UnlinkDelete
<1> HIDE DEF s
<1>2. ASSUME NEW q \in Request PROVE job'[q] \in Job /\ Holds(job'[q])
  <2>1. job[q] \in Job /\ Holds(job[q])
    BY DEF JobsOK
  <2>2. Idle \in Job /\ Holds(Idle)
    BY IdleOK
  <2>3. job'[q] = IF q = r THEN Idle ELSE Dangling(job[q], s)
    BY <1>1
  <2>4. Dangling(job[q], s) \in Job /\ Holds(Dangling(job[q], s))
    <3> DEFINE i == job[q]
               j == [i EXCEPT !.sub = NoSub]
    <3>1. /\ j \in Job /\ j.step = i.step /\ j.user = i.user
          /\ j.link = i.link /\ j.code = i.code /\ j.attempts = i.attempts
      BY <2>1, FieldOf
    <3>2. Dangling(i, s) = IF i.step \in {"unlinkCount", "unlinkDelete"} /\ i.sub = s THEN j ELSE i
      BY DEF Dangling
    <3> HIDE DEF i, j
    <3>3. i.step \in {"unlinkCount", "unlinkDelete"} => Holds(j)
      BY <2>1, <3>1 DEF Holds, i
    <3> QED
      BY <2>1, <3>1, <3>2, <3>3 DEF i
  <2> QED
    BY <2>2, <2>3, <2>4
<1>3. \A j : Holds(j) => Holds(j)'
  BY GrowsKept, HoldsGrow
<1>4. job' \in [Request -> Job]
  BY <1>1, <1>2
<1> QED
  BY <1>2, <1>3, <1>4 DEF JobsOK

LEMMA JobsKept ==
  ASSUME JobsOK, RowsOK, ClaimsOK, Next
  PROVE  JobsOK'
<1>1. Grows
  BY GrowsKept
<1>2. ASSUME NEW r \in Request, Arrive(r) \/ Advance(r) \/ Abandon(r), ~UnlinkDelete(r)
      PROVE  \E j \in Job : Holds(j) /\ job' = [job EXCEPT ![r] = j]
  BY <1>2, Started, Advanced, IdleOK DEF Abandon
<1> QED
  BY <1>1, <1>2, PutJob, KeepJobs, UnlinkJobs, Kinds, ApartChanges


-----------------------------------------------------------------------------
(* The invariant and what follows from it *)

Inv == JobsOK /\ RowsOK /\ ClaimsOK /\ calm \in BOOLEAN

LEMMA CalmKept ==
  ASSUME calm \in BOOLEAN, Next
  PROVE  calm' \in BOOLEAN
<1>1. ASSUME NEW r \in Request, NEW j, Start(r, j) PROVE calm' \in BOOLEAN
  <2> DEFINE b == calm /\ \A q \in Request \ {r} : job[q] = Idle
  <2>1. b \in BOOLEAN
    BY SMT
  <2>2. calm' = b
    BY <1>1 DEF Start
  <2> HIDE DEF b
  <2> QED
    BY <2>1, <2>2
<1>2. ASSUME NEW r \in Request, Advance(r) PROVE calm' \in BOOLEAN
  BY <1>2 DEF Advance, LoginMail, PendSweep, PendInsert, CreateName, CreateCommit, ConfirmUser,
              ConfirmGuess, ConfirmClaim, LinkDrop, LinkInsert, UnlinkCount, UnlinkDelete,
              VerifyCount, VerifyCountFails, ResetWrite, ResetMark, Goto, Finish, Become
<1> QED
  BY <1>1, <1>2, ArriveChanges, ApartChanges, Kinds DEF Abandon

LEMMA InvInit == Init => Inv
<1> SUFFICES ASSUME Init PROVE Inv
  OBVIOUS
<1> USE DEF Init
<1>1. NoLinkRow \in LinkRow /\ NoLinkRow.state = "undrawn"
  BY AttemptsAssumption DEF NoLinkRow, LinkRow
<1>2. NoCodeRow \in CodeRow /\ NoCodeRow.state = "undrawn" /\ NoCodeRow.user = NoUser
  BY AttemptsAssumption DEF NoCodeRow, CodeRow
<1>3. JobsOK
  BY IdleOK DEF JobsOK
<1>4. ProfilesOK /\ IdentitiesOK
  BY DEF ProfilesOK, IdentitiesOK
<1>5. LinksOK
  BY <1>1 DEF LinksOK
<1>6. CodesOK
  BY <1>2 DEF CodesOK
<1>7. ClaimsOK
  BY DEF ClaimsOK
<1> QED
  BY <1>3, <1>4, <1>5, <1>6, <1>7 DEF Inv, RowsOK

LEMMA InvNext == Inv /\ [Next]_vars => Inv'
<1>1. ASSUME Inv, Next PROVE Inv'
  BY <1>1, JobsKept, ProfilesKept, IdentitiesKept, LinksKept, CodesKept, CalmKept
     DEF Inv, RowsOK
<1>2. ASSUME Inv, UNCHANGED vars PROVE Inv'
  <2> USE <1>2 DEF Inv, RowsOK, vars, profiles, links, resets
  <2>1. UNCHANGED <<accounts, mail, password, named, linked, link, guesses, claims, code,
                    verified, job, calm>>
    OBVIOUS
  <2>2. JobsOK'
    BY <2>1, KeepJobs DEF Grows
  <2>3. ProfilesOK' /\ IdentitiesOK'
    BY <2>1 DEF ProfilesOK, IdentitiesOK
  <2>4. LinksOK' /\ ClaimsOK' /\ CodesOK'
    BY <2>1 DEF LinksOK, ClaimsOK, CodesOK
  <2> QED
    BY <2>1, <2>2, <2>3, <2>4
<1> QED
  BY <1>1, <1>2

LEMMA InvAlways == Spec => []Inv
  BY InvInit, InvNext, PTL DEF Spec

\* Rows, keys and what every request holds at each of its steps are as stated,
\* however the statements of requests overlap (userController.go,
\* oauthController.go, oauthService.go, passwordResetController.go).
THEOREM TypeCorrect == Spec => []TypeOK
<1>1. Inv => TypeOK
  BY DEF Inv, TypeOK, JobsOK, RowsOK, ProfilesOK, IdentitiesOK, LinksOK, CodesOK
<1> QED
  BY <1>1, InvAlways, PTL

\* A pending link creates at most one identity, however many confirmations of
\* it overlap (OAuthConfirmLink: the DELETE claims the row).
THEOREM LinksAreClaimedOnce == Spec => []ClaimedOnce
<1>1. Inv => ClaimedOnce
  BY DEF Inv, ClaimsOK, ClaimedOnce
<1> QED
  BY <1>1, InvAlways, PTL

\* Every account starts with a password or an identity: createOAuthUser commits
\* both rows or neither, and a signup stores the password with the profile.
THEOREM AccountsAreWhole == Spec => NoPartialAccount
<1>1. ASSUME Inv, [Next]_vars
      PROVE  \A u \in accounts' \ accounts : u \in password' \/ \E s \in Sub : linked'[s] = u
  <2>1. ASSUME NEW r \in Request, Advance(r)
        PROVE  \A u \in accounts' \ accounts : \E s \in Sub : linked'[s] = u
    <3>1. CASE CreateCommit(r)
      BY <1>1, <3>1, CreateKeeps DEF Inv, RowsOK
    <3>2. CASE ~CreateCommit(r)
      BY <2>1, <3>2, AdvanceChanges DEF profiles, ResetWrite, StorePassword
    <3> QED
      BY <3>1, <3>2
  <2>2. ASSUME NEW r \in Request, Arrive(r) \/ Abandon(r) PROVE UNCHANGED accounts
    BY <2>2, ArriveChanges DEF Abandon, profiles
  <2>3. ASSUME Apart PROVE \A u \in accounts' \ accounts : u \in password'
    BY <2>3 DEF Apart, SignUp, AddAccount, ChangeUserPassword, StorePassword, 
                ForgotPassword, LinkExpires, CodeExpires, profiles
  <2>4. CASE UNCHANGED vars
    BY <2>4 DEF vars, profiles
  <2> QED
    BY <1>1, <2>1, <2>2, <2>3, <2>4, Kinds
<1> QED
  BY <1>1, InvAlways, PTL DEF Spec, NoPartialAccount

-----------------------------------------------------------------------------
(* What counts say while requests do not overlap and nothing fails *)

Alone(r) == \A q \in Request \ {r} : job[q] = Idle

Guessing(l) == \E q \in Request : job[q].step = "confirmGuess" /\ job[q].link = l

\* What a request has read still stands in the tables.
Fresh(j) ==
    /\ j.step \in {"confirmUser", "confirmGuess"} =>
           link[j.link].state # "gone" /\ link[j.link].attempts = j.attempts
    /\ j.step = "verifyCount" => code[j.code].attempts = j.attempts
    /\ j.step \in {"unlinkCount", "unlinkDelete"} =>
           /\ j.sub \in Sub /\ linked[j.sub] = j.user
           /\ j.flag => j.user \in password
    /\ j.step = "unlinkDelete" => j.flag \/ \E t \in Sub \ {j.sub} : linked[t] = j.user

\* A wrong password is counted in the row, but for the one that is about to be.
GuessesCounted ==
    \A l \in Link :
        /\ link[l].state = "undrawn" => guesses[l] = 0
        /\ link[l].state = "gone" => guesses[l] <= MaxLinkAttempts
        /\ link[l].state # "gone" =>
               guesses[l] = link[l].attempts + (IF Guessing(l) THEN 1 ELSE 0)

VerifiedCounted ==
    \A c \in Code :
        /\ verified[c] = code[c].attempts
        /\ code[c].state = "undrawn" => verified[c] = 0

CanSignIn == \A u \in accounts : u \in password \/ IdentitiesOf(u) # {}

Undisturbed ==
    /\ \A q, r \in Request : job[q] # Idle /\ job[r] # Idle => q = r
    /\ \A r \in Request : Fresh(job[r])
    /\ GuessesCounted /\ VerifiedCounted /\ CanSignIn

CalmInv == calm => Undisturbed

\* A guess that is not counted yet comes from a row with attempts left.
LEMMA GuessesBounded ==
  ASSUME Inv, GuessesCounted, \A r \in Request : Fresh(job[r])
  PROVE  \A l \in Link : guesses[l] <= MaxLinkAttempts
<1> SUFFICES ASSUME NEW l \in Link PROVE guesses[l] <= MaxLinkAttempts
  OBVIOUS
<1>1. link[l].attempts \in 0 .. MaxLinkAttempts
  BY DEF Inv, RowsOK, LinksOK, LinkRow
<1>2. ASSUME Guessing(l) PROVE link[l].attempts < MaxLinkAttempts
  <2>1. PICK q \in Request : job[q].step = "confirmGuess" /\ job[q].link = l
    BY <1>2 DEF Guessing
  <2>2. Holds(job[q]) /\ Fresh(job[q])
    BY DEF Inv, JobsOK
  <2> QED
    BY <2>1, <2>2 DEF Holds, Fresh
<1>3. CASE Guessing(l)
  BY <1>1, <1>2, <1>3 DEF GuessesCounted
<1>4. CASE ~Guessing(l)
  BY <1>1, <1>4 DEF GuessesCounted
<1> QED
  BY <1>3, <1>4

\* Under way alone, a request is the only one that may be guessing.
LEMMA AloneGuesses ==
  ASSUME NEW r \in Request, Alone(r)
  PROVE  \A l \in Link : Guessing(l) <=> job[r].step = "confirmGuess" /\ job[r].link = l
  BY IdleOK DEF Alone, Guessing

\* The slot of a request that starts, or goes on, alone.
LEMMA Solitary ==
  ASSUME Undisturbed, calm, calm', Next
  PROVE  \/ \E r \in Request : Arrive(r) /\ job[r] = Idle /\ Alone(r) /\ Alone(r)'
         \/ \E r \in Request : Advance(r) /\ Alone(r) /\ Alone(r)'
         \/ Apart
<1>1. ASSUME NEW r \in Request, Arrive(r)
      PROVE  job[r] = Idle /\ Alone(r) /\ Alone(r)'
  <2>1. PICK j : Start(r, j)
    BY <1>1, ArriveChanges
  <2>2. job[r] = Idle /\ job' = [job EXCEPT ![r] = j]
    BY <2>1 DEF Start
  <2>3. Alone(r)
    BY <2>1, Zenon DEF Start, Alone
  <2> QED
    BY <2>2, <2>3 DEF Alone
<1>2. ASSUME NEW r \in Request, Advance(r)
      PROVE  Alone(r) /\ Alone(r)'
  <2>1. job[r] # Idle
    BY <1>2, IdleOK DEF Advance, LoginMail, PendSweep, PendInsert, CreateName, CreateCommit, ConfirmUser,
              ConfirmGuess, ConfirmClaim, LinkDrop, LinkInsert, UnlinkCount, UnlinkDelete,
              VerifyCount, VerifyCountFails, ResetWrite, ResetMark, At
  <2>2. Alone(r)
    BY <2>1 DEF Undisturbed, Alone
  <2>3. CASE UnlinkDelete(r)
    <3>1. \A q \in Request \ {r} : job'[q] = Dangling(Idle, job[r].sub)
      BY <2>2, <2>3 DEF UnlinkDelete, Alone
    <3>2. Dangling(Idle, job[r].sub) = Idle
      BY IdleOK DEF Dangling
    <3> QED
      BY <2>2, <3>1, <3>2 DEF Alone
  <2>4. CASE ~UnlinkDelete(r)
    <3>1. \E j : job' = [job EXCEPT ![r] = j]
      BY <1>2, <2>4 DEF Advance, LoginMail, PendSweep, PendInsert, CreateName, CreateCommit, ConfirmUser,
              ConfirmGuess, ConfirmClaim, LinkDrop, LinkInsert, UnlinkCount,
              VerifyCount, VerifyCountFails, ResetWrite, ResetMark, Goto, Finish, Become
    <3> QED
      BY <2>2, <3>1 DEF Alone
  <2> QED
    BY <2>2, <2>3, <2>4
<1>3. ASSUME NEW r \in Request, Abandon(r) PROVE FALSE
  BY <1>3 DEF Abandon
<1> QED
  BY <1>1, <1>2, <1>3, Kinds

\* A request that starts has read what the tables say.
LEMMA StartsFresh ==
  ASSUME Inv, NEW r \in Request, Arrive(r)
  PROVE  Fresh(job[r])' /\ job'[r].step # "confirmGuess"
<1> USE DEF Start
<1>0. /\ UNCHANGED <<link, code, linked, password>> /\ job \in [Request -> Job]
      /\ \A l \in Link : link[l].attempts \in Nat
      /\ \A c \in Code : code[c].attempts \in Nat
  BY ArriveChanges DEF profiles, links, resets, Inv, JobsOK, RowsOK, LinksOK, CodesOK, LinkRow, CodeRow
<1>1. ASSUME NEW l \in Link, ConfirmLink(r, l)
      PROVE  Fresh(job[r])' /\ job'[r].step # "confirmGuess"
  <2>1. CASE link[l].state = "expired" \/ link[l].attempts >= MaxLinkAttempts
    <3>1. job'[r].step = "linkDrop"
      BY <1>0, <1>1, <2>1 DEF ConfirmLink, Idle
    <3> QED
      BY <3>1 DEF Fresh
  <2>2. CASE ~(link[l].state = "expired" \/ link[l].attempts >= MaxLinkAttempts)
    <3>1. /\ job'[r].step = "confirmUser" /\ job'[r].link = l
          /\ job'[r].attempts = link[l].attempts /\ link[l].state # "gone"
      BY <1>0, <1>1, <2>2 DEF ConfirmLink, Idle
    <3> QED
      BY <1>0, <3>1 DEF Fresh
  <2> QED
    BY <2>1, <2>2
<1>2. ASSUME NEW u \in User, NEW s \in Sub, OAuthUnlink(r, u, s)
      PROVE  Fresh(job[r])' /\ job'[r].step # "confirmGuess"
  <2> DEFINE b == u \in password
  <2>1. /\ job'[r].step = "unlinkCount" /\ job'[r].sub = s /\ job'[r].user = u
        /\ linked[s] = u
    BY <1>0, <1>2 DEF OAuthUnlink, Idle
  <2>2. job'[r].flag = b
    <3> HIDE DEF b
    <3>1. job' = [job EXCEPT ![r] = [Idle EXCEPT !.step = "unlinkCount", !.user = u, !.sub = s, !.flag = b]]
      BY <1>2 DEF OAuthUnlink, b
    <3> QED
      BY <1>0, <3>1 DEF Idle
  <2>3. job'[r].flag => u \in password
    BY <2>2
  <2> QED
    BY <1>0, <2>1, <2>3 DEF Fresh
<1>3. ASSUME NEW c \in Code, VerifyResetCode(r, c)
      PROVE  Fresh(job[r])' /\ job'[r].step # "confirmGuess"
  <2>1. job'[r].step = "verifyCount" /\ job'[r].code = c /\ job'[r].attempts = code[c].attempts
    BY <1>0, <1>3 DEF VerifyResetCode, Idle
  <2> QED
    BY <1>0, <2>1 DEF Fresh
<1>4. ASSUME \/ \E s \in Sub, m \in Mail \cup {NoMail} : OAuthLogin(r, s, m)
             \/ \E u \in User, s \in Sub : OAuthLink(r, u, s)
             \/ \E u \in User : ResetPassword(r, u)
      PROVE  Fresh(job[r])' /\ job'[r].step # "confirmGuess"
  <2>1. job'[r].step \in {"loginMail", "linkInsert", "resetWrite"}
    BY <1>0, <1>4 DEF OAuthLogin, OAuthLink, ResetPassword, Idle
  <2> QED
    BY <2>1 DEF Fresh
<1> QED
  BY <1>1, <1>2, <1>3, <1>4 DEF Arrive

\* Where a request goes on to: the steps that rest on something read before.
LEMMA Moves ==
  ASSUME Inv, NEW r \in Request, Advance(r)
  PROVE  \/ /\ ConfirmUser(r) /\ job'[r].step = "confirmGuess" /\ job'[r].link = job[r].link
            /\ job'[r].attempts = job[r].attempts
            /\ guesses' = [guesses EXCEPT ![job[r].link] = @ + 1]
         \/ /\ UnlinkCount(r) /\ job'[r].step = "unlinkDelete" /\ job'[r].user = job[r].user
            /\ job'[r].sub = job[r].sub /\ job'[r].flag = job[r].flag
            /\ ~(~job[r].flag /\ Cardinality(IdentitiesOf(job[r].user)) <= 1)
         \/ /\ job'[r].step \notin {"confirmUser", "confirmGuess", "verifyCount", "unlinkCount",
                                    "unlinkDelete"}
            /\ ConfirmUser(r) => UNCHANGED guesses
<1>0. job \in [Request -> Job] /\ job[r] \in Job /\ Idle.step = "idle"
  BY IdleOK DEF Inv, JobsOK
<1>1. CASE job' = [job EXCEPT ![r] = Idle] \/ UnlinkDelete(r)
  <2>1. job'[r].step = "idle"
    BY <1>0, <1>1 DEF UnlinkDelete
  <2>2. ConfirmUser(r) => UNCHANGED guesses
    <3>1. ASSUME NEW x \in Step \ {"idle"}, Goto(r, x) PROVE job'[r].step = x
      BY <1>0, <3>1 DEF Goto, Become, Job
    <3> QED
      BY <2>1, <3>1 DEF ConfirmUser, Step
  <2> QED
    BY <2>1, <2>2
<1>2. ASSUME NEW x \in Step, Goto(r, x)
      PROVE  /\ job'[r].step = x /\ job'[r].user = job[r].user /\ job'[r].sub = job[r].sub
             /\ job'[r].link = job[r].link /\ job'[r].attempts = job[r].attempts
             /\ job'[r].flag = job[r].flag
  BY <1>0, <1>2 DEF Goto, Become, Job
<1>3. CASE ConfirmUser(r)
  BY <1>1, <1>2, <1>3 DEF ConfirmUser, Finish, Become, Step
<1>4. CASE UnlinkCount(r)
  <2>1. ~ConfirmUser(r)
    BY <1>4 DEF UnlinkCount, ConfirmUser, At
  <2> QED
    BY <1>1, <1>2, <1>4, <2>1 DEF UnlinkCount, Finish, Become, Step
<1>5. CASE LoginMail(r) \/ PendSweep(r) \/ CreateName(r) \/ ConfirmClaim(r) \/ ResetWrite(r)
  <2> DEFINE i == job[r]
  <2>0. /\ \A u \in accounts : [i EXCEPT !.step = "pendSweep", !.user = u].step = "pendSweep"
        /\ \A b : [i EXCEPT !.step = "createCommit", !.flag = b].step = "createCommit"
    <3>1. i \in Job
      BY <1>0
    <3> HIDE DEF i
    <3> QED
      BY <3>1 DEF Job
  <2>1. job'[r].step \in {"idle", "pendSweep", "createName", "pendInsert", "createCommit", "linkDrop", "resetMark"}
    <3>1. CASE LoginMail(r)
      BY <1>0, <1>2, <2>0, <3>1 DEF LoginMail, Become, Step
    <3>2. CASE CreateName(r)
      BY <1>0, <2>0, <3>2 DEF CreateName, Become
    <3>3. CASE PendSweep(r) \/ ConfirmClaim(r) \/ ResetWrite(r)
      BY <1>0, <1>2, <3>3 DEF PendSweep, ConfirmClaim, ResetWrite, Finish, Become, Step
    <3> QED
      BY <1>5, <3>1, <3>2, <3>3
  <2>2. ~ConfirmUser(r)
    BY <1>5 DEF LoginMail, PendSweep, CreateName, ConfirmClaim, ResetWrite, ConfirmUser, At
  <2> QED
    BY <2>1, <2>2
<1>6. CASE PendInsert(r) \/ CreateCommit(r) \/ ConfirmGuess(r) \/ LinkDrop(r) \/ LinkInsert(r)
           \/ VerifyCount(r) \/ VerifyCountFails(r) \/ ResetMark(r)
  BY <1>1, <1>6 DEF PendInsert, CreateCommit, ConfirmGuess, LinkDrop, LinkInsert,
                    VerifyCount, VerifyCountFails, ResetMark, Finish, Become
<1> QED
  BY <1>1, <1>3, <1>4, <1>5, <1>6 DEF Advance

LEMMA StaysFresh ==
  ASSUME Inv, NEW r \in Request, Advance(r), Fresh(job[r])
  PROVE  Fresh(job[r])'
<1>1. CASE ConfirmUser(r) /\ job'[r].step = "confirmGuess" /\ job'[r].link = job[r].link
           /\ job'[r].attempts = job[r].attempts
  BY <1>1 DEF ConfirmUser, At, Fresh
<1>2. CASE UnlinkCount(r) /\ job'[r].step = "unlinkDelete" /\ job'[r].user = job[r].user
           /\ job'[r].sub = job[r].sub /\ job'[r].flag = job[r].flag
           /\ ~(~job[r].flag /\ Cardinality(IdentitiesOf(job[r].user)) <= 1)
  <2>1. UNCHANGED <<linked, password>> /\ job[r].step = "unlinkCount"
    BY <1>2 DEF UnlinkCount, At, profiles, links
  <2>2. job[r].sub \in IdentitiesOf(job[r].user)
    BY <2>1 DEF Fresh, IdentitiesOf
  <2>3. IdentitiesOf(job[r].user) # {job[r].sub} \/ job[r].flag
    <3>1. Cardinality({job[r].sub}) = 1
      BY FS_Singleton
    <3>2. job[r].flag \/ ~(Cardinality(IdentitiesOf(job[r].user)) <= 1)
      BY <1>2
    <3> QED
      BY <3>1, <3>2
  <2>4. job[r].flag \/ \E t \in Sub \ {job[r].sub} : linked[t] = job[r].user
    BY <2>2, <2>3 DEF IdentitiesOf
  <2> QED
    BY <1>2, <2>1, <2>4 DEF Fresh
<1>3. CASE job'[r].step \notin {"confirmUser", "confirmGuess", "verifyCount", "unlinkCount",
                                "unlinkDelete"}
  BY <1>3 DEF Fresh
<1> QED
  BY <1>1, <1>2, <1>3, Moves

\* The statement a request is about to execute is the one it executes.
LEMMA GuessStep ==
  ASSUME NEW r \in Request, Advance(r), job[r].step = "confirmGuess"
  PROVE  ConfirmGuess(r)
  BY DEF Advance, LoginMail, PendSweep, PendInsert, CreateName, CreateCommit, ConfirmUser,
         ConfirmClaim, LinkDrop, LinkInsert, UnlinkCount, UnlinkDelete,
         VerifyCount, VerifyCountFails, ResetWrite, ResetMark, At

LEMMA GuessesKept ==
  ASSUME Inv, Undisturbed, NEW r \in Request, Advance(r), Alone(r), Alone(r)'
  PROVE  GuessesCounted'
<1> SUFFICES ASSUME NEW l \in Link
             PROVE  /\ link'[l].state = "undrawn" => guesses'[l] = 0
                    /\ link'[l].state = "gone" => guesses'[l] <= MaxLinkAttempts
                    /\ link'[l].state # "gone" =>
                           guesses'[l] = link'[l].attempts + (IF Guessing(l)' THEN 1 ELSE 0)
  BY DEF GuessesCounted
<1>1. /\ link \in [Link -> LinkRow] /\ link[l].attempts \in Nat /\ guesses \in [Link -> Nat]
      /\ job[r] \in Job /\ Holds(job[r]) /\ Fresh(job[r])
      /\ guesses[l] <= MaxLinkAttempts
  BY GuessesBounded DEF Inv, RowsOK, LinksOK, LinkRow, JobsOK, Undisturbed
<1>2. Guessing(l) <=> job[r].step = "confirmGuess" /\ job[r].link = l
  BY AloneGuesses
<1>3. Guessing(l)' <=> job'[r].step = "confirmGuess" /\ job'[r].link = l
  BY IdleOK DEF Alone, Guessing
<1>4. /\ link[l].state = "undrawn" => guesses[l] = 0
      /\ link[l].state # "gone" => guesses[l] = link[l].attempts + (IF Guessing(l) THEN 1 ELSE 0)
  BY DEF Undisturbed, GuessesCounted
<1>5. CASE ConfirmUser(r) /\ job'[r].step = "confirmGuess"
  <2>1. /\ job'[r].link = job[r].link /\ guesses' = [guesses EXCEPT ![job[r].link] = @ + 1]
        /\ UNCHANGED link /\ job[r].step = "confirmUser"
    BY <1>5, Moves DEF ConfirmUser, At
  <2>2. link[job[r].link].state \notin {"undrawn", "gone"}
    BY <1>1, <2>1 DEF Holds, Fresh
  <2>3. ~Guessing(l)
    BY <1>2, <2>1
  <2>4. CASE l = job[r].link
    BY <1>1, <1>3, <1>4, <1>5, <2>1, <2>2, <2>3, <2>4
  <2>5. CASE l # job[r].link
    BY <1>1, <1>3, <1>4, <2>1, <2>3, <2>5
  <2> QED
    BY <2>4, <2>5
<1>6. ASSUME job'[r].step # "confirmGuess" \/ ~ConfirmUser(r)
      PROVE  ~Guessing(l)' /\ UNCHANGED guesses
  <2>1. job'[r].step # "confirmGuess"
    BY <1>6, Moves
  <2>2. UNCHANGED guesses
    <3>1. UnlinkCount(r) => UNCHANGED guesses
      BY DEF UnlinkCount, links
    <3> QED
      BY <2>1, <3>1, Moves, AdvanceChanges
  <2> QED
    BY <1>3, <2>1, <2>2
<1>7. CASE ConfirmGuess(r)
  <2>0. job[r].step = "confirmGuess" /\ ~ConfirmUser(r)
    BY <1>7 DEF ConfirmGuess, ConfirmUser, At
  <2>1. /\ job[r].link \in Link /\ link[job[r].link].state \notin {"undrawn", "gone"}
        /\ link[job[r].link].attempts = job[r].attempts
    BY <1>1, <2>0 DEF Holds, Fresh
  <2>2. link'[l].state = link[l].state
    BY <1>1, <1>7 DEF ConfirmGuess, LinkRow
  <2>3. link'[l].attempts = IF l = job[r].link THEN link[l].attempts + 1 ELSE link[l].attempts
    BY <1>1, <1>7, <2>1 DEF ConfirmGuess, LinkRow
  <2> QED
    BY <1>1, <1>2, <1>4, <1>6, <2>0, <2>1, <2>2, <2>3
<1>8. CASE ~ConfirmGuess(r) /\ (job'[r].step # "confirmGuess" \/ ~ConfirmUser(r))
  <2>1. ~Guessing(l)
    BY <1>2, <1>8, GuessStep
  <2>2. \/ link'[l].state = "gone"
        \/ link'[l].state = "live" /\ link'[l].attempts = 0 /\ link[l].state = "undrawn"
        \/ link'[l] = link[l]
    <3>1. CASE PendSweep(r)
      BY <1>1, <3>1 DEF PendSweep, LinkRow
    <3>2. CASE PendInsert(r)
      BY <1>1, <3>2 DEF PendInsert, LinkRow
    <3>3. CASE ConfirmClaim(r) \/ LinkDrop(r)
      BY <1>1, <3>3 DEF ConfirmClaim, LinkDrop, LinkRow
    <3> QED
      BY <1>8, <3>1, <3>2, <3>3, AdvanceChanges
  <2> QED
    BY <1>1, <1>4, <1>6, <1>8, <2>1, <2>2
<1> QED
  BY <1>5, <1>7, <1>8

LEMMA VerifiedKept ==
  ASSUME Inv, Undisturbed, NEW r \in Request, Advance(r), calm'
  PROVE  VerifiedCounted'
<1>1. /\ code \in [Code -> CodeRow] /\ verified \in [Code -> Nat]
      /\ \A c \in Code : code[c].state = "undrawn" <=> code[c].user = NoUser
      /\ job[r] \in Job /\ Holds(job[r]) /\ Fresh(job[r])
      /\ accounts \subseteq User
      /\ \A c \in Code : verified[c] = code[c].attempts
      /\ \A c \in Code : code[c].state = "undrawn" => verified[c] = 0
  BY DEF Inv, RowsOK, CodesOK, ProfilesOK, JobsOK, Undisturbed, VerifiedCounted
<1>2. CASE VerifyCount(r)
  <2>1. /\ job[r].code \in Code /\ code[job[r].code].user \in User
        /\ code[job[r].code].attempts = job[r].attempts
    BY <1>1, <1>2 DEF VerifyCount, At, Holds, Fresh
  <2>2. \A c \in Code : code'[c].state = code[c].state
    BY <1>1, <1>2 DEF VerifyCount, CodeRow
  <2>3. \A c \in Code : code'[c].attempts = IF c = job[r].code THEN job[r].attempts + 1 ELSE code[c].attempts
    BY <1>1, <1>2, <2>1 DEF VerifyCount, CodeRow
  <2>4. \A c \in Code : verified'[c] = IF c = job[r].code THEN verified[c] + 1 ELSE verified[c]
    BY <1>1, <1>2 DEF VerifyCount, GiveToken
  <2> QED
    BY <1>1, <2>1, <2>2, <2>3, <2>4 DEF VerifiedCounted
<1>3. CASE ResetMark(r)
  <2>1. job[r].user \in accounts
    BY <1>1, <1>3 DEF ResetMark, At, Holds
  <2>2. \A c \in Code : /\ code'[c].attempts = code[c].attempts /\ verified'[c] = verified[c]
                        /\ code'[c].state = "undrawn" => code[c].state = "undrawn"
    BY <1>1, <1>3, <2>1 DEF ResetMark, CodeRow
  <2> QED
    BY <1>1, <2>2 DEF VerifiedCounted
<1>4. ~VerifyCountFails(r)
  BY DEF VerifyCountFails
<1>5. CASE UNCHANGED resets
  BY <1>1, <1>5 DEF resets, VerifiedCounted
<1> QED
  BY <1>2, <1>3, <1>4, <1>5, AdvanceChanges

LEMMA SignInKept ==
  ASSUME Inv, Undisturbed, NEW r \in Request, Advance(r)
  PROVE  CanSignIn'
<1> SUFFICES ASSUME NEW u \in accounts' PROVE u \in password' \/ \E s \in Sub : linked'[s] = u
  BY DEF CanSignIn, IdentitiesOf
<1>1. /\ linked \in [Sub -> accounts \cup {NoUser}] /\ job[r] \in Job
      /\ Holds(job[r]) /\ Fresh(job[r])
      /\ \A v \in accounts : v \in password \/ \E s \in Sub : linked[s] = v
      /\ NoUser \notin accounts
      /\ link \in [Link -> LinkRow]
  BY DEF Inv, RowsOK, IdentitiesOK, ProfilesOK, LinksOK, JobsOK, Undisturbed, CanSignIn, IdentitiesOf
<1>2. password \subseteq password'
  BY AdvanceChanges DEF profiles, CreateCommit, ResetWrite, StorePassword
<1>3. CASE u \notin accounts
  BY <1>3, CreateKeeps, AdvanceChanges DEF Inv, RowsOK, profiles, ResetWrite, StorePassword
<1>4. CASE u \in accounts /\ UnlinkDelete(r)
  <2>1. /\ job[r].step = "unlinkDelete" /\ UNCHANGED password
        /\ linked' = [t \in Sub |-> IF t = job[r].sub THEN NoUser ELSE linked[t]]
    BY <1>4 DEF UnlinkDelete, At, profiles
  <2>2. /\ job[r].sub \in Sub /\ linked[job[r].sub] = job[r].user
        /\ job[r].user \in password \/ \E t \in Sub \ {job[r].sub} : linked[t] = job[r].user
    BY <1>1, <2>1 DEF Fresh
  <2>3. CASE u = job[r].user
    BY <2>1, <2>2, <2>3
  <2>4. CASE u # job[r].user
    BY <1>1, <1>4, <2>1, <2>2, <2>4
  <2> QED
    BY <2>3, <2>4
<1>5. CASE u \in accounts /\ ~UnlinkDelete(r)
  <2>1. \A s \in Sub : linked[s] # NoUser => linked'[s] = linked[s]
    <3>1. CASE CreateCommit(r)
      BY <1>1, <3>1 DEF CreateCommit, links
    <3>2. CASE ConfirmClaim(r)
      BY <1>1, <3>2 DEF ConfirmClaim, CanLink
    <3>3. CASE LinkInsert(r)
      BY <1>1, <3>3 DEF LinkInsert, CanLink
    <3> QED
      BY <1>5, <3>1, <3>2, <3>3, AdvanceChanges
  <2> QED
    BY <1>1, <1>2, <1>5, <2>1
<1> QED
  BY <1>3, <1>4, <1>5

\* Signups, passwords, new codes and the clock.
LEMMA ApartKeeps ==
  ASSUME Inv, Undisturbed, Apart
  PROVE  Undisturbed'
<1>1. /\ link \in [Link -> LinkRow] /\ code \in [Code -> CodeRow] /\ verified \in [Code -> Nat]
      /\ \A r \in Request : job[r] \in Job /\ Holds(job[r]) /\ Fresh(job[r])
      /\ \A c \in Code : code[c].state = "undrawn" <=> code[c].user = NoUser
      /\ accounts \subseteq User
  BY DEF Inv, RowsOK, LinksOK, CodesOK, ProfilesOK, JobsOK, Undisturbed
<1>2. UNCHANGED <<linked, guesses, claims, verified, job, calm>>
  BY ApartChanges
<1>3. /\ password \subseteq password'
      /\ \A u \in accounts' : u \in accounts \/ u \in password'
  BY DEF Apart, SignUp, AddAccount, ChangeUserPassword, StorePassword, 
         ForgotPassword, LinkExpires, CodeExpires, profiles
<1>4. \A l \in Link : /\ link'[l].attempts = link[l].attempts
                      /\ \/ link'[l].state = link[l].state
                         \/ link[l].state = "live" /\ link'[l].state = "expired"
  <2>1. UNCHANGED link \/ \E l \in Link : LinkExpires(l)
    BY DEF Apart, SignUp, ChangeUserPassword, ForgotPassword, CodeExpires, links
  <2>2. ASSUME NEW i \in Link, LinkExpires(i), NEW l \in Link
        PROVE  /\ link'[l].attempts = link[l].attempts
               /\ \/ link'[l].state = link[l].state
                  \/ link[l].state = "live" /\ link'[l].state = "expired"
    BY <1>1, <2>2 DEF LinkExpires, LinkRow
  <2> QED
    BY <2>1, <2>2
<1>5. \A c \in Code :
         \/ code'[c].attempts = code[c].attempts
            /\ (code'[c].state = "undrawn" => code[c].state = "undrawn")
         \/ code[c].state = "undrawn" /\ code'[c].attempts = 0
  <2>1. \/ UNCHANGED code
        \/ \E u \in User, c \in Code : ForgotPassword(u, c)
        \/ \E c \in Code : CodeExpires(c)
    BY DEF Apart, SignUp, ChangeUserPassword, LinkExpires, resets
  <2> QED
    BY <1>1, <2>1 DEF ForgotPassword, CodeExpires, CodeRow
<1>6. \A c \in Code : code'[c].state = "undrawn" => code[c].state = "undrawn"
  <2>1. \/ UNCHANGED code
        \/ \E u \in User, c \in Code : ForgotPassword(u, c)
        \/ \E c \in Code : CodeExpires(c)
    BY DEF Apart, SignUp, ChangeUserPassword, LinkExpires, resets
  <2> QED
    BY <1>1, <2>1 DEF ForgotPassword, CodeExpires, CodeRow
<1>7. \A r \in Request : Fresh(job[r])'
  <2> SUFFICES ASSUME NEW r \in Request PROVE Fresh(job[r])'
    OBVIOUS
  <2>1. job[r] \in Job /\ Holds(job[r]) /\ Fresh(job[r]) /\ UNCHANGED <<job, linked>>
    BY <1>1, <1>2
  <2>2. job[r].step = "verifyCount" => code[job[r].code].state # "undrawn" /\ job[r].code \in Code
    BY <1>1, <2>1 DEF Holds
  <2> QED
    BY <1>3, <1>4, <1>5, <2>1, <2>2 DEF Fresh, Holds
<1>8. GuessesCounted'
  <2>1. \A l \in Link : Guessing(l)' <=> Guessing(l)
    BY <1>2 DEF Guessing
  <2> QED
    BY <1>1, <1>2, <1>4, <2>1 DEF GuessesCounted, Undisturbed
<1>9. VerifiedCounted'
  BY <1>2, <1>5, <1>6 DEF VerifiedCounted, Undisturbed
<1>10. CanSignIn'
  BY <1>2, <1>3 DEF CanSignIn, IdentitiesOf, Undisturbed
<1>11. \A q, r \in Request : job'[q] # Idle /\ job'[r] # Idle => q = r
  BY <1>2 DEF Undisturbed
<1> QED
  BY <1>7, <1>8, <1>9, <1>10, <1>11 DEF Undisturbed

LEMMA ArriveKeeps ==
  ASSUME Inv, Undisturbed, NEW r \in Request, Arrive(r), Alone(r), Alone(r)', job[r] = Idle
  PROVE  Undisturbed'
<1>1. UNCHANGED <<accounts, password, linked, link, guesses, code, verified>>
  BY ArriveChanges DEF profiles, links, resets
<1>2. Fresh(job[r])' /\ job'[r].step # "confirmGuess"
  BY StartsFresh
<1>3. \A q \in Request \ {r} : job'[q] = Idle
  BY DEF Alone
<1>4. \A q \in Request : Fresh(job[q])'
  BY <1>2, <1>3, IdleOK DEF Fresh
<1>5. \A l \in Link : ~Guessing(l) /\ ~Guessing(l)'
  BY <1>2, <1>3, IdleOK DEF Guessing, Alone
<1>6. GuessesCounted'
  BY <1>1, <1>5 DEF GuessesCounted, Undisturbed
<1>7. VerifiedCounted' /\ CanSignIn'
  BY <1>1 DEF VerifiedCounted, CanSignIn, IdentitiesOf, Undisturbed
<1>8. \A p, q \in Request : job'[p] # Idle /\ job'[q] # Idle => p = q
  BY <1>3
<1> QED
  BY <1>4, <1>6, <1>7, <1>8 DEF Undisturbed

LEMMA AdvanceKeeps ==
  ASSUME Inv, Undisturbed, NEW r \in Request, Advance(r), Alone(r), Alone(r)', calm'
  PROVE  Undisturbed'
<1>1. GuessesCounted' /\ VerifiedCounted' /\ CanSignIn'
  BY GuessesKept, VerifiedKept, SignInKept
<1>2. Fresh(job[r])'
  BY StaysFresh DEF Undisturbed
<1>3. \A q \in Request \ {r} : job'[q] = Idle
  BY DEF Alone
<1>4. \A q \in Request : Fresh(job[q])'
  BY <1>2, <1>3, IdleOK DEF Fresh
<1>5. \A p, q \in Request : job'[p] # Idle /\ job'[q] # Idle => p = q
  BY <1>3
<1> QED
  BY <1>1, <1>4, <1>5 DEF Undisturbed

LEMMA CalmAlways == Spec => []CalmInv
<1>1. Init => CalmInv
  <2> SUFFICES ASSUME Init PROVE Undisturbed
    BY DEF CalmInv
  <2> USE DEF Init
  <2>1. \A r \in Request : Fresh(job[r])
    BY IdleOK DEF Fresh
  <2>2. GuessesCounted
    BY IdleOK DEF GuessesCounted, Guessing, NoLinkRow
  <2>3. VerifiedCounted /\ CanSignIn
    BY DEF VerifiedCounted, CanSignIn, NoCodeRow
  <2> QED
    BY <2>1, <2>2, <2>3 DEF Undisturbed
<1>2. Inv /\ CalmInv /\ [Next]_vars => CalmInv'
  <2> SUFFICES ASSUME Inv, CalmInv, [Next]_vars, calm' PROVE Undisturbed'
    BY DEF CalmInv
  <2>1. CASE UNCHANGED vars
    BY <2>1 DEF CalmInv, vars, profiles, links, resets, Undisturbed, Fresh, GuessesCounted, Guessing,
                VerifiedCounted, CanSignIn, IdentitiesOf
  <2>2. CASE Next
    <3>1. calm
      <4>1. ASSUME NEW r \in Request, NEW j, Start(r, j) PROVE calm
        BY <4>1 DEF Start
      <4>2. ASSUME NEW r \in Request, Advance(r) PROVE calm
        BY <4>2 DEF Advance, LoginMail, PendSweep, PendInsert, CreateName, CreateCommit, ConfirmUser,
              ConfirmGuess, ConfirmClaim, LinkDrop, LinkInsert, UnlinkCount, UnlinkDelete,
              VerifyCount, VerifyCountFails, ResetWrite, ResetMark, Goto, Finish, Become
      <4> QED
        BY <2>2, <4>1, <4>2, ArriveChanges, ApartChanges, Kinds DEF Abandon
    <3>2. Undisturbed
      BY <3>1 DEF CalmInv
    <3> QED
      BY <2>2, <3>1, <3>2, Solitary, ArriveKeeps, AdvanceKeeps, ApartKeeps
  <2> QED
    BY <2>1, <2>2
<1> QED
  BY <1>1, <1>2, InvAlways, PTL DEF Spec

\* OAuthConfirmLink and VerifyResetCode read a count, compare it and write it
\* back in separate statements: while requests do not overlap and nothing fails
\* no count is lost, so no link takes more guesses and no code yields more
\* tokens than the limits say.
THEOREM AttemptsAreCounted == Spec => []AttemptsCounted
<1>1. Inv /\ CalmInv => AttemptsCounted
  <2> SUFFICES ASSUME Inv, Undisturbed
               PROVE  /\ \A l \in Link : guesses[l] <= MaxLinkAttempts
                      /\ \A c \in Code : verified[c] <= MaxCodeAttempts
    BY DEF CalmInv, AttemptsCounted
  <2>1. \A c \in Code : code[c].attempts \in 0 .. MaxCodeAttempts
    BY DEF Inv, RowsOK, CodesOK, CodeRow
  <2> QED
    BY <2>1, GuessesBounded DEF Undisturbed, VerifiedCounted
<1> QED
  BY <1>1, InvAlways, CalmAlways, PTL

\* OAuthUnlink counts the identities before it deletes one: while requests do not
\* overlap and nothing fails, no account loses its last way to sign in.
THEOREM AccountsKeepSignIn == Spec => []KeepsSignIn
<1>1. CalmInv => KeepsSignIn
  BY DEF CalmInv, Undisturbed, CanSignIn, KeepsSignIn
<1> QED
  BY <1>1, CalmAlways, PTL
=============================================================================
