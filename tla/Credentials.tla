----------------------------- MODULE Credentials -----------------------------
(***************************************************************************)
(* How users prove who they are: passwords, external identities, the       *)
(* pending links of an e-mail collision, and password reset codes.         *)
(*                                                                         *)
(* One action is one SQL statement, or one transaction, of a handler; a    *)
(* request slot holds what its handler has read so far.  Addresses do not  *)
(* change here, and accounts are not deleted.  A request to a provider     *)
(* answers with an identity (a sub) and perhaps an address; what the       *)
(* provider does is outside.                                               *)
(*                                                                         *)
(* The schema lives in another repository.  From the constraint names and  *)
(* comments of the code the model takes: an identity is unique by provider *)
(* and sub, and by user and provider; usernames and addresses are unique;  *)
(* a missing address conflicts with nothing.                               *)
(***************************************************************************)

EXTENDS FiniteSets, Naturals

CONSTANTS
    User,
    Sub,                \* identities at the providers
    Provider,
    ProviderOf,         \* the provider of each identity
    Mail,
    Lower,              \* addresses in lower case
    Link,               \* rows of oauth_pending_link
    Code,               \* rows of password_reset_tokens
    Request,            \* concurrent request slots
    MaxLinkAttempts,    \* maxPendingLinkAttempts
    MaxCodeAttempts,    \* the literal 3 of VerifyResetCode
    NoUser, NoSub, NoMail, NoLink, NoCode

ASSUME MailAssumption == Lower \in [Mail -> Mail]
ASSUME ProviderAssumption == ProviderOf \in [Sub -> Provider]
ASSUME AttemptsAssumption == MaxLinkAttempts \in Nat /\ MaxCodeAttempts \in Nat
ASSUME NoneAssumption ==
    /\ NoUser \notin User /\ NoSub \notin Sub /\ NoMail \notin Mail
    /\ NoLink \notin Link /\ NoCode \notin Code

VARIABLES
    accounts,   \* users with a row in user_profile
    mail,       \* their addresses
    password,   \* users whose password is not NULL
    named,      \* subs whose synthesized username is taken
    linked,     \* user_external_identity: the user of each sub
    link,       \* oauth_pending_link
    code,       \* password_reset_tokens
    job,        \* what each request slot is doing
    calm,       \* history: requests have not overlapped, nothing has failed
    guesses,    \* history: wrong passwords tried on each pending link
    claims,     \* history: identities created from each pending link
    verified    \* history: temporary tokens given out for each code

profiles == <<accounts, mail, password, named>>
resets == <<code, verified>>
links == <<linked, link, guesses, claims>>
vars == <<profiles, links, resets, job, calm>>

Idle == [step |-> "idle", user |-> NoUser, sub |-> NoSub, mail |-> NoMail,
         link |-> NoLink, code |-> NoCode, attempts |-> 0, flag |-> FALSE]

NoLinkRow == [state |-> "undrawn", user |-> NoUser, sub |-> NoSub, attempts |-> 0]
NoCodeRow == [state |-> "undrawn", user |-> NoUser, attempts |-> 0]

LinkRow == [state : {"undrawn", "live", "expired", "gone"}, user : User \cup {NoUser},
            sub : Sub \cup {NoSub}, attempts : 0 .. MaxLinkAttempts]

CodeRow == [state : {"undrawn", "live", "expired", "used"}, user : User \cup {NoUser},
            attempts : 0 .. MaxCodeAttempts]

Step == {"idle", "loginMail", "pendSweep", "pendInsert", "createName",
         "createCommit", "confirmUser", "confirmGuess", "confirmClaim",
         "linkDrop", "linkInsert", "unlinkCount", "unlinkDelete",
         "verifyCount", "resetWrite", "resetMark"}

Job == [step : Step, user : User \cup {NoUser}, sub : Sub \cup {NoSub},
        mail : Mail \cup {NoMail}, link : Link \cup {NoLink},
        code : Code \cup {NoCode}, attempts : Nat, flag : BOOLEAN]

\* What a request holds at a step is what its handler has read by then.
Holds(j) ==
    /\ j.step \in {"loginMail", "pendSweep", "pendInsert", "createName", "createCommit",
                   "linkInsert"} => j.sub \in Sub
    /\ j.step \in {"pendSweep", "pendInsert", "linkInsert",
                   "unlinkCount", "unlinkDelete", "resetWrite", "resetMark"}
           => j.user \in accounts
    /\ j.step \in {"confirmUser", "confirmGuess", "confirmClaim", "linkDrop"}
           => j.link \in Link /\ link[j.link].state # "undrawn"
    /\ j.step \in {"confirmUser", "confirmGuess"} => j.attempts < MaxLinkAttempts
    /\ j.step = "verifyCount" =>
           j.code \in Code /\ code[j.code].user \in User /\ j.attempts < MaxCodeAttempts

TypeOK ==
    /\ accounts \subseteq User
    /\ mail \in [User -> Mail \cup {NoMail}]
    /\ password \subseteq accounts
    /\ named \subseteq Sub
    /\ linked \in [Sub -> accounts \cup {NoUser}]
    /\ link \in [Link -> LinkRow]
    /\ \A l \in Link : link[l].state # "undrawn" =>
           link[l].user \in accounts /\ link[l].sub \in Sub
    /\ code \in [Code -> CodeRow]
    /\ \A c \in Code : code[c].state # "undrawn" => code[c].user \in accounts
    /\ job \in [Request -> Job]
    /\ \A r \in Request : Holds(job[r])
    /\ calm \in BOOLEAN
    /\ guesses \in [Link -> Nat]
    /\ claims \in [Link -> Nat]
    /\ verified \in [Code -> Nat]
    \* UNIQUE(email) and UNIQUE(user_profile_id, provider)
    /\ \A u, v \in User : u # v /\ mail[u] = mail[v] => mail[u] = NoMail
    /\ \A s, t \in Sub : s # t /\ ProviderOf[s] = ProviderOf[t] /\ linked[s] = linked[t]
                             => linked[s] = NoUser

Init ==
    /\ accounts = {}
    /\ mail = [u \in User |-> NoMail]
    /\ password = {}
    /\ named = {}
    /\ linked = [s \in Sub |-> NoUser]
    /\ link = [l \in Link |-> NoLinkRow]
    /\ code = [c \in Code |-> NoCodeRow]
    /\ job = [r \in Request |-> Idle]
    /\ calm = TRUE
    /\ guesses = [l \in Link |-> 0]
    /\ claims = [l \in Link |-> 0]
    /\ verified = [c \in Code |-> 0]

-----------------------------------------------------------------------------
(* Jobs *)

Start(r, j) ==
    /\ job[r] = Idle
    /\ job' = [job EXCEPT ![r] = j]
    /\ calm' = (calm /\ \A q \in Request \ {r} : job[q] = Idle)

At(r, step) == job[r].step = step

Become(r, j) == job' = [job EXCEPT ![r] = j] /\ UNCHANGED calm

Goto(r, step) == Become(r, [job[r] EXCEPT !.step = step])

Finish(r) == Become(r, Idle)

(* Rows *)

Available(m) == m = NoMail \/ \A u \in accounts : mail[u] # m

\* Whether two addresses differ at most in case, which the keys do not look at.
SameAddress(m, n) == m # NoMail /\ n # NoMail /\ Lower[m] = Lower[n]

\* The keys of user_external_identity allow a row for user u and identity s.
CanLink(s, u) ==
    /\ linked[s] = NoUser
    /\ \A t \in Sub : ProviderOf[t] = ProviderOf[s] => linked[t] # u

AddAccount(u, m) ==
    /\ u \notin accounts
    /\ accounts' = accounts \cup {u}
    /\ mail' = [mail EXCEPT ![u] = m]

StorePassword(u) ==
    /\ password' = password \cup {u}
    /\ UNCHANGED <<accounts, mail, named>>

-----------------------------------------------------------------------------
(* Signup, SetPassword, ChangeUserPassword *)

\* The checks before the INSERT turn a request away or let the keys decide.
SignUp(u, m) ==
    /\ Available(m)
    /\ AddAccount(u, m)
    /\ password' = password \cup {u}
    /\ UNCHANGED <<named, links, resets, job, calm>>

PublicUserSignup(u, m) == m # NoMail /\ SignUp(u, m)

\* By an admin, who may leave the address out.
UserSignup(u, m) == SignUp(u, m)

\* By the user, or by an admin for someone else.
ChangeUserPassword(u) ==
    /\ u \in accounts
    /\ StorePassword(u)
    /\ UNCHANGED <<links, resets, job, calm>>

SetPassword(u) ==
    /\ u \notin password
    /\ ChangeUserPassword(u)

-----------------------------------------------------------------------------
(* OAuthLogin *)

\* An identity that is linked signs its user in and changes nothing here.
OAuthLogin(r, s, m) ==
    /\ linked[s] = NoUser
    /\ Start(r, [Idle EXCEPT !.step = "loginMail", !.sub = s, !.mail = m])
    /\ UNCHANGED <<profiles, links, resets>>

\* An account with the address: never a merge, but a pending link.
LoginMail(r) ==
    /\ At(r, "loginMail")
    /\ LET m == job[r].mail
           owners == {u \in accounts : SameAddress(mail[u], m)}
       IN  \/ \E u \in owners :
                 Become(r, [job[r] EXCEPT !.step = "pendSweep", !.user = u])
           \/ owners = {} /\ Goto(r, "createName")
    /\ UNCHANGED <<profiles, links, resets>>

\* createPendingLink: expired rows go first, then the new row is written.
PendSweep(r) ==
    /\ At(r, "pendSweep")
    /\ link' = [l \in Link |-> IF link[l].state = "expired"
                               THEN [link[l] EXCEPT !.state = "gone"] ELSE link[l]]
    /\ Goto(r, "pendInsert")
    /\ UNCHANGED <<profiles, linked, guesses, claims, resets>>

PendInsert(r) ==
    /\ At(r, "pendInsert")
    /\ \E l \in Link :
          /\ link[l].state = "undrawn"
          /\ link' = [link EXCEPT ![l] = [state |-> "live", user |-> job[r].user,
                                          sub |-> job[r].sub, attempts |-> 0]]
    /\ Finish(r)
    /\ UNCHANGED <<profiles, linked, guesses, claims, resets>>

\* synthesizeUsername: the name of the sub, or one with a random suffix.
CreateName(r) ==
    /\ At(r, "createName")
    /\ Become(r, [job[r] EXCEPT !.step = "createCommit", !.flag = job[r].sub \in named])
    /\ UNCHANGED <<profiles, links, resets>>

\* Mutant of CreateCommit: the profile is committed before the identity.
CreateCommitInTwo(r) ==
    /\ At(r, "createCommit")
    /\ LET s == job[r].sub
           m == job[r].mail
       IN  IF Available(m) /\ (job[r].flag \/ s \notin named)
           THEN /\ \E u \in User :
                      /\ AddAccount(u, m)
                      /\ linked' = IF linked[s] = NoUser THEN [linked EXCEPT ![s] = u]
                                                         ELSE linked
                /\ named' = IF job[r].flag THEN named ELSE named \cup {s}
                /\ UNCHANGED <<password, link, guesses, claims>>
           ELSE UNCHANGED <<profiles, links>>
    /\ Finish(r)
    /\ UNCHANGED resets

\* createOAuthUser: profile and identity in one transaction.  A conflict on
\* the address, the username or the identity rolls it back, and the answer is
\* then the account that holds the identity, or an error.
CreateCommit(r) ==
    /\ At(r, "createCommit")
    /\ LET s == job[r].sub
           m == job[r].mail
       IN  IF Available(m) /\ (job[r].flag \/ s \notin named) /\ linked[s] = NoUser
           THEN /\ \E u \in User : AddAccount(u, m) /\ linked' = [linked EXCEPT ![s] = u]
                /\ named' = IF job[r].flag THEN named ELSE named \cup {s}
                /\ UNCHANGED <<password, link, guesses, claims>>
           ELSE UNCHANGED <<profiles, links>>
    /\ Finish(r)
    /\ UNCHANGED resets

-----------------------------------------------------------------------------
(* OAuthConfirmLink *)

\* Mutant of ConfirmLink: the attempts are not looked at.
ConfirmLinkAnyAttempts(r, l) ==
    /\ link[l].state \in {"live", "expired"}
    /\ LET step == IF link[l].state = "expired" THEN "linkDrop" ELSE "confirmUser"
       IN  Start(r, [Idle EXCEPT !.step = step, !.link = l,
                                 !.attempts = IF step = "confirmUser"
                                              THEN link[l].attempts ELSE 0])
    /\ UNCHANGED <<profiles, links, resets>>

\* A row that has expired, or has no attempts left, is deleted.
ConfirmLink(r, l) ==
    /\ link[l].state \in {"live", "expired"}
    /\ LET step == IF link[l].state = "expired" \/ link[l].attempts >= MaxLinkAttempts
                   THEN "linkDrop" ELSE "confirmUser"
       IN  Start(r, [Idle EXCEPT !.step = step, !.link = l,
                                 !.attempts = IF step = "confirmUser"
                                              THEN link[l].attempts ELSE 0])
    /\ UNCHANGED <<profiles, links, resets>>

\* The password is compared; an account without one cannot confirm.
ConfirmUser(r) ==
    /\ At(r, "confirmUser")
    /\ LET l == job[r].link IN
           \/ /\ link[l].user \notin password
              /\ Finish(r)
              /\ UNCHANGED guesses
           \/ /\ link[l].user \in password
              /\ Goto(r, "confirmClaim")
              /\ UNCHANGED guesses
           \/ /\ link[l].user \in password
              /\ Goto(r, "confirmGuess")
              /\ guesses' = [guesses EXCEPT ![l] = @ + 1]
    /\ UNCHANGED <<profiles, linked, link, claims, resets>>

\* The count that was read, plus one, is written back.
ConfirmGuess(r) ==
    /\ At(r, "confirmGuess")
    /\ LET l == job[r].link IN
           link' = IF link[l].state = "gone" THEN link
                   ELSE [link EXCEPT ![l].attempts = job[r].attempts + 1]
    /\ Finish(r)
    /\ UNCHANGED <<profiles, linked, guesses, claims, resets>>

\* Mutant of ConfirmClaim: whether the DELETE found the row is not looked at.
ConfirmClaimTwice(r) ==
    /\ At(r, "confirmClaim")
    /\ LET l == job[r].link
           s == link[l].sub
           u == link[l].user
       IN  IF CanLink(s, u)
           THEN /\ linked' = [linked EXCEPT ![s] = u]
                /\ link' = [link EXCEPT ![l].state = "gone"]
                /\ claims' = [claims EXCEPT ![l] = @ + 1]
                /\ Finish(r)
           ELSE Goto(r, "linkDrop") /\ UNCHANGED <<linked, link, claims>>
    /\ UNCHANGED <<profiles, guesses, resets>>

\* One transaction: the DELETE claims the row and the identity is inserted.  A
\* conflict rolls both back, and the row is dropped by a further statement.
ConfirmClaim(r) ==
    /\ At(r, "confirmClaim")
    /\ LET l == job[r].link
           s == link[l].sub
           u == link[l].user
       IN  \/ /\ link[l].state = "gone"
              /\ Finish(r)
              /\ UNCHANGED <<linked, link, claims>>
           \/ /\ link[l].state # "gone"
              /\ CanLink(s, u)
              /\ linked' = [linked EXCEPT ![s] = u]
              /\ link' = [link EXCEPT ![l].state = "gone"]
              /\ claims' = [claims EXCEPT ![l] = @ + 1]
              /\ Finish(r)
           \/ /\ link[l].state # "gone"
              /\ ~ CanLink(s, u)
              /\ Goto(r, "linkDrop")
              /\ UNCHANGED <<linked, link, claims>>
    /\ UNCHANGED <<profiles, guesses, resets>>

LinkDrop(r) ==
    /\ At(r, "linkDrop")
    /\ link' = [link EXCEPT ![job[r].link].state = "gone"]
    /\ Finish(r)
    /\ UNCHANGED <<profiles, linked, guesses, claims, resets>>

LinkExpires(l) ==
    /\ link[l].state = "live"
    /\ link' = [link EXCEPT ![l].state = "expired"]
    /\ UNCHANGED <<profiles, linked, guesses, claims, resets, job, calm>>

-----------------------------------------------------------------------------
(* OAuthLink, OAuthUnlink *)

\* An identity that is linked already is a conflict, or needs no row.
OAuthLink(r, u, s) ==
    /\ u \in accounts
    /\ linked[s] = NoUser
    /\ Start(r, [Idle EXCEPT !.step = "linkInsert", !.user = u, !.sub = s])
    /\ UNCHANGED <<profiles, links, resets>>

LinkInsert(r) ==
    /\ At(r, "linkInsert")
    /\ LET u == job[r].user
           s == job[r].sub
       IN  linked' = IF CanLink(s, u) THEN [linked EXCEPT ![s] = u] ELSE linked
    /\ Finish(r)
    /\ UNCHANGED <<profiles, link, guesses, claims, resets>>

\* flag: the middleware read a password for the caller.  A password set since
\* then could only have lifted the block below.
OAuthUnlink(r, u, s) ==
    /\ linked[s] = u
    /\ Start(r, [Idle EXCEPT !.step = "unlinkCount", !.user = u, !.sub = s,
                             !.flag = u \in password])
    /\ UNCHANGED <<profiles, links, resets>>

IdentitiesOf(u) == {s \in Sub : linked[s] = u}

\* Mutant of UnlinkCount: the last identity may go.
UnlinkCountAny(r) ==
    /\ At(r, "unlinkCount")
    /\ Goto(r, "unlinkDelete")
    /\ UNCHANGED <<profiles, links, resets>>

\* Blocked when nothing else would be left to sign in with.
UnlinkCount(r) ==
    /\ At(r, "unlinkCount")
    /\ IF ~ job[r].flag /\ Cardinality(IdentitiesOf(job[r].user)) <= 1
       THEN Finish(r)
       ELSE Goto(r, "unlinkDelete")
    /\ UNCHANGED <<profiles, links, resets>>

\* The DELETE names the row's own key: a row written later is not meant.
Dangling(j, s) ==
    IF j.step \in {"unlinkCount", "unlinkDelete"} /\ j.sub = s
    THEN [j EXCEPT !.sub = NoSub] ELSE j

UnlinkDelete(r) ==
    /\ At(r, "unlinkDelete")
    /\ LET s == job[r].sub IN
           /\ linked' = [t \in Sub |-> IF t = s THEN NoUser ELSE linked[t]]
           /\ job' = [q \in Request |-> IF q = r THEN Idle ELSE Dangling(job[q], s)]
    /\ UNCHANGED <<profiles, link, guesses, claims, resets, calm>>

-----------------------------------------------------------------------------
(* ForgotPassword, VerifyResetCode, ResetPassword *)

ForgotPassword(u, c) ==
    /\ u \in accounts
    /\ mail[u] # NoMail
    /\ code[c].state = "undrawn"
    /\ code' = [code EXCEPT ![c] = [state |-> "live", user |-> u, attempts |-> 0]]
    /\ UNCHANGED <<profiles, links, verified, job, calm>>

\* Only the row whose code was given is looked for, so only hits are counted.
VerifyResetCode(r, c) ==
    /\ code[c].state = "live"
    /\ code[c].attempts < MaxCodeAttempts
    /\ Start(r, [Idle EXCEPT !.step = "verifyCount", !.code = c,
                             !.attempts = code[c].attempts])
    /\ UNCHANGED <<profiles, links, resets>>

\* createTempToken: the user's identifier and the time, which are not stored.
GiveToken(c) == verified' = [verified EXCEPT ![c] = @ + 1]

\* Mutant of VerifyCount: the count that was read is written back.
VerifyCountSame(r) ==
    /\ At(r, "verifyCount")
    /\ code' = [code EXCEPT ![job[r].code].attempts = job[r].attempts]
    /\ GiveToken(job[r].code)
    /\ Finish(r)
    /\ UNCHANGED <<profiles, links>>

VerifyCount(r) ==
    /\ At(r, "verifyCount")
    /\ code' = [code EXCEPT ![job[r].code].attempts = job[r].attempts + 1]
    /\ GiveToken(job[r].code)
    /\ Finish(r)
    /\ UNCHANGED <<profiles, links>>

\* A failing UPDATE of the count is only logged.
VerifyCountFails(r) ==
    /\ At(r, "verifyCount")
    /\ GiveToken(job[r].code)
    /\ job' = [job EXCEPT ![r] = Idle]
    /\ calm' = FALSE
    /\ UNCHANGED <<profiles, links, code>>

\* validateTempToken: a token is a user's identifier and a time, no more than
\* five minutes ago.  Which codes were verified is not looked up.
ResetPassword(r, u) ==
    /\ u \in accounts
    /\ Start(r, [Idle EXCEPT !.step = "resetWrite", !.user = u])
    /\ UNCHANGED <<profiles, links, resets>>

ResetWrite(r) ==
    /\ At(r, "resetWrite")
    /\ StorePassword(job[r].user)
    /\ Goto(r, "resetMark")
    /\ UNCHANGED <<links, resets>>

\* Every code of the user, whichever was verified, is used.
ResetMark(r) ==
    /\ At(r, "resetMark")
    /\ code' = [c \in Code |-> IF code[c].user = job[r].user
                               THEN [code[c] EXCEPT !.state = "used"] ELSE code[c]]
    /\ Finish(r)
    /\ UNCHANGED <<profiles, links, verified>>

CodeExpires(c) ==
    /\ code[c].state = "live"
    /\ code' = [code EXCEPT ![c].state = "expired"]
    /\ UNCHANGED <<profiles, links, verified, job, calm>>

-----------------------------------------------------------------------------

\* A statement fails and the handler answers 500, or the server stops.
Abandon(r) ==
    /\ job[r] # Idle
    /\ job' = [job EXCEPT ![r] = Idle]
    /\ calm' = FALSE
    /\ UNCHANGED <<profiles, links, resets>>

Arrive(r) ==
    \/ \E s \in Sub, m \in Mail \cup {NoMail} : OAuthLogin(r, s, m)
    \/ \E l \in Link : ConfirmLink(r, l)
    \/ \E u \in User, s \in Sub : OAuthLink(r, u, s) \/ OAuthUnlink(r, u, s)
    \/ \E c \in Code : VerifyResetCode(r, c)
    \/ \E u \in User : ResetPassword(r, u)

Advance(r) ==
    \/ LoginMail(r) \/ PendSweep(r) \/ PendInsert(r) \/ CreateName(r) \/ CreateCommit(r)
    \/ ConfirmUser(r) \/ ConfirmGuess(r) \/ ConfirmClaim(r) \/ LinkDrop(r)
    \/ LinkInsert(r)
    \/ UnlinkCount(r) \/ UnlinkDelete(r)
    \/ VerifyCount(r) \/ VerifyCountFails(r)
    \/ ResetWrite(r) \/ ResetMark(r)

Next ==
    \/ \E r \in Request : Arrive(r) \/ Advance(r) \/ Abandon(r)
    \/ \E u \in User, m \in Mail \cup {NoMail} : PublicUserSignup(u, m) \/ UserSignup(u, m)
    \/ \E u \in User : ChangeUserPassword(u) \/ SetPassword(u)
    \/ \E u \in User, c \in Code : ForgotPassword(u, c)
    \/ \E l \in Link : LinkExpires(l)
    \/ \E c \in Code : CodeExpires(c)

Spec == Init /\ [][Next]_vars

-----------------------------------------------------------------------------
(* Properties *)

\* OAuthUnlink "is blocked when it would remove the account's only
\* authentication method", and createOAuthUser leaves no account without one:
\* while requests do not overlap and nothing fails, every account keeps a
\* password or an identity.
KeepsSignIn == calm => \A u \in accounts : u \in password \/ IdentitiesOf(u) # {}

\* "The DELETE claims the record -- a concurrent confirm that loses the race
\* sees zero rows and is rejected (single-use guarantee)": whatever overlaps
\* and whatever is unlinked in between, a pending link creates one identity.
ClaimedOnce == \A l \in Link : claims[l] <= 1

\* createOAuthUser: "a failure leaves no partial account", and a double tap
\* ends in one account: each new account can sign in from the first moment.
NoPartialAccount ==
    [][\A u \in accounts' \ accounts :
           u \in password' \/ \E s \in Sub : linked'[s] = u]_vars

\* Attempts are read, compared and written back by separate statements; while
\* requests do not overlap and nothing fails, no pending link takes more wrong
\* passwords, and no code yields more tokens, than the limits say.
AttemptsCounted ==
    calm => /\ \A l \in Link : guesses[l] <= MaxLinkAttempts
            /\ \A c \in Code : verified[c] <= MaxCodeAttempts
=============================================================================
