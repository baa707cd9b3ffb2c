------------------------------- MODULE Contacts -------------------------------
(***************************************************************************)
(* Contacts (rows of prayer_subject), the users they are linked to, the    *)
(* connection requests that ask for a link, the members of families and    *)
(* groups, and the contacts that one circle creates for its members: a     *)
(* group card for each member, wired to the circle by a row of             *)
(* prayer_subject_group_profile, and a contact of each member for each     *)
(* fellow member.                                                          *)
(*                                                                         *)
(* One action is one SQL statement that writes, or one transaction; what a *)
(* handler reads before it is one step.  Names are left out: whether a     *)
(* card has the circle's name is a choice.  The rows of a deleted contact  *)
(* in other tables go with it (CASCADE, see groupContactHelpers.go:94).    *)
(*                                                                         *)
(* An account's deletion ends a membership without removing the card.      *)
(* What becomes of the contacts and the connection requests that name the  *)
(* user when their row of user_profile goes at its end is a matter of the  *)
(* schema, which is not in this repository: they are taken to stay.        *)
(***************************************************************************)

EXTENDS FiniteSets, Naturals

CONSTANTS
    User,
    Subject,    \* ids of prayer_subject, handed out in order
    Ask,        \* ids of prayer_connection_request, handed out in order
    Request,    \* concurrent request slots
    NoUser, NoSubject, NoAsk

ASSUME IdAssumption == Subject \subseteq Nat /\ Ask \subseteq Nat
ASSUME RequestAssumption == IsFiniteSet(Request)
ASSUME NoneAssumption == NoUser \notin User /\ NoSubject \notin Subject /\ NoAsk \notin Ask

VARIABLES
    subject,    \* prayer_subject: kind, owner, linked user, link status
    ask,        \* prayer_connection_request
    nest,       \* prayer_subject_membership: <<family or group, member>>
    circle,     \* whether the circle's row of group_profile is there
    members,    \* users with a row in user_group
    active,     \* those whose row is active
    anchor,     \* group_profile.prayer_subject_id
    wired,      \* prayer_subject_group_profile: the card of each user
    job,        \* what each request slot is doing
    calm,       \* history: requests have not overlapped, nothing has failed
    answers,    \* history: how often each connection request was answered
    carded,     \* history: contacts that became a card and nothing else since
    letGo,      \* history: users whose card someone who may delete it deleted
    left        \* history: users whose membership the deletion of their account
                \* ended

circles == <<circle, members, active, anchor, wired, carded, letGo, left>>
asks == <<ask, answers>>
vars == <<subject, nest, asks, circles, job, calm>>

Kind == {"individual", "family", "group"}

Undrawn == [kind |-> "undrawn", owner |-> NoUser, user |-> NoUser, status |-> "unlinked"]
NoAskRow == [status |-> "undrawn", from |-> NoUser, to |-> NoUser, subject |-> NoSubject]

Idle == [step |-> "idle", user |-> NoUser, subject |-> NoSubject, other |-> NoSubject,
         ask |-> NoAsk, word |-> "none", make |-> {}]

SubjectRow ==
    [kind : Kind \cup {"undrawn", "gone"}, owner : User \cup {NoUser},
     user : User \cup {NoUser}, status : {"unlinked", "pending", "linked", "declined"}]

AskRow == [status : {"undrawn", "pending", "accepted", "declined"}, from : User \cup {NoUser},
           to : User \cup {NoUser}, subject : Subject \cup {NoSubject}]

Step == {"idle", "card", "anchor", "ensure", "ensureCommit", "leave", "teardown",
         "deleteCircle", "retype", "relink", "delete", "nest", "ask", "askMark",
         "answer", "answerMark", "unlink"}

Job == [step : Step, user : User \cup {NoUser}, subject : Subject \cup {NoSubject},
        other : Subject \cup {NoSubject}, ask : Ask \cup {NoAsk},
        word : Kind \cup {"none", "fresh", "wire", "accepted", "declined"},
        make : SUBSET (User \X User)]

\* What a request holds at a step is what its handler has read by then.
Holds(j) ==
    /\ j.step \in {"anchor", "retype", "relink", "delete", "nest", "ask", "askMark",
                   "answer", "answerMark", "unlink"} => j.subject \in Subject
    /\ j.step = "nest" => j.other \in Subject
    /\ j.step \in {"card", "anchor", "ensure", "ensureCommit", "leave", "ask", "askMark",
                   "answer", "answerMark"} => j.user \in User
    /\ j.step = "answer" => j.ask \in Ask
    /\ j.step \in {"answer", "answerMark"} => j.word \in {"accepted", "declined"}
    /\ j.step = "retype" => j.word \in Kind
    /\ j.step = "ensureCommit" => /\ j.word \in {"none", "fresh", "wire"}
                                  /\ j.word = "wire" => j.subject \in Subject

Drawn == {s \in Subject : subject[s].kind # "undrawn"}
There == {s \in Subject : subject[s].kind \in Kind}
Cards == {wired[u] : u \in User} \cap Subject

TypeOK ==
    /\ subject \in [Subject -> SubjectRow]
    /\ ask \in [Ask -> AskRow]
    /\ \A a \in Ask : ask[a].status # "undrawn" =>
           ask[a].from \in User /\ ask[a].to \in User /\ ask[a].subject \in Drawn
    /\ nest \subseteq There \X There
    /\ circle \in {"none", "there", "gone"}
    /\ active \subseteq members /\ members \subseteq User
    /\ circle # "there" => members = {}
    /\ anchor \in Drawn \cup {NoSubject}
    /\ wired \in [User -> There \cup {NoSubject}]
    /\ job \in [Request -> Job]
    /\ calm \in BOOLEAN
    /\ answers \in [Ask -> Nat]
    /\ carded \subseteq Drawn
    /\ letGo \subseteq User /\ left \subseteq User
    \* A contact is linked, or waits to be, exactly when it names a user; a card
    \* is wired by its own owner.
    /\ \A s \in There : /\ subject[s].owner \in User
                        /\ subject[s].status \in {"linked", "pending"} <=> subject[s].user \in User
    /\ \A u \in User : wired[u] # NoSubject => subject[wired[u]].owner = u
    /\ \A r \in Request : Holds(job[r])

Init ==
    /\ subject = [s \in Subject |-> Undrawn]
    /\ ask = [a \in Ask |-> NoAskRow]
    /\ nest = {}
    /\ circle = "none"
    /\ members = {}
    /\ active = {}
    /\ anchor = NoSubject
    /\ wired = [u \in User |-> NoSubject]
    /\ job = [r \in Request |-> Idle]
    /\ calm = TRUE
    /\ answers = [a \in Ask |-> 0]
    /\ carded = {}
    /\ letGo = {}
    /\ left = {}

-----------------------------------------------------------------------------
(* Jobs *)

Start(r, j) ==
    /\ job[r] = Idle
    /\ job' = [job EXCEPT ![r] = j]
    /\ calm' = (calm /\ \A q \in Request \ {r} : job[q] = Idle)

At(r, step) == job[r].step = step

Become(r, j) == job' = [job EXCEPT ![r] = j] /\ UNCHANGED calm

Goto(r, step) == Become(r, [job[r] EXCEPT !.step = step])

\* A handler that is one statement.
AtOnce == UNCHANGED job /\ calm' = (calm /\ \A q \in Request : job[q] = Idle)

(* Rows *)

New(n) == {s \in Subject \ Drawn : Cardinality({t \in Subject \ Drawn : t < s}) < n}

Row(kind, owner, user) ==
    [kind |-> kind, owner |-> owner, user |-> user,
     status |-> IF user = NoUser THEN "unlinked" ELSE "linked"]

\* One UPDATE of a contact's link; none when the contact is gone.
SetLink(s, user, status) ==
    subject' = [subject EXCEPT ![s] = IF s \in There
                                      THEN [@ EXCEPT !.user = user, !.status = status] ELSE @]

\* Contacts are deleted with the rows that refer to them.
DeleteRows(S) ==
    /\ subject' = [s \in Subject |-> IF s \in S \cap There
                                     THEN [Undrawn EXCEPT !.kind = "gone"] ELSE subject[s]]
    /\ nest' = {p \in nest : p[1] \notin S /\ p[2] \notin S}
    /\ wired' = [u \in User |-> IF wired[u] \in S THEN NoSubject ELSE wired[u]]
    /\ anchor' = IF anchor \in S THEN NoSubject ELSE anchor

-----------------------------------------------------------------------------
(* Contacts and their members *)

\* The owner may link the contact to anyone, the owner included.
CreatePrayerSubject(s, kind, owner, user) ==
    /\ s \in New(1)
    /\ subject' = [subject EXCEPT ![s] = Row(kind, owner, user)]
    /\ AtOnce
    /\ UNCHANGED <<nest, asks, circles>>

\* Mutant of UpdateKind: the members are not counted.
UpdateKindUnchecked(r, s, kind) ==
    /\ s \in There
    /\ Start(r, [Idle EXCEPT !.step = "retype", !.subject = s, !.word = kind])
    /\ UNCHANGED <<subject, nest, asks, circles>>

\* A contact becomes an individual only when it has no members.
UpdateKind(r, s, kind) ==
    /\ s \in There
    /\ kind = "individual" /\ subject[s].kind # "individual" => \A p \in nest : p[1] # s
    /\ Start(r, [Idle EXCEPT !.step = "retype", !.subject = s, !.word = kind])
    /\ UNCHANGED <<subject, nest, asks, circles>>

UpdateLink(r, s, user) ==
    /\ s \in There
    /\ Start(r, [Idle EXCEPT !.step = "relink", !.subject = s, !.user = user])
    /\ UNCHANGED <<subject, nest, asks, circles>>

UpdateCommit(r) ==
    LET j == job[r] IN
    /\ \/ /\ At(r, "retype")
          /\ carded' = IF j.word = "group" THEN carded ELSE carded \ {j.subject}
          /\ subject' = [subject EXCEPT ![j.subject] =
                            IF j.subject \in There THEN [@ EXCEPT !.kind = j.word] ELSE @]
       \/ /\ At(r, "relink")
          /\ SetLink(j.subject, j.user, IF j.user = NoUser THEN "unlinked" ELSE "linked")
          /\ UNCHANGED carded
    /\ Become(r, Idle)
    /\ UNCHANGED <<nest, asks, circle, members, active, anchor, wired, letGo, left>>

\* Mutant of FromCircleOf: cards are not looked for.
FromCircleOfLinked(v, s) ==
    /\ v \in active
    /\ subject[s].user \in active

\* v asks: the owner, or an admin.  A contact that comes from the circle stays
\* while v is an active member with it.
FromCircleOf(v, s) ==
    /\ v \in active
    /\ s \in Cards \/ subject[s].user \in active

DeletePrayerSubject(r, v, s) ==
    /\ s \in There
    /\ subject[s].user # subject[s].owner
    /\ ~FromCircleOf(v, s)
    /\ Start(r, [Idle EXCEPT !.step = "delete", !.subject = s])
    /\ letGo' = letGo \cup {u \in User \ ({v} \cap active) : wired[u] = s}
    /\ UNCHANGED <<subject, nest, asks, circle, members, active, anchor, wired, carded, left>>

DeleteRow(r) ==
    /\ At(r, "delete")
    /\ DeleteRows({job[r].subject})
    /\ Become(r, Idle)
    /\ UNCHANGED <<asks, circle, members, active, carded, letGo, left>>

AddMemberToSubject(r, g, m) ==
    /\ {g, m} \subseteq There /\ g # m
    /\ subject[g].kind # "individual" /\ subject[m].kind = "individual"
    /\ <<g, m>> \notin nest
    /\ Start(r, [Idle EXCEPT !.step = "nest", !.subject = g, !.other = m])
    /\ UNCHANGED <<subject, nest, asks, circles>>

NestRow(r) ==
    LET j == job[r] IN
    /\ At(r, "nest")
    /\ {j.subject, j.other} \subseteq There
    /\ nest' = nest \cup {<<j.subject, j.other>>}
    /\ Become(r, Idle)
    /\ UNCHANGED <<subject, asks, circles>>

RemoveMemberFromSubject(p) ==
    /\ p \in nest
    /\ nest' = nest \ {p}
    /\ AtOnce
    /\ UNCHANGED <<subject, asks, circles>>

-----------------------------------------------------------------------------
(* Connection requests *)

\* Only the same owner, target and contact count as a request made already.
SendConnectionRequest(r, s, target) ==
    /\ s \in There
    /\ subject[s].status # "linked" /\ target # subject[s].owner
    /\ \A a \in Ask : ask[a].status = "pending" /\ ask[a].subject = s => ask[a].to # target
    /\ Start(r, [Idle EXCEPT !.step = "ask", !.subject = s, !.user = target])
    /\ UNCHANGED <<subject, nest, asks, circles>>

AskRowInsert(r, a) ==
    LET j == job[r] IN
    /\ At(r, "ask")
    /\ j.subject \in There
    /\ ask[a].status = "undrawn" /\ \A b \in Ask : ask[b].status = "undrawn" => a <= b
    /\ ask' = [ask EXCEPT ![a] = [status |-> "pending", from |-> subject[j.subject].owner,
                                  to |-> j.user, subject |-> j.subject]]
    /\ Goto(r, "askMark")
    /\ UNCHANGED <<subject, nest, answers, circles>>

AskMark(r) ==
    /\ At(r, "askMark")
    /\ SetLink(job[r].subject, job[r].user, "pending")
    /\ Become(r, Idle)
    /\ UNCHANGED <<nest, asks, circles>>

\* Mutant of RespondToConnectionRequest: a request may be answered again.
RespondAgain(r, a, word) ==
    /\ ask[a].status # "undrawn" /\ ask[a].subject \in There
    /\ Start(r, [Idle EXCEPT !.step = "answer", !.ask = a, !.subject = ask[a].subject,
                             !.user = ask[a].to, !.word = word])
    /\ UNCHANGED <<subject, nest, asks, circles>>

RespondToConnectionRequest(r, a, word) ==
    /\ ask[a].status = "pending" /\ ask[a].subject \in There
    /\ Start(r, [Idle EXCEPT !.step = "answer", !.ask = a, !.subject = ask[a].subject,
                             !.user = ask[a].to, !.word = word])
    /\ UNCHANGED <<subject, nest, asks, circles>>

Answer(r) ==
    LET j == job[r] IN
    /\ At(r, "answer")
    /\ IF j.subject \in There
       THEN /\ ask' = [ask EXCEPT ![j.ask].status = j.word]
            /\ answers' = [answers EXCEPT ![j.ask] = @ + 1]
       ELSE UNCHANGED asks
    /\ Goto(r, "answerMark")
    /\ UNCHANGED <<subject, nest, circles>>

\* Mutant of AnswerMark: a declined contact goes on naming the user.
AnswerMarkNamed(r) ==
    LET j == job[r] IN
    /\ At(r, "answerMark")
    /\ SetLink(j.subject, j.user, IF j.word = "accepted" THEN "linked" ELSE "declined")
    /\ Become(r, Idle)
    /\ UNCHANGED <<nest, asks, circles>>

\* Mutant of AnswerMark: a declined contact is left as it was.
AnswerMarkAccepted(r) ==
    LET j == job[r] IN
    /\ At(r, "answerMark")
    /\ IF j.word = "accepted" THEN SetLink(j.subject, j.user, "linked") ELSE UNCHANGED subject
    /\ Become(r, Idle)
    /\ UNCHANGED <<nest, asks, circles>>

AnswerMark(r) ==
    LET j == job[r] IN
    /\ At(r, "answerMark")
    /\ IF j.word = "accepted" THEN SetLink(j.subject, j.user, "linked")
                              ELSE SetLink(j.subject, NoUser, "declined")
    /\ Become(r, Idle)
    /\ UNCHANGED <<nest, asks, circles>>

\* By the owner, the linked user or an admin.
RemovePrayerSubjectLink(r, s) ==
    /\ s \in There
    /\ subject[s].user \in User \ {subject[s].owner}
    /\ Start(r, [Idle EXCEPT !.step = "unlink", !.subject = s])
    /\ UNCHANGED <<subject, nest, asks, circles>>

Unlink(r) ==
    /\ At(r, "unlink")
    /\ SetLink(job[r].subject, NoUser, "unlinked")
    /\ Become(r, Idle)
    /\ UNCHANGED <<nest, asks, circles>>

-----------------------------------------------------------------------------
(* The contacts of a circle *)

\* The rows of the circle and of its first member come before (Circles).
CreateGroup(r, u) ==
    /\ circle = "none"
    /\ Start(r, [Idle EXCEPT !.step = "card", !.user = u])
    /\ circle' = "there" /\ members' = {u} /\ active' = {u}
    /\ UNCHANGED <<subject, nest, asks, anchor, wired, carded, letGo, left>>

Card(r, s) ==
    /\ At(r, "card")
    /\ s \in New(1)
    /\ subject' = [subject EXCEPT ![s] = Row("group", job[r].user, NoUser)]
    /\ Become(r, [job[r] EXCEPT !.step = "anchor", !.subject = s])
    /\ UNCHANGED <<nest, asks, circles>>

\* The UPDATE finds no circle when it is deleted already.
Anchor(r) ==
    LET s == job[r].subject IN
    /\ At(r, "anchor")
    /\ IF circle = "there" /\ s \in There THEN anchor' = s ELSE UNCHANGED anchor
    /\ Goto(r, "ensure")
    /\ UNCHANGED <<subject, nest, asks, circle, members, active, wired, carded, letGo, left>>

Admit(r, u) ==
    /\ circle = "there" /\ u \notin members
    /\ Start(r, [Idle EXCEPT !.step = "ensure", !.user = u])
    /\ members' = members \cup {u} /\ active' = active \cup {u}
    /\ left' = left \ {u}
    /\ UNCHANGED <<subject, nest, asks, circle, anchor, wired, carded, letGo>>

AddUserToGroup(r, u) == Admit(r, u)
JoinGroup(r, u) == Admit(r, u)

Knows(u, v) == \E s \in There : subject[s].kind = "individual" /\ subject[s].owner = u
                                /\ subject[s].user = v

\* The card that is wired for u: the anchor, else a card of u's with the
\* circle's name that is not wired, else a new one.
FindExistingGroupSubject(u) ==
    LET cards == {s \in There : subject[s].kind = "group" /\ subject[s].owner = u} IN
    IF anchor \in cards THEN {anchor} ELSE (cards \ Cards) \cup {NoSubject}

EnsureCircleContactsForUser(r) ==
    LET u == job[r].user
        others == active \ {u}
        lacking == {p \in ({u} \X others) \cup (others \X {u}) : ~Knows(p[1], p[2])} IN
    /\ At(r, "ensure")
    /\ IF wired[u] # NoSubject
       THEN Become(r, [job[r] EXCEPT !.step = "ensureCommit", !.word = "none",
                                     !.make = lacking])
       ELSE \E s \in FindExistingGroupSubject(u) :
                Become(r, [job[r] EXCEPT !.step = "ensureCommit", !.make = lacking, !.subject = s,
                                         !.word = IF s = NoSubject THEN "fresh" ELSE "wire"])
    /\ UNCHANGED <<subject, nest, asks, circles>>

\* The transaction commits, or as a whole does not: the circle's row and the
\* card must still be there, and the user not be wired by another one.
EnsureCommit(r) ==
    LET j == job[r]
        n == Cardinality(j.make) + IF j.word = "fresh" THEN 1 ELSE 0 IN
    /\ At(r, "ensureCommit")
    /\ Cardinality(New(n)) = n
    /\ j.word # "none" => circle = "there" /\ wired[j.user] = NoSubject
    /\ j.word = "wire" => j.subject \in There /\ subject[j.subject].kind = "group"
    /\ \E c \in IF j.word = "fresh" THEN New(n) ELSE {j.subject} :
       \E pair \in [New(n) \ {c} -> j.make] :
           /\ \A s, t \in New(n) \ {c} : pair[s] = pair[t] => s = t
           /\ subject' = [s \in Subject |->
                  IF s \in New(n) \ {c} THEN Row("individual", pair[s][1], pair[s][2])
                  ELSE IF s = c /\ j.word = "fresh" THEN Row("group", j.user, NoUser)
                  ELSE subject[s]]
           /\ IF j.word = "none" THEN UNCHANGED <<wired, carded>>
              ELSE wired' = [wired EXCEPT ![j.user] = c] /\ carded' = carded \cup {c}
    /\ letGo' = letGo \ (IF j.word = "none" THEN {} ELSE {j.user})
    /\ Become(r, Idle)
    /\ UNCHANGED <<nest, asks, circle, members, active, anchor, left>>

\* An owner who leaves hands the circle over first (Circles).
RemoveUserFromGroup(r, u) ==
    /\ u \in members
    /\ Start(r, [Idle EXCEPT !.step = "leave", !.user = u])
    /\ members' = members \ {u} /\ active' = active \ {u}
    /\ UNCHANGED <<subject, nest, asks, circle, anchor, wired, carded, letGo, left>>

\* Cards that were made something else stay.
CardsOf(U) == {wired[u] : u \in U} \cap {s \in There : subject[s].kind = "group"}

RemoveCircleContactsForLeavingUser(r) ==
    /\ At(r, "leave")
    /\ DeleteRows(CardsOf({job[r].user}))
    /\ Become(r, Idle)
    /\ UNCHANGED <<asks, circle, members, active, carded, letGo, left>>

\* The statement of an account's deletion that bears on the circle: the card of
\* the user stays.
DeleteUserAccount(u) ==
    /\ u \in members
    /\ members' = members \ {u} /\ active' = active \ {u}
    /\ left' = left \cup {u}
    /\ AtOnce
    /\ UNCHANGED <<subject, nest, asks, circle, anchor, wired, carded, letGo>>

ArchiveOrRestore(u) ==
    /\ u \in members
    /\ active' = IF u \in active THEN active \ {u} ELSE active \cup {u}
    /\ AtOnce
    /\ UNCHANGED <<subject, nest, asks, circle, members, anchor, wired, carded, letGo, left>>

DeleteGroup(r) ==
    /\ circle = "there"
    /\ Start(r, [Idle EXCEPT !.step = "teardown"])
    /\ members' = {} /\ active' = {}
    /\ UNCHANGED <<subject, nest, asks, circle, anchor, wired, carded, letGo, left>>

RemoveAllCircleContacts(r) ==
    /\ At(r, "teardown")
    /\ DeleteRows(CardsOf(User))
    /\ Goto(r, "deleteCircle")
    /\ UNCHANGED <<asks, circle, members, active, carded, letGo, left>>

\* Its join rows go with the circle.
DeleteCircle(r) ==
    /\ At(r, "deleteCircle")
    /\ circle' = "gone" /\ members' = {} /\ active' = {}
    /\ wired' = [u \in User |-> NoSubject] /\ anchor' = NoSubject
    /\ Become(r, Idle)
    /\ UNCHANGED <<subject, nest, asks, carded, letGo, left>>

-----------------------------------------------------------------------------
(* Failures *)

\* A request ends before its next statement.
Abandon(r) ==
    /\ job[r] # Idle
    /\ job' = [job EXCEPT ![r] = Idle]
    /\ calm' = FALSE
    /\ UNCHANGED <<subject, nest, asks, circles>>

\* A statement fails, and the handler logs it and goes on.
GoOn(r) ==
    /\ \/ At(r, "card") /\ job' = [job EXCEPT ![r].step = "ensure"]
       \/ At(r, "anchor") /\ job' = [job EXCEPT ![r].step = "ensure"]
       \/ At(r, "teardown") /\ job' = [job EXCEPT ![r].step = "deleteCircle"]
    /\ calm' = FALSE
    /\ UNCHANGED <<subject, nest, asks, circles>>

Update(r, s) ==
    \/ \E kind \in Kind : UpdateKind(r, s, kind)
    \/ \E user \in User \cup {NoUser} : UpdateLink(r, s, user)
    \/ \E v \in User : DeletePrayerSubject(r, v, s)
    \/ \E m \in Subject : AddMemberToSubject(r, s, m)
    \/ \E target \in User : SendConnectionRequest(r, s, target)
    \/ RemovePrayerSubjectLink(r, s)

Next ==
    \/ \E s \in Subject, kind \in Kind, u \in User, v \in User \cup {NoUser} :
          CreatePrayerSubject(s, kind, u, v)
    \/ \E p \in nest : RemoveMemberFromSubject(p)
    \/ \E u \in User : ArchiveOrRestore(u) \/ DeleteUserAccount(u)
    \/ \E r \in Request :
          \/ \E s \in Subject : Update(r, s) \/ Card(r, s)
          \/ \E a \in Ask : AskRowInsert(r, a)
          \/ \E a \in Ask, word \in {"accepted", "declined"} :
                RespondToConnectionRequest(r, a, word)
          \/ UpdateCommit(r) \/ DeleteRow(r) \/ NestRow(r)
          \/ AskMark(r) \/ Answer(r) \/ AnswerMark(r) \/ Unlink(r)
    \/ \E r \in Request, u \in User : CreateGroup(r, u) \/ AddUserToGroup(r, u)
                                      \/ JoinGroup(r, u) \/ RemoveUserFromGroup(r, u)
    \/ \E r \in Request :
          \/ Anchor(r) \/ EnsureCircleContactsForUser(r) \/ EnsureCommit(r)
          \/ RemoveCircleContactsForLeavingUser(r)
          \/ DeleteGroup(r) \/ RemoveAllCircleContacts(r) \/ DeleteCircle(r)
          \/ Abandon(r) \/ GoOn(r)

Spec == Init /\ [][Next]_vars

-----------------------------------------------------------------------------
(* Properties *)

Settled == calm /\ \A r \in Request : job[r] = Idle

\* While requests do not overlap or fail, a contact waits only for someone who
\* still has its connection request to answer.
PendingIsAsked ==
    Settled => \A s \in There : subject[s].status = "pending" =>
        \E a \in Ask : ask[a] = [status |-> "pending", from |-> subject[s].owner,
                                 to |-> subject[s].user, subject |-> s]

\* "This request has already been ...": however requests overlap and fail, one
\* is answered once for each slot at most, since none that is answered is taken
\* up again; and not twice while they do not overlap.
AnswersBounded ==
    \A a \in Ask : /\ answers[a] <= Cardinality(Request)
                   /\ calm => answers[a] <= 1

\* "Only family or group subjects can have members", "Remove all members
\* first": while requests do not overlap, no individual has members.
IndividualsHaveNoMembers == Settled => \A p \in nest : subject[p[1]].kind # "individual"

\* While requests do not overlap or fail, every active member has a card of the
\* circle, unless someone deleted it who was not then an active member, and a
\* card that was not made something else leaves with the member, or with the
\* circle; but the card of a member whose account was deleted stays, until they
\* are a member again or the circle goes.
CardsFollowMembers ==
    Settled => /\ \A u \in active \ letGo : wired[u] # NoSubject
               /\ \A s \in carded : subject[s].kind = "group" =>
                      subject[s].owner \in members \cup left

=============================================================================
