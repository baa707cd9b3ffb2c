---------------------------- MODULE PrayerActivity ----------------------------
(***************************************************************************)
(* What happens around one prayer: the comments on it, the count of those  *)
(* who prayed it, and the notices of comments, of edits by the person it   *)
(* is about, and of its being shared with a circle.                        *)
(*                                                                         *)
(* One action is one SQL statement that writes; what a handler reads       *)
(* before it is one step.  The notices of a share are sent by two          *)
(* goroutines, those of a comment before its handler answers.  Comments    *)
(* are left without their text, notices without what a client does to      *)
(* them, and push messages are sent with their notice.                     *)
(***************************************************************************)

EXTENDS Naturals, Sequences, FiniteSets

CONSTANTS
    User,
    Creator,    \* prayer.created_by
    Comment,    \* ids of prayer_comment, handed out in order
    MaxPrayed,  \* bound on prayer_analytics.total_prayers
    Request,    \* concurrent request slots
    None

ASSUME CreatorAssumption == IsFiniteSet(User) /\ Creator \in User /\ None \notin User
ASSUME CommentAssumption == Comment \subseteq Nat /\ MaxPrayed \in Nat \ {0}

VARIABLES
    member,     \* user_group of the circle: out, active or archived
    muted,      \* users who muted the circle
    direct,     \* users with a row of their own in prayer_access
    shared,     \* whether the circle has a row
    subject,    \* the user of the prayer's contact, and whether they are linked
    comment,    \* prayer_comment
    analytics,  \* prayer_analytics, and whether the last prayer is under 5 minutes ago
    window,     \* notification_debounce: rows under 15 minutes old, by notice
    job,        \* what each request slot is doing
    posted,     \* goroutines of a share that have not ended
    calm,       \* history: nothing has overlapped or failed
    prayed,     \* history: the users whose prayer was recorded
    count,      \* history: notices cleared and sent in the window that is running
    audience,   \* history: whom the last share should tell
    present,    \* history: active members at some time of the last share
    told        \* history: notices of the last share to each user

people == <<member, muted, direct, shared, subject>>
prayers == <<analytics, prayed>>
notices == <<window, count>>
shares == <<posted, audience, present, told>>
vars == <<people, comment, prayers, notices, job, shares, calm>>

Notice == {"comment", "edit"}

NoComment == [state |-> "undrawn", author |-> None, private |-> FALSE, hidden |-> FALSE]

NoNotice == [cleared |-> 0, sent |-> 0]

\* Counted as none, one or many.
More(n) == IF n = 0 THEN 1 ELSE 2

Idle == [step |-> "idle", user |-> None, comment |-> 0, flag |-> FALSE, kind |-> "comment",
         todo |-> << >>]

Step == {"idle", "insert", "list", "gate", "debounce", "send", "delete", "hide", "toggle",
         "first", "again"}

Active == {u \in User : member[u] = "active"}

CommentRow == [state : {"undrawn", "there", "gone"}, author : User \cup {None},
               private : BOOLEAN, hidden : BOOLEAN]

PrayerAnalytics == [found : BOOLEAN, total : 0 .. MaxPrayed, unique : 0 .. MaxPrayed,
                    last : User \cup {None}, recent : BOOLEAN]

Job == [step : Step, user : User \cup {None}, comment : Comment \cup {0}, flag : BOOLEAN,
        kind : Notice, todo : Seq(User)]

Goroutine == [what : {"link", "members", "circle", "subject", "forYou"}, actor : User,
              skip : SUBSET User, to : SUBSET User]

TypeOK ==
    /\ member \in [User -> {"out", "active", "archived"}]
    /\ muted \subseteq User /\ direct \subseteq User
    /\ shared \in BOOLEAN
    /\ subject \in [user : User \cup {None}, linked : BOOLEAN]
    /\ subject.linked => subject.user \in User
    /\ comment \in [Comment -> CommentRow]
    /\ \A k \in Comment : comment[k].state = "there" <=> comment[k].author \in User
    /\ analytics \in PrayerAnalytics
    /\ analytics.found <=> analytics.last \in User
    /\ window \in [Notice -> SUBSET User]
    /\ job \in [Request -> Job]
    /\ \A r \in Request :
          /\ job[r].step # "idle" => job[r].user \in User
          /\ job[r].step \in {"debounce", "send"} => job[r].todo # << >>
    /\ posted \subseteq Goroutine
    /\ calm \in BOOLEAN
    /\ prayed \subseteq User
    /\ count \in [Notice -> [User -> [cleared : 0 .. 2, sent : 0 .. 2]]]
    /\ audience \subseteq User /\ present \subseteq User
    /\ told \in [User -> Nat]

\* Before anyone but its creator has a part in the prayer; any circle, which the
\* prayer was shared with long ago or was not.
Init ==
    /\ member \in [User -> {"out", "active", "archived"}]
    /\ muted = {}
    /\ direct = {Creator}
    /\ shared \in BOOLEAN
    /\ subject = [user |-> None, linked |-> FALSE]
    /\ comment = [k \in Comment |-> NoComment]
    /\ analytics = [found |-> FALSE, total |-> 0, unique |-> 0, last |-> None, recent |-> FALSE]
    /\ window = [n \in Notice |-> {}]
    /\ job = [r \in Request |-> Idle]
    /\ posted = {}
    /\ calm = TRUE
    /\ prayed = {}
    /\ count = [n \in Notice |-> [u \in User |-> NoNotice]]
    /\ audience = {}
    /\ present = {}
    /\ told = [u \in User |-> 0]

-----------------------------------------------------------------------------
(* Jobs *)

Quiet == posted = {} /\ \A q \in Request : job[q] = Idle

Start(r, j) ==
    /\ job[r] = Idle
    /\ job' = [job EXCEPT ![r] = j]
    /\ calm' = (calm /\ Quiet)

At(r, step) == job[r].step = step

Become(r, j) == job' = [job EXCEPT ![r] = j] /\ UNCHANGED calm

Goto(r, step) == Become(r, [job[r] EXCEPT !.step = step])

AtOnce == UNCHANGED job /\ calm' = (calm /\ Quiet)

\* userHasPrayerAccess: archived members have it too.
HasAccess(u) == u \in direct \/ (shared /\ member[u] # "out")

\* A path to the prayer that is not archived.
CanReceive(u) == u \in direct \/ (shared /\ u \in Active)

Moderators == {Creator, subject.user} \ {None}

-----------------------------------------------------------------------------
(* Comments *)

CreateComment(r, u, private) ==
    /\ HasAccess(u)
    /\ Start(r, [Idle EXCEPT !.step = "insert", !.user = u, !.flag = private])
    /\ UNCHANGED <<people, comment, prayers, notices, shares>>

InsertComment(r, k) ==
    LET j == job[r] IN
    /\ At(r, "insert")
    /\ comment[k].state = "undrawn" /\ \A i \in Comment : comment[i].state = "undrawn" => k <= i
    /\ comment' = [comment EXCEPT ![k] = [state |-> "there", author |-> j.user,
                                          private |-> j.flag, hidden |-> FALSE]]
    /\ Become(r, [j EXCEPT !.step = "list", !.comment = k])
    /\ UNCHANGED <<people, prayers, notices, shares>>

\* Moderators may delete and hide, authors delete and toggle; the flag that
\* ToggleCommentPrivacy will write is the negation of what it reads.
TakeComment(r, u, k) ==
    /\ comment[k].state = "there"
    /\ \/ /\ u \in Moderators \cup {comment[k].author}
          /\ Start(r, [Idle EXCEPT !.step = "delete", !.user = u, !.comment = k])
       \/ /\ u \in Moderators
          /\ Start(r, [Idle EXCEPT !.step = "hide", !.user = u, !.comment = k])
       \/ /\ u = comment[k].author
          /\ Start(r, [Idle EXCEPT !.step = "toggle", !.user = u, !.comment = k,
                                   !.flag = ~comment[k].private])
    /\ UNCHANGED <<people, comment, prayers, notices, shares>>

\* Mutant of WriteComment: a deleted comment is written as well.
WriteCommentAnyway(r) ==
    LET j == job[r] IN
    /\ \/ /\ At(r, "delete")
          /\ comment' = [comment EXCEPT ![j.comment] = [NoComment EXCEPT !.state = "gone"]]
       \/ At(r, "hide") /\ comment' = [comment EXCEPT ![j.comment].hidden = TRUE]
       \/ /\ At(r, "toggle")
          /\ comment' = [comment EXCEPT ![j.comment].private = j.flag, ![j.comment].state = "there"]
    /\ Become(r, Idle)
    /\ UNCHANGED <<people, prayers, notices, shares>>

\* A comment that is gone by now stays gone.
WriteComment(r) ==
    LET j == job[r]
        row == comment[j.comment] IN
    /\ \/ /\ At(r, "delete")
          /\ comment' = [comment EXCEPT ![j.comment] = [NoComment EXCEPT !.state = "gone"]]
       \/ /\ At(r, "hide")
          /\ comment' = [comment EXCEPT ![j.comment].hidden = (row.state = "there")]
       \/ /\ At(r, "toggle")
          /\ comment' = [comment EXCEPT ![j.comment].private = (j.flag /\ row.state = "there")]
    /\ Become(r, Idle)
    /\ UNCHANGED <<people, prayers, notices, shares>>

-----------------------------------------------------------------------------
(* Notices of comments and edits *)

\* The creator, the contact's user (linked or not) and those who commented
\* before.  The first two may be one person, who is then listed twice.
NotifyUsersOfNewComment(r) ==
    LET j == job[r]
        once(u) == IF u \in {None, j.user} THEN << >> ELSE <<u>>
        before == {comment[k].author : k \in Comment \ {j.comment}}
                      \ {None, j.user, Creator, subject.user} IN
    /\ At(r, "list")
    /\ \E rest \in [1 .. Cardinality(before) -> before] :
          /\ \A u \in before : \E i \in DOMAIN rest : rest[i] = u
          /\ Become(r, [j EXCEPT !.step = "gate",
                        !.todo = once(Creator) \o once(subject.user) \o rest])
    /\ UNCHANGED <<people, comment, prayers, notices, shares>>

\* The tail of UpdatePrayer when the linked user edits.
NotifyCreatorOfSubjectEdit(r) ==
    /\ subject.linked /\ subject.user # Creator
    /\ Start(r, [Idle EXCEPT !.step = "gate", !.user = subject.user, !.kind = "edit",
                             !.todo = <<Creator>>])
    /\ UNCHANGED <<people, comment, prayers, notices, shares>>

\* On to the next recipient.
Skip(r) ==
    LET j == job[r] IN
    Become(r, IF Len(j.todo) = 1 THEN Idle
              ELSE [j EXCEPT !.step = "gate", !.todo = Tail(j.todo)])

\* Mutant of Gate: the debounce comes first, the gate thereafter.
GateLast(r) ==
    LET j == job[r]
        u == Head(j.todo) IN
    /\ At(r, "gate")
    /\ IF j.todo = << >> THEN Become(r, Idle) /\ UNCHANGED notices
       ELSE IF u \in window[j.kind] THEN Skip(r) /\ UNCHANGED notices
       ELSE /\ IF CanReceive(u) THEN Goto(r, "send") ELSE Skip(r)
            /\ window' = [window EXCEPT ![j.kind] = @ \cup {u}]
            /\ count' = [count EXCEPT ![j.kind][u].cleared = More(@)]
    /\ UNCHANGED <<people, comment, prayers, shares>>

Gate(r) ==
    LET j == job[r] IN
    /\ At(r, "gate")
    /\ IF j.todo = << >> THEN Become(r, Idle)
       ELSE IF CanReceive(Head(j.todo)) THEN Goto(r, "debounce") ELSE Skip(r)
    /\ UNCHANGED <<people, comment, prayers, notices, shares>>

\* One INSERT ... ON CONFLICT DO UPDATE ... WHERE; rows a day old are deleted
\* first, which is no different here from a window that is over.
ShouldSendDebounced(r) ==
    LET j == job[r]
        u == Head(j.todo) IN
    /\ At(r, "debounce")
    /\ IF u \in window[j.kind] THEN Skip(r) /\ UNCHANGED notices
       ELSE /\ Goto(r, "send")
            /\ window' = [window EXCEPT ![j.kind] = @ \cup {u}]
            /\ count' = [count EXCEPT ![j.kind][u].cleared = More(@)]
    /\ UNCHANGED <<people, comment, prayers, shares>>

\* "On error, allow notification".
DebounceFails(r) ==
    /\ At(r, "debounce")
    /\ job' = [job EXCEPT ![r].step = "send"]
    /\ calm' = FALSE
    /\ UNCHANGED <<people, comment, prayers, notices, shares>>

Send(r) ==
    LET j == job[r] IN
    /\ At(r, "send")
    /\ count' = IF Head(j.todo) \in window[j.kind]
                THEN [count EXCEPT ![j.kind][Head(j.todo)].sent = More(@)] ELSE count
    /\ Skip(r)
    /\ UNCHANGED <<people, comment, prayers, window, shares>>

\* Fifteen minutes pass.
WindowEnds(n, u) ==
    /\ u \in window[n]
    /\ window' = [window EXCEPT ![n] = @ \ {u}]
    /\ count' = [count EXCEPT ![n][u] = NoNotice]
    /\ UNCHANGED <<people, comment, prayers, job, shares, calm>>

-----------------------------------------------------------------------------
(* Sharing with the circle *)

\* The insert of AddPrayerAccess, by a member who has access, and the goroutines
\* it starts.  (The bound: one share's notices at a time.)
ShareWithCircle(u) ==
    LET about == IF subject.linked THEN {subject.user} ELSE {} IN
    /\ ~shared /\ u \in direct /\ member[u] # "out"
    /\ posted = {}
    /\ shared' = TRUE
    /\ posted' = {[what |-> w, actor |-> u, skip |-> {u, Creator}, to |-> {}] :
                     w \in {"link", "subject"}}
    /\ told' = [v \in User |-> 0]
    /\ present' = Active
    /\ audience' = ((Active \cap about) \ {u}) \cup (Active \ (muted \cup {u, Creator}))
    /\ AtOnce
    /\ UNCHANGED <<member, muted, direct, subject, comment, prayers, notices>>

Posted(g, next) == posted' = (posted \ {g}) \cup next /\ UNCHANGED <<job, calm>>

\* Mutant of ReadLink: the person it is about is told with the others.
ReadLinkOnly(g) ==
    /\ g \in posted /\ g.what = "link"
    /\ Posted(g, {[g EXCEPT !.what = "members"]})
    /\ UNCHANGED <<people, comment, prayers, notices, audience, present, told>>

\* The linked user is told by the other goroutine.
ReadLink(g) ==
    /\ g \in posted /\ g.what = "link"
    /\ Posted(g, {[g EXCEPT !.what = "members",
                            !.skip = @ \cup IF subject.linked THEN {subject.user} ELSE {}]})
    /\ UNCHANGED <<people, comment, prayers, notices, audience, present, told>>

GetCircleMembersForNotification(g) ==
    /\ g \in posted /\ g.what = "members"
    /\ Posted(g, {[g EXCEPT !.what = "circle", !.to = Active \ (muted \cup g.skip)]})
    /\ UNCHANGED <<people, comment, prayers, notices, audience, present, told>>

\* The linked user, unless they shared it themselves or are not in the circle.
ReadSubject(g) ==
    /\ g \in posted /\ g.what = "subject"
    /\ Posted(g, IF subject.linked /\ subject.user # g.actor
                 THEN {[g EXCEPT !.what = "forYou", !.to = {subject.user}]} ELSE {})
    /\ UNCHANGED <<people, comment, prayers, notices, audience, present, told>>

IsActiveCircleMember(g) ==
    /\ g \in posted /\ g.what = "forYou"
    /\ Posted(g, IF g.to \subseteq Active THEN {[g EXCEPT !.what = "circle"]} ELSE {})
    /\ UNCHANGED <<people, comment, prayers, notices, audience, present, told>>

TellAll(g) ==
    /\ g \in posted /\ g.what = "circle"
    /\ told' = [u \in User |-> IF u \in g.to THEN told[u] + 1 ELSE told[u]]
    /\ Posted(g, {})
    /\ UNCHANGED <<people, comment, prayers, notices, audience, present>>

\* A goroutine ends with the server or on an error, or some of its inserts fail.
Drop(g) ==
    /\ g \in posted
    /\ \E some \in SUBSET IF g.what = "circle" THEN g.to ELSE {} :
          told' = [u \in User |-> IF u \in some THEN told[u] + 1 ELSE told[u]]
    /\ posted' = posted \ {g}
    /\ calm' = FALSE
    /\ UNCHANGED <<people, comment, prayers, notices, job, audience, present>>

-----------------------------------------------------------------------------
(* Who prayed *)

\* Nothing is written within five minutes of the same user's prayer.
RecordPrayer(r, u) ==
    /\ HasAccess(u)
    /\ IF analytics.found
       THEN /\ ~(analytics.last = u /\ analytics.recent)
            /\ Start(r, [Idle EXCEPT !.step = "again", !.user = u, !.flag = (analytics.last # u)])
       ELSE Start(r, [Idle EXCEPT !.step = "first", !.user = u])
    /\ UNCHANGED <<people, comment, prayers, notices, shares>>

\* The row is the prayer's only one: the INSERT of a second fails, by a unique
\* constraint of a schema that is not in the repository.
FirstPrayer(r) ==
    LET u == job[r].user IN
    /\ At(r, "first")
    /\ IF analytics.found THEN UNCHANGED prayers
       ELSE /\ analytics' = [found |-> TRUE, total |-> 1, unique |-> 1, last |-> u,
                             recent |-> TRUE]
            /\ prayed' = prayed \cup {u}
    /\ Become(r, Idle)
    /\ UNCHANGED <<people, comment, notices, shares>>

\* Mutant of AnotherPrayer: the counter is written as it is when the user changes.
AnotherPrayerUncounted(r) ==
    LET j == job[r] IN
    /\ At(r, "again")
    /\ analytics.total < MaxPrayed
    /\ analytics' = [analytics EXCEPT !.total = @ + 1, !.last = j.user, !.recent = TRUE,
                                      !.unique = IF j.flag /\ ~analytics.recent THEN @ + 1 ELSE @]
    /\ prayed' = prayed \cup {j.user}
    /\ Become(r, Idle)
    /\ UNCHANGED <<people, comment, notices, shares>>

\* The counters are incremented in place; whether the user is another one was
\* read before.
AnotherPrayer(r) ==
    LET j == job[r] IN
    /\ At(r, "again")
    /\ analytics.total < MaxPrayed
    /\ analytics' = [analytics EXCEPT !.total = @ + 1, !.last = j.user, !.recent = TRUE,
                                      !.unique = IF j.flag THEN @ + 1 ELSE @]
    /\ prayed' = prayed \cup {j.user}
    /\ Become(r, Idle)
    /\ UNCHANGED <<people, comment, notices, shares>>

\* Five minutes pass.
CooldownEnds ==
    /\ analytics.recent
    /\ analytics' = [analytics EXCEPT !.recent = FALSE]
    /\ UNCHANGED <<people, comment, prayed, notices, job, shares, calm>>

-----------------------------------------------------------------------------
(* Membership, rows and links, as Circles, Prayers and Contacts model them *)

Membership(u, as) ==
    /\ member[u] # as
    /\ member' = [member EXCEPT ![u] = as]
    /\ present' = IF as = "active" /\ posted # {} THEN present \cup {u} ELSE present
    /\ AtOnce
    /\ UNCHANGED <<muted, direct, shared, subject, comment, prayers, notices, posted, audience,
                   told>>

\* A column that is only read here.
ToggleMute(u) ==
    /\ muted' = IF u \in muted THEN muted \ {u} ELSE muted \cup {u}
    /\ AtOnce
    /\ UNCHANGED <<member, direct, shared, subject, comment, prayers, notices, shares>>

ChangeRow(u) ==
    /\ direct' = IF u \in direct THEN direct \ {u} ELSE direct \cup {u}
    /\ AtOnce
    /\ UNCHANGED <<member, muted, shared, subject, comment, prayers, notices, shares>>

Unshare ==
    /\ shared /\ shared' = FALSE
    /\ AtOnce
    /\ UNCHANGED <<member, muted, direct, subject, comment, prayers, notices, shares>>

Relink(u, linked) ==
    /\ linked => u # None
    /\ subject' = [user |-> u, linked |-> linked]
    /\ AtOnce
    /\ UNCHANGED <<member, muted, direct, shared, comment, prayers, notices, shares>>

\* A request ends before its next statement, or that statement fails.
Abandon(r) ==
    /\ job[r] # Idle
    /\ job' = [job EXCEPT ![r] = Idle]
    /\ calm' = FALSE
    /\ UNCHANGED <<people, comment, prayers, notices, shares>>

Handle(r) ==
    \/ \E k \in Comment : InsertComment(r, k)
    \/ WriteComment(r) \/ NotifyUsersOfNewComment(r) \/ NotifyCreatorOfSubjectEdit(r)
    \/ Gate(r) \/ ShouldSendDebounced(r) \/ DebounceFails(r) \/ Send(r)
    \/ FirstPrayer(r) \/ AnotherPrayer(r) \/ Abandon(r)

Background(g) ==
    \/ ReadLink(g) \/ GetCircleMembersForNotification(g) \/ ReadSubject(g)
    \/ IsActiveCircleMember(g) \/ TellAll(g) \/ Drop(g)

Elsewhere(u) ==
    \/ \E as \in {"out", "active", "archived"} : Membership(u, as)
    \/ ToggleMute(u) \/ ChangeRow(u)
    \/ \E linked \in BOOLEAN : Relink(u, linked)

Next ==
    \/ \E r \in Request :
          \/ Handle(r)
          \/ \E u \in User :
                \/ \E private \in BOOLEAN : CreateComment(r, u, private)
                \/ \E k \in Comment : TakeComment(r, u, k)
                \/ RecordPrayer(r, u)
    \/ \E u \in User :
          ShareWithCircle(u) \/ Elsewhere(u) \/ \E n \in Notice : WindowEnds(n, u)
    \/ \E g \in posted : Background(g)
    \/ Unshare \/ Relink(None, FALSE) \/ CooldownEnds

Spec == Init /\ [][Next]_vars

-----------------------------------------------------------------------------
(* Properties *)

Settled == calm /\ Quiet

\* num_unique_users and total_prayers: however requests overlap and fail, every
\* user whose prayer was recorded is counted, and no one more often than they
\* prayed.
PrayedAreCounted ==
    Cardinality(prayed) <= analytics.unique /\ analytics.unique <= analytics.total

\* One notice for each window of fifteen minutes: however requests overlap, one
\* is cleared to be sent, and while they do not overlap or fail it is sent, so
\* that no one's window runs in silence.
OncePerWindow ==
    \A n \in Notice, u \in User : u \in window[n] =>
        /\ count[n][u].cleared = 1
        /\ Settled => count[n][u].sent = 1

\* Only people who are, or were since the share, active members of the circle
\* hear of it; and undisturbed, each of those who should does, once, by one of
\* the two goroutines.
ShareTold ==
    /\ \A u \in User : told[u] > 0 => u \in present
    /\ Settled => \A u \in User : told[u] = IF u \in audience THEN 1 ELSE 0
=============================================================================
