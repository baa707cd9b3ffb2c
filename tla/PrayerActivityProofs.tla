------------------------ MODULE PrayerActivityProofs ------------------------
(***************************************************************************)
(* What holds of the notices and the counters of a prayer for any users,   *)
(* comments and overlapping requests: types, the count of those who        *)
(* prayed, one notice for each debounce window, and who hears of a share.  *)
(***************************************************************************)
EXTENDS PrayerActivity, FiniteSetTheorems, TLAPS

USE CreatorAssumption, CommentAssumption

-----------------------------------------------------------------------------
(* Jobs *)

\* The part of the type invariant that the slots make.
JobOK(j) ==
    /\ j \in Job
    /\ j.step # "idle" => j.user \in User
    /\ j.step \in {"debounce", "send"} => j.todo # << >>

JobsOK ==
    /\ job \in [Request -> Job]
    /\ \A r \in Request : JobOK(job[r])

LEMMA IdleOK == JobOK(Idle) /\ Idle.step = "idle"
  BY DEF JobOK, Job, Idle, Step, Notice

LEMMA PutJob ==
  ASSUME JobsOK, NEW r \in Request, NEW j, JobOK(j), job' = [job EXCEPT ![r] = j]
  PROVE  JobsOK'
  BY DEF JobsOK, JobOK

\* A field at a time.
LEMMA FieldOf ==
  ASSUME NEW i \in Job
  PROVE  /\ \A s \in Step : LET k == [i EXCEPT !.step = s] IN
              k \in Job /\ k.step = s /\ k.user = i.user /\ k.todo = i.todo
         /\ \A u \in User : LET k == [i EXCEPT !.user = u] IN
              k \in Job /\ k.step = i.step /\ k.user = u /\ k.todo = i.todo
         /\ \A c \in Comment \cup {0} : LET k == [i EXCEPT !.comment = c] IN
              k \in Job /\ k.step = i.step /\ k.user = i.user /\ k.todo = i.todo
         /\ \A b \in BOOLEAN : LET k == [i EXCEPT !.flag = b] IN
              k \in Job /\ k.step = i.step /\ k.user = i.user /\ k.todo = i.todo
         /\ \A n \in Notice : LET k == [i EXCEPT !.kind = n] IN
              k \in Job /\ k.step = i.step /\ k.user = i.user /\ k.todo = i.todo
         /\ \A t \in Seq(User) : LET k == [i EXCEPT !.todo = t] IN
              k \in Job /\ k.step = i.step /\ k.user = i.user /\ k.todo = t
  BY DEF Job

\* A job that goes on to the next recipient, or ends with the last.
LEMMA SkipKeeps ==
  ASSUME JobsOK, NEW r \in Request, job[r].step # "idle", job[r].todo # << >>, Skip(r)
  PROVE  JobsOK' /\ UNCHANGED calm
<1> DEFINE j == job[r]
           i == [j EXCEPT !.step = "gate"]
           k == [i EXCEPT !.todo = Tail(j.todo)]
<1>1. j \in Job /\ j.todo \in Seq(User) /\ j.user \in User
  BY DEF JobsOK, JobOK, Job
<1>2. i \in Job /\ i.step = "gate" /\ i.user = j.user
  BY <1>1, FieldOf DEF Step
<1>3. JobOK(k)
  <2>1. Tail(j.todo) \in Seq(User)
    BY <1>1
  <2> HIDE DEF i
  <2>2. k \in Job /\ k.step = i.step /\ k.user = i.user
    BY <1>2, <2>1, FieldOf
  <2> QED
    BY <1>1, <1>2, <2>2 DEF JobOK
<1>4. job' = [job EXCEPT ![r] = Idle] \/ job' = [job EXCEPT ![r] = k]
  BY DEF Skip, Become
<1> HIDE DEF k
<1> QED
  BY <1>3, <1>4, IdleOK, PutJob DEF Skip, Become

LEMMA GotoKeeps ==
  ASSUME JobsOK, NEW r \in Request, job[r].step # "idle", job[r].todo # << >>,
         NEW s \in {"debounce", "send"}, job' = [job EXCEPT ![r].step = s]
  PROVE  JobsOK'
<1> DEFINE k == [job[r] EXCEPT !.step = s]
<1>1. JobOK(k)
  BY DEF JobsOK, JobOK, Job, Step
<1>2. job' = [job EXCEPT ![r] = k]
  OBVIOUS
<1> QED
  BY <1>1, <1>2, PutJob

LEMMA SkipEnds ==
  ASSUME JobsOK, NEW r \in Request, Skip(r)
  PROVE  job'[r].step \in {"idle", "gate"} /\ \A q \in Request \ {r} : job'[q] = job[q]
<1> DEFINE j == job[r]
           i == [j EXCEPT !.step = "gate"]
           k == [i EXCEPT !.todo = Tail(j.todo)]
<1>0. j \in Job
  BY DEF JobsOK
<1>1. i \in Job /\ i.step = "gate"
  BY <1>0, FieldOf DEF Step
<1> HIDE DEF i
<1>2. k.step = "gate"
  BY <1>1 DEF Job
<1>3. job' = [job EXCEPT ![r] = Idle] \/ job' = [job EXCEPT ![r] = k]
  BY DEF i, Skip, Become
<1> HIDE DEF k
<1> QED
  BY <1>2, <1>3, IdleOK DEF JobsOK

LEMMA GotoEnds ==
  ASSUME JobsOK, NEW r \in Request, NEW s \in Step, job' = [job EXCEPT ![r].step = s]
  PROVE  /\ job'[r].step = s /\ job'[r].kind = job[r].kind /\ job'[r].todo = job[r].todo
         /\ \A q \in Request \ {r} : job'[q] = job[q]
  BY DEF JobsOK, Job

\* What a request makes of its slot when it starts.
LEMMA TakenOK ==
  ASSUME NEW s \in Step \ {"idle", "debounce", "send"}, NEW u \in User,
         NEW k \in Comment \cup {0}, NEW b \in BOOLEAN
  PROVE  /\ JobOK([Idle EXCEPT !.step = s, !.user = u])
         /\ JobOK([Idle EXCEPT !.step = s, !.user = u, !.flag = b])
         /\ JobOK([Idle EXCEPT !.step = s, !.user = u, !.comment = k])
         /\ JobOK([Idle EXCEPT !.step = s, !.user = u, !.comment = k, !.flag = b])
<1> DEFINE i1 == [Idle EXCEPT !.step = s]
           i2 == [i1 EXCEPT !.user = u]
           i3 == [i2 EXCEPT !.comment = k]
<1>1. i1 \in Job /\ i1.step = s
  BY IdleOK, FieldOf DEF JobOK
<1> HIDE DEF i1
<1>2. i2 \in Job /\ i2.step = s /\ i2.user = u
  BY <1>1, FieldOf
<1> HIDE DEF i2
<1>3. i3 \in Job /\ i3.step = s /\ i3.user = u
  BY <1>2, FieldOf
<1> HIDE DEF i3
<1>4. JobOK(i2) /\ JobOK([i2 EXCEPT !.flag = b]) /\ JobOK(i3) /\ JobOK([i3 EXCEPT !.flag = b])
  BY <1>2, <1>3, FieldOf DEF JobOK
<1> QED
  BY <1>4, Zenon DEF i1, i2, i3

LEMMA StartKeeps ==
  ASSUME JobsOK, NEW r \in Request, NEW j, JobOK(j), Start(r, j)
  PROVE  JobsOK'
  BY PutJob DEF Start

LEMMA FinishKeeps ==
  ASSUME JobsOK, NEW r \in Request, Become(r, Idle)
  PROVE  JobsOK'
  BY IdleOK, PutJob DEF Become

\* The list of those a comment is told to.
LEMMA ListKeeps ==
  ASSUME JobsOK, NEW r \in Request, NotifyUsersOfNewComment(r),
         subject.user \in User \cup {None}, comment \in [Comment -> CommentRow]
  PROVE  JobsOK'
<1> DEFINE j == job[r]
           once(u) == IF u \in {None, j.user} THEN << >> ELSE <<u>>
           before == {comment[k].author : k \in Comment \ {j.comment}}
                         \ {None, j.user, Creator, subject.user}
           i == [j EXCEPT !.step = "gate"]
<1>1. j \in Job /\ j.user \in User
  BY DEF JobsOK, JobOK, NotifyUsersOfNewComment, At
<1>2. i \in Job /\ i.step = "gate" /\ i.user = j.user
  BY <1>1, FieldOf DEF Step
<1>3. once(Creator) \in Seq(User) /\ once(subject.user) \in Seq(User)
  OBVIOUS
<1>4. before \subseteq User
  BY DEF CommentRow
<1>5. PICK rest \in [1 .. Cardinality(before) -> before] :
          job' = [job EXCEPT ![r] = [i EXCEPT !.todo = once(Creator) \o once(subject.user) \o rest]]
  BY DEF NotifyUsersOfNewComment, Become
<1> DEFINE list == once(Creator) \o once(subject.user) \o rest
<1>6. list \in Seq(User)
  <2>1. rest \in Seq(User)
    <3> DEFINE n == Cardinality(before)
    <3>1. n \in Nat
      BY <1>4, FS_Subset, FS_CardinalityType
    <3>2. rest \in [1 .. n -> User]
      BY <1>4
    <3> HIDE DEF n
    <3> QED
      BY <3>1, <3>2
  <2> QED
    BY <1>3, <2>1
<1> HIDE DEF list, i
<1>7. JobOK([i EXCEPT !.todo = list])
  BY <1>1, <1>2, <1>6, FieldOf DEF JobOK
<1> QED
  BY <1>5, <1>7, PutJob DEF list

-----------------------------------------------------------------------------
(* Types *)

PeopleOK ==
    /\ member \in [User -> {"out", "active", "archived"}]
    /\ muted \subseteq User /\ direct \subseteq User
    /\ shared \in BOOLEAN
    /\ subject \in [user : User \cup {None}, linked : BOOLEAN]
    /\ subject.linked => subject.user \in User

CommentsOK ==
    /\ comment \in [Comment -> CommentRow]
    /\ \A k \in Comment : comment[k].state = "there" <=> comment[k].author \in User

LEMMA InsertKeeps ==
  ASSUME JobsOK, CommentsOK, NEW r \in Request, NEW k \in Comment, InsertComment(r, k)
  PROVE  JobsOK' /\ CommentsOK'
<1> DEFINE j == job[r]
           i == [j EXCEPT !.step = "list"]
           row == [state |-> "there", author |-> j.user, private |-> j.flag, hidden |-> FALSE]
<1>1. j \in Job /\ j.user \in User
  BY DEF JobsOK, JobOK, InsertComment, At
<1>2. i \in Job /\ i.step = "list" /\ i.user = j.user
  BY <1>1, FieldOf DEF Step
<1>3. job' = [job EXCEPT ![r] = [i EXCEPT !.comment = k]]
  BY DEF InsertComment, Become
<1> HIDE DEF i
<1>4. JobOK([i EXCEPT !.comment = k])
  BY <1>1, <1>2, FieldOf DEF JobOK
<1>5. comment' = [comment EXCEPT ![k] = row] /\ row \in CommentRow
  BY <1>1 DEF InsertComment, CommentRow, Job
<1>6. CommentsOK'
  BY <1>1, <1>5 DEF CommentsOK
<1> QED
  BY <1>3, <1>4, <1>6, PutJob

LEMMA WriteKeeps ==
  ASSUME JobsOK, CommentsOK, NEW r \in Request, WriteComment(r)
  PROVE  JobsOK' /\ CommentsOK'
<1> DEFINE j == job[r]
           k == j.comment
           row == comment[k]
<1>1. JobsOK'
  BY FinishKeeps DEF WriteComment
<1>2. CASE k \notin Comment
  <2>1. comment' = comment
    BY <1>2 DEF WriteComment, CommentsOK
  <2> QED
    BY <1>1, <2>1 DEF CommentsOK
<1>3. CASE k \in Comment
  <2>1. row \in CommentRow /\ (row.state = "there" <=> row.author \in User)
    BY <1>3 DEF CommentsOK
  <2>2. j.flag \in BOOLEAN
    BY DEF JobsOK, Job
  <2>3. PICK new :
            /\ comment' = [comment EXCEPT ![k] = new]
            /\ new \in {[NoComment EXCEPT !.state = "gone"],
                        [row EXCEPT !.hidden = (row.state = "there")],
                        [row EXCEPT !.private = (j.flag /\ row.state = "there")]}
    BY <1>3 DEF WriteComment, CommentsOK
  <2>4. new \in CommentRow /\ (new.state = "there" <=> new.author \in User)
    <3>1. NoComment \in CommentRow /\ NoComment.author = None
      BY DEF NoComment, CommentRow
    <3>2. CASE new = [NoComment EXCEPT !.state = "gone"]
      BY <3>1, <3>2 DEF CommentRow
    <3>3. CASE new = [row EXCEPT !.hidden = (row.state = "there")]
      BY <2>1, <3>3 DEF CommentRow
    <3>4. CASE new = [row EXCEPT !.private = (j.flag /\ row.state = "there")]
      BY <2>1, <2>2, <3>4 DEF CommentRow
    <3> QED
      BY <2>3, <3>2, <3>3, <3>4
  <2> QED
    BY <1>1, <1>3, <2>3, <2>4 DEF CommentsOK
<1> QED
  BY <1>2, <1>3

LEMMA EditKeeps ==
  ASSUME JobsOK, PeopleOK, NEW r \in Request, NotifyCreatorOfSubjectEdit(r)
  PROVE  JobsOK'
<1> DEFINE i1 == [Idle EXCEPT !.step = "gate"]
           i2 == [i1 EXCEPT !.user = subject.user]
           i3 == [i2 EXCEPT !.kind = "edit"]
           i4 == [i3 EXCEPT !.todo = <<Creator>>]
<1>0. subject.user \in User /\ <<Creator>> \in Seq(User)
  BY DEF PeopleOK, NotifyCreatorOfSubjectEdit
<1>1. i1 \in Job /\ i1.step = "gate"
  BY IdleOK, FieldOf DEF JobOK, Step
<1> HIDE DEF i1
<1>2. i2 \in Job /\ i2.step = "gate" /\ i2.user = subject.user
  BY <1>0, <1>1, FieldOf
<1> HIDE DEF i2
<1>3. i3 \in Job /\ i3.step = "gate" /\ i3.user = subject.user
  BY <1>2, FieldOf DEF Notice
<1> HIDE DEF i3
<1>4. JobOK(i4)
  BY <1>0, <1>3, FieldOf DEF JobOK
<1> HIDE DEF i4
<1>5. Start(r, i4)
  BY Zenon DEF i1, i2, i3, i4, NotifyCreatorOfSubjectEdit
<1> QED
  BY <1>4, <1>5, StartKeeps

\* Every step leaves the slots well formed.
LEMMA JobsKept ==
  ASSUME JobsOK, PeopleOK, CommentsOK, Next
  PROVE  JobsOK'
<1>1. ASSUME NEW r \in Request, Handle(r)
      PROVE  JobsOK'
  <2>1. CASE \E k \in Comment : InsertComment(r, k)
    BY <2>1, InsertKeeps
  <2>2. CASE WriteComment(r)
    BY <2>2, WriteKeeps
  <2>3. CASE NotifyUsersOfNewComment(r)
    BY <2>3, ListKeeps DEF PeopleOK, CommentsOK
  <2>4. CASE NotifyCreatorOfSubjectEdit(r)
    BY <2>4, EditKeeps
  <2>5. CASE Gate(r)
    <3>1. job[r].step # "idle"
      BY <2>5 DEF Gate, At
    <3> QED
      BY <2>5, <3>1, FinishKeeps, SkipKeeps, GotoKeeps DEF Gate, Goto, Become
  <2>6. CASE ShouldSendDebounced(r) \/ DebounceFails(r) \/ Send(r)
    <3>1. job[r].step # "idle" /\ job[r].todo # << >>
      BY <2>6 DEF ShouldSendDebounced, DebounceFails, Send, At, JobsOK, JobOK
    <3> QED
      BY <2>6, <3>1, SkipKeeps, GotoKeeps
         DEF ShouldSendDebounced, DebounceFails, Send, Goto, Become
  <2>7. CASE FirstPrayer(r) \/ AnotherPrayer(r) \/ Abandon(r)
    BY <2>7, FinishKeeps, IdleOK, PutJob DEF FirstPrayer, AnotherPrayer, Abandon
  <2> QED
    BY <1>1, <2>1, <2>2, <2>3, <2>4, <2>5, <2>6, <2>7 DEF Handle
<1>2. ASSUME NEW r \in Request, NEW u \in User, RecordPrayer(r, u)
      PROVE  JobsOK'
  <2>1. /\ JobOK([Idle EXCEPT !.step = "again", !.user = u, !.flag = (analytics.last # u)])
        /\ JobOK([Idle EXCEPT !.step = "first", !.user = u])
    BY TakenOK DEF Step
  <2> QED
    BY <1>2, <2>1, StartKeeps DEF RecordPrayer
<1>3. ASSUME NEW r \in Request, NEW u \in User, NEW b \in BOOLEAN, CreateComment(r, u, b)
      PROVE  JobsOK'
  <2>1. JobOK([Idle EXCEPT !.step = "insert", !.user = u, !.flag = b])
    BY TakenOK DEF Step
  <2> QED
    BY <1>3, <2>1, StartKeeps DEF CreateComment
<1>4. ASSUME NEW r \in Request, NEW u \in User, NEW k \in Comment, TakeComment(r, u, k)
      PROVE  JobsOK'
  <2>1. (~comment[k].private) \in BOOLEAN
    BY Zenon
  <2>2. /\ JobOK([Idle EXCEPT !.step = "delete", !.user = u, !.comment = k])
        /\ JobOK([Idle EXCEPT !.step = "hide", !.user = u, !.comment = k])
        /\ JobOK([Idle EXCEPT !.step = "toggle", !.user = u, !.comment = k,
                              !.flag = ~comment[k].private])
    BY <2>1, TakenOK DEF Step
  <2> QED
    BY <1>4, <2>2, StartKeeps DEF TakeComment
<1>5. ASSUME UNCHANGED job
      PROVE  JobsOK'
  BY <1>5 DEF JobsOK
<1>6. ASSUME NEW u \in User, Elsewhere(u) \/ ShareWithCircle(u)
                             \/ \E n \in Notice : WindowEnds(n, u)
      PROVE  UNCHANGED job
  BY <1>6 DEF Elsewhere, Membership, ToggleMute, ChangeRow, Relink, ShareWithCircle,
              WindowEnds, AtOnce
<1>7. ASSUME NEW g \in posted, Background(g)
      PROVE  UNCHANGED job
  BY <1>7 DEF Background, ReadLink, GetCircleMembersForNotification, ReadSubject,
              IsActiveCircleMember, TellAll, Drop, Posted
<1>8. Unshare \/ Relink(None, FALSE) \/ CooldownEnds => UNCHANGED job
  BY DEF Unshare, Relink, CooldownEnds, AtOnce
<1> QED
  BY <1>1, <1>2, <1>3, <1>4, <1>5, <1>6, <1>7, <1>8 DEF Next

-----------------------------------------------------------------------------
(* What each kind of step leaves alone *)

LEMMA HandleChanges ==
  ASSUME NEW r \in Request, Handle(r)
  PROVE  /\ UNCHANGED people /\ UNCHANGED shares
         /\ UNCHANGED comment \/ WriteComment(r) \/ \E k \in Comment : InsertComment(r, k)
         /\ UNCHANGED prayers \/ FirstPrayer(r) \/ AnotherPrayer(r)
         /\ UNCHANGED notices \/ ShouldSendDebounced(r) \/ Send(r)
<1>1. CASE \E k \in Comment : InsertComment(r, k)
  BY <1>1 DEF InsertComment
<1>2. CASE WriteComment(r) \/ NotifyUsersOfNewComment(r) \/ NotifyCreatorOfSubjectEdit(r)
  BY <1>2 DEF WriteComment, NotifyUsersOfNewComment, NotifyCreatorOfSubjectEdit
<1>3. CASE Gate(r) \/ ShouldSendDebounced(r) \/ DebounceFails(r) \/ Send(r)
  BY <1>3 DEF Gate, ShouldSendDebounced, DebounceFails, Send
<1>4. CASE FirstPrayer(r) \/ AnotherPrayer(r) \/ Abandon(r)
  BY <1>4 DEF FirstPrayer, AnotherPrayer, Abandon
<1> QED
  BY <1>1, <1>2, <1>3, <1>4 DEF Handle

\* A request that arrives.
Take(r, u) ==
    \/ \E private \in BOOLEAN : CreateComment(r, u, private)
    \/ \E k \in Comment : TakeComment(r, u, k)
    \/ RecordPrayer(r, u)

LEMMA TakeChanges ==
  ASSUME NEW r \in Request, NEW u \in User, Take(r, u)
  PROVE  /\ UNCHANGED <<people, comment, prayers, notices, shares>>
         /\ job[r] = Idle /\ calm' = (calm /\ Quiet)
  BY DEF Take, CreateComment, TakeComment, RecordPrayer, Start

LEMMA BackgroundChanges ==
  ASSUME NEW g \in posted, Background(g)
  PROVE  /\ UNCHANGED <<people, comment, prayers, notices, job, audience, present>>
         /\ calm' => calm
  BY DEF Background, ReadLink, GetCircleMembersForNotification, ReadSubject,
         IsActiveCircleMember, TellAll, Drop, Posted

\* Steps of other handlers.
Around ==
    \/ \E u \in User : Elsewhere(u) \/ ShareWithCircle(u)
    \/ Unshare \/ Relink(None, FALSE)

LEMMA AroundChanges ==
  ASSUME Around
  PROVE  /\ UNCHANGED <<comment, prayers, notices, job>>
         /\ calm' = (calm /\ Quiet)
  BY DEF Around, Elsewhere, Membership, ToggleMute, ChangeRow, Relink, ShareWithCircle,
         Unshare, AtOnce

\* The clock.
Clock == CooldownEnds \/ \E n \in Notice, u \in User : WindowEnds(n, u)

LEMMA ClockChanges ==
  ASSUME Clock
  PROVE  UNCHANGED <<people, comment, job, shares, calm>>
  BY DEF Clock, CooldownEnds, WindowEnds

LEMMA Kinds ==
  ASSUME Next
  PROVE  \/ \E r \in Request : Handle(r)
         \/ \E r \in Request, u \in User : Take(r, u)
         \/ \E g \in posted : Background(g)
         \/ Around \/ Clock
  BY DEF Next, Take, Around, Clock

LEMMA PeopleKept ==
  ASSUME PeopleOK, Next
  PROVE  PeopleOK'
<1>1. ASSUME UNCHANGED people PROVE PeopleOK'
  BY <1>1 DEF PeopleOK, people
<1>2. ASSUME NEW u \in User, Elsewhere(u) PROVE PeopleOK'
  <2>1. ASSUME NEW as \in {"out", "active", "archived"}, Membership(u, as) PROVE PeopleOK'
    BY <2>1 DEF Membership, PeopleOK
  <2>2. CASE ToggleMute(u) \/ ChangeRow(u)
    BY <2>2 DEF ToggleMute, ChangeRow, PeopleOK
  <2>3. ASSUME NEW b \in BOOLEAN, Relink(u, b) PROVE PeopleOK'
    BY <2>3 DEF Relink, PeopleOK
  <2> QED
    BY <1>2, <2>1, <2>2, <2>3 DEF Elsewhere
<1>3. ASSUME NEW u \in User, ShareWithCircle(u) PROVE PeopleOK'
  BY <1>3 DEF ShareWithCircle, PeopleOK
<1>4. ASSUME Unshare PROVE PeopleOK'
  BY <1>4 DEF Unshare, PeopleOK
<1>5. ASSUME Relink(None, FALSE) PROVE PeopleOK'
  BY <1>5 DEF Relink, PeopleOK
<1> QED
  BY <1>1, <1>2, <1>3, <1>4, <1>5, Kinds, HandleChanges, TakeChanges, BackgroundChanges,
     ClockChanges DEF Around

LEMMA CommentsKept ==
  ASSUME JobsOK, CommentsOK, Next
  PROVE  CommentsOK'
<1>1. ASSUME UNCHANGED comment PROVE CommentsOK'
  BY <1>1 DEF CommentsOK
<1> QED
  BY <1>1, Kinds, HandleChanges, TakeChanges, BackgroundChanges, AroundChanges, ClockChanges,
     InsertKeeps, WriteKeeps

-----------------------------------------------------------------------------
(* Who prayed *)

\* The inductive invariant: a request that will not count its user read that
\* the user had prayed last, and whoever prayed last is among those who prayed.
CountInv ==
    /\ analytics \in [found : BOOLEAN, total : Nat, unique : Nat, last : User \cup {None},
                      recent : BOOLEAN]
    /\ analytics.total <= MaxPrayed
    /\ analytics.found <=> analytics.last \in User
    /\ prayed \subseteq User
    /\ PrayedAreCounted
    /\ IF analytics.found THEN analytics.last \in prayed ELSE prayed = {}
    /\ \A r \in Request : job[r].step = "again" =>
           analytics.found /\ (~job[r].flag => job[r].user \in prayed)

LEMMA PrayedCount ==
  ASSUME NEW S \in SUBSET User, NEW u \in User
  PROVE  /\ Cardinality(S) \in Nat /\ Cardinality(S \cup {u}) \in Nat
         /\ Cardinality(S \cup {u}) <= Cardinality(S) + 1
         /\ u \in S => Cardinality(S \cup {u}) = Cardinality(S)
<1>1. IsFiniteSet(S) /\ IsFiniteSet(S \cup {u})
  BY FS_Subset, FS_AddElement
<1>2. u \in S => S \cup {u} = S
  OBVIOUS
<1> QED
  BY <1>1, <1>2, FS_AddElement, FS_CardinalityType

LEMMA FirstIsCounted ==
  ASSUME JobsOK, CountInv, NEW r \in Request, FirstPrayer(r)
  PROVE  CountInv'
<1>1. job[r].user \in User /\ job' = [job EXCEPT ![r] = Idle]
  BY DEF FirstPrayer, At, JobsOK, JobOK, Become
<1>2. \A q \in Request : job'[q].step = "again" => job'[q] = job[q] /\ job[q].step = "again"
  BY <1>1, IdleOK DEF JobsOK
<1>3. CASE analytics.found
  BY <1>2, <1>3 DEF FirstPrayer, prayers, CountInv, PrayedAreCounted
<1>4. CASE ~analytics.found
  <2>0. prayed' = {job[r].user}
    BY <1>4 DEF FirstPrayer, CountInv
  <2>1. Cardinality(prayed') = 1
    BY <2>0, FS_Singleton
  <2>2. analytics' = [found |-> TRUE, total |-> 1, unique |-> 1, last |-> job[r].user,
                      recent |-> TRUE]
    BY <1>4 DEF FirstPrayer
  <2> QED
    BY <1>1, <1>2, <1>4, <2>0, <2>1, <2>2 DEF CountInv, PrayedAreCounted
<1> QED
  BY <1>3, <1>4

LEMMA AnotherIsCounted ==
  ASSUME JobsOK, CountInv, NEW r \in Request, AnotherPrayer(r)
  PROVE  CountInv'
<1> DEFINE u == job[r].user
<1>1. u \in User /\ job' = [job EXCEPT ![r] = Idle] /\ job[r].flag \in BOOLEAN
  BY DEF AnotherPrayer, At, JobsOK, JobOK, Job, Become
<1>2. \A q \in Request : job'[q].step = "again" => job'[q] = job[q] /\ job[q].step = "again"
  BY <1>1, IdleOK DEF JobsOK
<1>3. analytics.found /\ (~job[r].flag => u \in prayed)
  BY DEF AnotherPrayer, At, CountInv
<1>4. /\ prayed' = prayed \cup {u} /\ analytics.total < MaxPrayed
      /\ analytics'.total = analytics.total + 1 /\ analytics'.last = u
      /\ analytics'.unique = IF job[r].flag THEN analytics.unique + 1 ELSE analytics.unique
      /\ analytics'.found = analytics.found
      /\ analytics' \in [found : BOOLEAN, total : Nat, unique : Nat, last : User \cup {None},
                         recent : BOOLEAN]
  <2> DEFINE a == analytics
             n == IF job[r].flag THEN a.unique + 1 ELSE a.unique
             T == [found : BOOLEAN, total : Nat, unique : Nat, last : User \cup {None},
                   recent : BOOLEAN]
             a1 == [a EXCEPT !.total = a.total + 1]
             a2 == [a1 EXCEPT !.last = u]
             a3 == [a2 EXCEPT !.recent = TRUE]
             a4 == [a3 EXCEPT !.unique = n]
  <2>0. a \in T /\ a.total + 1 \in Nat /\ n \in Nat
    BY DEF CountInv
  <2>1. a1 \in T /\ a1.total = a.total + 1 /\ a1.found = a.found /\ a1.unique = a.unique
    BY <2>0
  <2> HIDE DEF a1
  <2>2. a2 \in T /\ a2.total = a.total + 1 /\ a2.found = a.found /\ a2.last = u
    BY <1>1, <2>1
  <2> HIDE DEF a2
  <2>3. a3 \in T /\ a3.total = a.total + 1 /\ a3.found = a.found /\ a3.last = u
    BY <2>2
  <2> HIDE DEF a3, n
  <2>4. /\ a4 \in T /\ a4.total = a.total + 1 /\ a4.found = a.found /\ a4.last = u
        /\ a4.unique = n
    BY <2>0, <2>3
  <2> HIDE DEF a4
  <2>5. /\ prayed' = prayed \cup {u} /\ analytics.total < MaxPrayed
        /\ analytics' = [analytics EXCEPT !.total = @ + 1, !.last = u, !.recent = TRUE,
                              !.unique = IF job[r].flag THEN @ + 1 ELSE @]
    BY DEF AnotherPrayer
  <2>6. analytics' = [analytics EXCEPT !.total = a.total + 1, !.last = u, !.recent = TRUE,
                              !.unique = n]
    BY <2>5, Zenon DEF n
  <2>7. analytics' = a4
    BY <2>6, Zenon DEF a1, a2, a3, a4
  <2> QED
    BY <2>4, <2>5, <2>7 DEF n
<1>5. Cardinality(prayed') <= analytics'.unique /\ analytics'.unique <= analytics'.total
  <2>1. /\ Cardinality(prayed) <= analytics.unique /\ analytics.unique <= analytics.total
        /\ analytics.unique \in Nat /\ analytics.total \in Nat /\ prayed \subseteq User
    BY DEF CountInv, PrayedAreCounted
  <2> QED
    BY <1>1, <1>3, <1>4, <2>1, PrayedCount
<1>6. /\ analytics'.total <= MaxPrayed /\ prayed' \subseteq User /\ u \in prayed'
      /\ prayed \subseteq prayed'
  BY <1>1, <1>4 DEF CountInv
<1>7. \A q \in Request : job[q].step = "again" =>
          analytics'.found /\ (~job[q].flag => job[q].user \in prayed')
  BY <1>4, <1>6 DEF CountInv
<1> QED
  BY <1>1, <1>2, <1>3, <1>4, <1>5, <1>6, <1>7 DEF CountInv, PrayedAreCounted

LEMMA CountKept ==
  ASSUME JobsOK, JobsOK', CountInv, Next
  PROVE  CountInv'
<1>1. ASSUME UNCHANGED prayers,
             \A q \in Request : job'[q].step = "again" => job'[q] = job[q]
      PROVE  CountInv'
  BY <1>1 DEF prayers, CountInv, PrayedAreCounted
<1>2. ASSUME NEW r \in Request, Handle(r), ~FirstPrayer(r), ~AnotherPrayer(r)
      PROVE  CountInv'
  <2>1. UNCHANGED prayers
    BY <1>2, HandleChanges
  <2>2. \A q \in Request \ {r} : job'[q] = job[q]
    BY <1>2 DEF Handle, InsertComment, WriteComment, NotifyUsersOfNewComment,
                NotifyCreatorOfSubjectEdit, Gate, ShouldSendDebounced, DebounceFails, Send,
                Abandon, Become, Goto, Skip, Start, JobsOK
  <2>3. job'[r].step # "again"
    <3>1. CASE \E k \in Comment : InsertComment(r, k)
      BY <3>1 DEF InsertComment, Become, JobsOK, Job
    <3>2. CASE WriteComment(r) \/ Abandon(r)
      BY <3>2, IdleOK DEF WriteComment, Abandon, Become, JobsOK
    <3>3. CASE NotifyUsersOfNewComment(r)
      BY <3>3, ListKeeps DEF NotifyUsersOfNewComment, Become, JobsOK, Job
    <3>4. CASE NotifyCreatorOfSubjectEdit(r)
      BY <3>4 DEF NotifyCreatorOfSubjectEdit, Start, JobsOK, Idle
    <3>5. CASE Gate(r) \/ ShouldSendDebounced(r) \/ DebounceFails(r) \/ Send(r)
      <4>1. \/ job' = [job EXCEPT ![r] = Idle]
            \/ \E s \in {"debounce", "send"} : job' = [job EXCEPT ![r].step = s]
            \/ Skip(r)
        BY <3>5 DEF Gate, ShouldSendDebounced, DebounceFails, Send, Become, Goto
      <4> QED
        BY <4>1, IdleOK, SkipEnds, GotoEnds DEF JobsOK, Step
    <3> QED
      BY <1>2, <3>1, <3>2, <3>3, <3>4, <3>5 DEF Handle
  <2> QED
    BY <1>1, <2>1, <2>2, <2>3
<1>3. ASSUME NEW r \in Request, NEW u \in User, Take(r, u)
      PROVE  CountInv'
  <2>1. UNCHANGED prayers
    BY <1>3, TakeChanges
  <2>2. \A q \in Request \ {r} : job'[q] = job[q]
    BY <1>3 DEF Take, CreateComment, TakeComment, RecordPrayer, Start, JobsOK
  <2>3. job'[r].step = "again" =>
            analytics.found /\ (~job'[r].flag => analytics.last = u) /\ job'[r].user = u
    <3>1. ASSUME NEW b \in BOOLEAN, CreateComment(r, u, b) PROVE job'[r].step = "insert"
      BY <3>1 DEF CreateComment, Start, JobsOK, Idle
    <3>2. ASSUME NEW k \in Comment, TakeComment(r, u, k)
          PROVE  job'[r].step \in {"delete", "hide", "toggle"}
      <4> DEFINE b == ~comment[k].private
      <4>1. b \in BOOLEAN
        BY Zenon
      <4>2. \/ job' = [job EXCEPT ![r] = [Idle EXCEPT !.step = "delete", !.user = u, !.comment = k]]
            \/ job' = [job EXCEPT ![r] = [Idle EXCEPT !.step = "hide", !.user = u, !.comment = k]]
            \/ job' = [job EXCEPT ![r] = [Idle EXCEPT !.step = "toggle", !.user = u,
                                                    !.comment = k, !.flag = b]]
        BY <3>2, Zenon DEF TakeComment, Start
      <4> HIDE DEF b
      <4> QED
        BY <4>1, <4>2 DEF JobsOK, Idle
    <3>3. CASE RecordPrayer(r, u) /\ ~analytics.found
      <4>1. job' = [job EXCEPT ![r] = [Idle EXCEPT !.step = "first", !.user = u]]
        BY <3>3, Zenon DEF RecordPrayer, Start
      <4>2. job'[r].step = "first"
        BY <4>1 DEF JobsOK, Idle
      <4> QED
        BY <4>2
    <3>4. CASE RecordPrayer(r, u) /\ analytics.found
      <4> DEFINE b == analytics.last # u
      <4>1. b \in BOOLEAN
        BY Zenon
      <4>2. job' = [job EXCEPT ![r] = [Idle EXCEPT !.step = "again", !.user = u, !.flag = b]]
        BY <3>4, Zenon DEF RecordPrayer, Start
      <4> HIDE DEF b
      <4>3. job'[r].flag = b /\ job'[r].user = u
        BY <4>1, <4>2 DEF JobsOK, Idle
      <4> QED
        BY <3>4, <4>3 DEF b
    <3> QED
      BY <1>3, <3>1, <3>2, <3>3, <3>4 DEF Take
  <2> QED
    BY <2>1, <2>2, <2>3 DEF prayers, CountInv, PrayedAreCounted
<1>4. ASSUME CooldownEnds
      PROVE  CountInv'
  <2>1. /\ analytics'.found = analytics.found /\ analytics'.total = analytics.total
        /\ analytics'.unique = analytics.unique /\ analytics'.last = analytics.last
        /\ analytics' \in [found : BOOLEAN, total : Nat, unique : Nat, last : User \cup {None},
                           recent : BOOLEAN]
        /\ prayed' = prayed /\ job' = job
    BY <1>4 DEF CooldownEnds, CountInv
  <2> QED
    BY <2>1 DEF CountInv, PrayedAreCounted
<1>5. ASSUME NEW n \in Notice, NEW u \in User, WindowEnds(n, u)
      PROVE  UNCHANGED <<prayers, job>>
  BY <1>5 DEF WindowEnds
<1> QED
  BY <1>1, <1>2, <1>3, <1>4, <1>5, Kinds, FirstIsCounted, AnotherIsCounted,
     BackgroundChanges, AroundChanges DEF Clock

-----------------------------------------------------------------------------
(* One notice for each window *)

Counts == [cleared : 0 .. 2, sent : 0 .. 2]

WindowOK ==
    /\ window \in [Notice -> SUBSET User]
    /\ count \in [Notice -> [User -> Counts]]

Sending(n, u) ==
    \E r \in Request : job[r].step = "send" /\ job[r].kind = n /\ Head(job[r].todo) = u

SoleJob == \A q, r \in Request : job[q].step # "idle" /\ job[r].step # "idle" => q = r

\* The inductive invariant: only a window that runs has notices, one of them
\* cleared; and while nothing overlaps, that one is sent or is about to be.
WindowInv ==
    /\ WindowOK
    /\ \A n \in Notice, u \in User :
          /\ u \in window[n] => count[n][u].cleared = 1
          /\ u \notin window[n] => count[n][u] = NoNotice
    /\ calm =>
          /\ SoleJob
          /\ \A n \in Notice, u \in User : u \in window[n] =>
                /\ Sending(n, u) => count[n][u].sent = 0
                /\ ~Sending(n, u) => count[n][u].sent = 1

\* A step of one slot that neither delivers anything nor is about to.
LEMMA Undelivered ==
  ASSUME WindowInv, JobsOK, NEW r \in Request, UNCHANGED notices,
         \A q \in Request \ {r} : job'[q] = job[q],
         calm' => /\ calm /\ job[r].step # "send" /\ job'[r].step # "send"
                  /\ job[r].step # "idle" \/ \A q \in Request : job[q] = Idle
  PROVE  WindowInv'
<1>1. UNCHANGED <<window, count>>
  BY DEF notices
<1>2. ASSUME calm' PROVE SoleJob'
  BY <1>2, IdleOK DEF WindowInv, SoleJob
<1>3. ASSUME calm', NEW n \in Notice, NEW u \in User PROVE Sending(n, u)' <=> Sending(n, u)
  BY <1>3 DEF Sending
<1> QED
  BY <1>1, <1>2, <1>3 DEF WindowInv, WindowOK

LEMMA DebounceKeeps ==
  ASSUME WindowInv, JobsOK, NEW r \in Request, ShouldSendDebounced(r)
  PROVE  WindowInv'
<1> DEFINE n == job[r].kind
           u == Head(job[r].todo)
<1>1. n \in Notice /\ u \in User /\ job[r].step = "debounce"
  BY DEF ShouldSendDebounced, At, JobsOK, JobOK, Job
<1>2. CASE u \in window[n]
  <2>1. Skip(r) /\ UNCHANGED notices /\ UNCHANGED calm
    BY <1>2 DEF ShouldSendDebounced, Skip, Become
  <2> QED
    BY <1>1, <2>1, SkipEnds, Undelivered
<1>3. CASE u \notin window[n]
  <2>1. /\ job'[r].step = "send" /\ job'[r].kind = n /\ Head(job'[r].todo) = u
        /\ \A q \in Request \ {r} : job'[q] = job[q]
        /\ UNCHANGED calm
    <3>1. job' = [job EXCEPT ![r].step = "send"] /\ UNCHANGED calm
      BY <1>3 DEF ShouldSendDebounced, Goto, Become
    <3> QED
      BY <3>1, GotoEnds DEF Step
  <2>2. /\ window' = [window EXCEPT ![n] = window[n] \cup {u}]
        /\ count' = [count EXCEPT ![n][u].cleared = More(@)]
    BY <1>3 DEF ShouldSendDebounced
  <2>3. count[n][u] = NoNotice /\ More(0) = 1
    BY <1>1, <1>3 DEF WindowInv, More
  <2> HIDE DEF n, u
  <2>4. /\ WindowOK' /\ count'[n][u].cleared = 1 /\ count'[n][u].sent = 0
        /\ \A m \in Notice, v \in User : m # n \/ v # u => count'[m][v] = count[m][v]
        /\ \A m \in Notice, v \in User : v \in window'[m] <=> v \in window[m] \/ (m = n /\ v = u)
    <3>1. /\ count' \in [Notice -> [User -> Counts]]
          /\ count'[n][u].cleared = 1 /\ count'[n][u].sent = 0
          /\ \A m \in Notice, v \in User : m # n \/ v # u => count'[m][v] = count[m][v]
      <4> DEFINE c == [count[n][u] EXCEPT !.cleared = More(count[n][u].cleared)]
      <4>1. /\ c \in Counts /\ c.cleared = 1 /\ c.sent = 0
        BY <2>3 DEF NoNotice, Counts
      <4>2. count' = [count EXCEPT ![n][u] = c]
        BY <2>2
      <4> HIDE DEF c
      <4> QED
        BY <1>1, <4>1, <4>2 DEF WindowInv, WindowOK
    <3>2. /\ window' \in [Notice -> SUBSET User]
          /\ \A m \in Notice : window'[m] = IF m = n THEN window[m] \cup {u} ELSE window[m]
      BY <1>1, <2>2 DEF WindowInv, WindowOK
    <3> QED
      BY <3>1, <3>2 DEF WindowOK
  <2>5. ASSUME calm
        PROVE  /\ SoleJob'
               /\ \A m \in Notice, v \in User : Sending(m, v)' <=> m = n /\ v = u
               /\ \A m \in Notice, v \in User : ~Sending(m, v)
    <3>1. \A q \in Request \ {r} : job[q].step = "idle"
      BY <1>1, <2>5 DEF WindowInv, SoleJob
    <3> QED
      BY <1>1, <2>1, <3>1 DEF SoleJob, Sending
  <2> QED
    BY <2>1, <2>4, <2>5 DEF WindowInv
<1> QED
  BY <1>2, <1>3

LEMMA SendKeeps ==
  ASSUME WindowInv, JobsOK, NEW r \in Request, Send(r)
  PROVE  WindowInv'
<1> DEFINE n == job[r].kind
           u == Head(job[r].todo)
<1>1. n \in Notice /\ u \in User /\ job[r].step = "send"
  BY DEF Send, At, JobsOK, JobOK, Job
<1>2. /\ job'[r].step \in {"idle", "gate"} /\ \A q \in Request \ {r} : job'[q] = job[q]
      /\ UNCHANGED <<calm, window>>
  BY SkipEnds DEF Send, Skip, Become
<1>3. count' = IF u \in window[n] THEN [count EXCEPT ![n][u].sent = More(@)] ELSE count
  BY DEF Send
<1>4. /\ WindowOK'
      /\ \A m \in Notice, v \in User :
            (m # n \/ v # u \/ u \notin window[n]) => count'[m][v] = count[m][v]
      /\ u \in window[n] => /\ count'[n][u].cleared = count[n][u].cleared
                            /\ count'[n][u].sent = More(count[n][u].sent)
  <2> HIDE DEF n, u
  <2> DEFINE c == [count[n][u] EXCEPT !.sent = More(count[n][u].sent)]
  <2>1. /\ c \in Counts /\ c.cleared = count[n][u].cleared
        /\ c.sent = More(count[n][u].sent)
    <3>1. count[n][u] \in Counts
      BY <1>1 DEF WindowInv, WindowOK
    <3> QED
      BY <3>1 DEF More, Counts
  <2>2. CASE u \in window[n]
    <3>1. count' = [count EXCEPT ![n][u] = c]
      BY <1>3, <2>2
    <3> HIDE DEF c
    <3>2. /\ count' \in [Notice -> [User -> Counts]] /\ count'[n][u] = c
          /\ \A m \in Notice, v \in User : m # n \/ v # u => count'[m][v] = count[m][v]
      BY <1>1, <2>1, <3>1 DEF WindowInv, WindowOK
    <3>3. window' \in [Notice -> SUBSET User]
      BY <1>2 DEF WindowInv, WindowOK
    <3> QED
      BY <2>1, <2>2, <3>2, <3>3 DEF WindowOK
  <2>3. CASE u \notin window[n]
    BY <1>2, <1>3, <2>3 DEF WindowInv, WindowOK
  <2> QED
    BY <2>2, <2>3
<1>5. ASSUME calm
      PROVE  /\ SoleJob'
             /\ \A m \in Notice, v \in User : ~Sending(m, v)'
             /\ \A m \in Notice, v \in User : Sending(m, v) <=> m = n /\ v = u
  <2>1. \A q \in Request \ {r} : job[q].step = "idle"
    BY <1>1, <1>5 DEF WindowInv, SoleJob
  <2> QED
    BY <1>1, <1>2, <2>1 DEF SoleJob, Sending
<1> HIDE DEF n, u
<1> QED
  BY <1>1, <1>2, <1>4, <1>5 DEF WindowInv, More

LEMMA EndKeeps ==
  ASSUME WindowInv, NEW n \in Notice, NEW u \in User, WindowEnds(n, u)
  PROVE  WindowInv'
<1>1. /\ window' = [window EXCEPT ![n] = window[n] \ {u}]
      /\ count' = [count EXCEPT ![n][u] = NoNotice] /\ UNCHANGED <<job, calm>>
  BY DEF WindowEnds
<1>2. /\ WindowOK' /\ count'[n][u] = NoNotice
      /\ \A m \in Notice, v \in User : m # n \/ v # u => count'[m][v] = count[m][v]
      /\ \A m \in Notice, v \in User : v \in window'[m] <=> v \in window[m] /\ (m # n \/ v # u)
  <2>1. /\ count' \in [Notice -> [User -> Counts]]
        /\ count'[n][u] = NoNotice
        /\ \A m \in Notice, v \in User : m # n \/ v # u => count'[m][v] = count[m][v]
    <3>1. NoNotice \in Counts
      BY DEF NoNotice, Counts
    <3> QED
      BY <1>1, <3>1 DEF WindowInv, WindowOK
  <2>2. /\ window' \in [Notice -> SUBSET User]
        /\ \A m \in Notice : window'[m] = IF m = n THEN window[m] \ {u} ELSE window[m]
    BY <1>1 DEF WindowInv, WindowOK
  <2> QED
    BY <2>1, <2>2 DEF WindowOK
<1> QED
  BY <1>1, <1>2 DEF WindowInv, SoleJob, Sending

\* The slots of a step that starts one: all were idle, if nothing overlaps.
LEMMA StartEnds ==
  ASSUME JobsOK, NEW r \in Request, NEW j, Start(r, j)
  PROVE  /\ \A q \in Request \ {r} : job'[q] = job[q]
         /\ job'[r] = j
         /\ calm' => calm /\ \A q \in Request : job[q] = Idle
  BY DEF Start, Quiet, JobsOK

LEMMA TakeStarts ==
  ASSUME NEW r \in Request, NEW u \in User, Take(r, u)
  PROVE  \E j : Start(r, j) /\ j.step # "send"
<1>1. ASSUME NEW b \in BOOLEAN, CreateComment(r, u, b)
      PROVE  \E j : Start(r, j) /\ j.step # "send"
  <2>1. [Idle EXCEPT !.step = "insert", !.user = u, !.flag = b].step # "send"
    BY DEF Idle
  <2> QED
    BY <1>1, <2>1 DEF CreateComment
<1>2. ASSUME NEW k \in Comment, TakeComment(r, u, k)
      PROVE  \E j : Start(r, j) /\ j.step # "send"
  <2> DEFINE b == ~comment[k].private
             d == [Idle EXCEPT !.step = "delete", !.user = u, !.comment = k]
             h == [Idle EXCEPT !.step = "hide", !.user = u, !.comment = k]
             t == [Idle EXCEPT !.step = "toggle", !.user = u, !.comment = k, !.flag = b]
  <2>1. b \in BOOLEAN
    BY Zenon
  <2>2. Start(r, d) \/ Start(r, h) \/ Start(r, t)
    BY <1>2, Zenon DEF TakeComment
  <2> HIDE DEF b
  <2>3. d.step # "send" /\ h.step # "send" /\ t.step # "send"
    BY <2>1 DEF Idle
  <2> QED
    BY <2>2, <2>3, Zenon
<1>3. CASE RecordPrayer(r, u)
  <2> DEFINE b == analytics.last # u
             a == [Idle EXCEPT !.step = "again", !.user = u, !.flag = b]
             f == [Idle EXCEPT !.step = "first", !.user = u]
  <2>1. b \in BOOLEAN
    BY Zenon
  <2>2. Start(r, a) \/ Start(r, f)
    BY <1>3, Zenon DEF RecordPrayer
  <2> HIDE DEF b
  <2>3. a.step # "send" /\ f.step # "send"
    BY <2>1 DEF Idle
  <2> QED
    BY <2>2, <2>3, Zenon
<1> QED
  BY <1>1, <1>2, <1>3 DEF Take

LEMMA WindowKept ==
  ASSUME WindowInv, JobsOK, JobsOK', Next
  PROVE  WindowInv'
<1>1. ASSUME NEW r \in Request, Handle(r), ~ShouldSendDebounced(r), ~Send(r)
      PROVE  WindowInv'
  <2>0. UNCHANGED notices
    BY <1>1, HandleChanges
  <2>1. CASE DebounceFails(r) \/ Abandon(r)
    <3>1. ~calm' /\ \A q \in Request \ {r} : job'[q] = job[q]
      BY <2>1 DEF DebounceFails, Abandon, JobsOK
    <3> QED
      BY <2>0, <3>1, Undelivered
  <2>2. CASE NotifyCreatorOfSubjectEdit(r)
    <3> DEFINE j == [Idle EXCEPT !.step = "gate", !.user = subject.user, !.kind = "edit",
                                 !.todo = <<Creator>>]
    <3>1. Start(r, j)
      BY <2>2 DEF NotifyCreatorOfSubjectEdit
    <3>2. j.step = "gate"
      BY DEF Idle
    <3> HIDE DEF j
    <3> QED
      BY <2>0, <3>1, <3>2, StartEnds, IdleOK, Undelivered
  <2>3. CASE Gate(r)
    <3>1. job[r].step = "gate" /\ UNCHANGED calm
      BY <2>3 DEF Gate, At, Become, Goto, Skip
    <3>2. \/ job' = [job EXCEPT ![r] = Idle]
          \/ job' = [job EXCEPT ![r].step = "debounce"]
          \/ Skip(r)
      BY <2>3 DEF Gate, Become, Goto
    <3>3. job'[r].step # "send" /\ \A q \in Request \ {r} : job'[q] = job[q]
      BY <3>2, IdleOK, SkipEnds, GotoEnds DEF JobsOK, Step
    <3> QED
      BY <2>0, <3>1, <3>3, Undelivered
  <2>4. CASE \/ \E k \in Comment : InsertComment(r, k)
             \/ WriteComment(r) \/ NotifyUsersOfNewComment(r)
             \/ FirstPrayer(r) \/ AnotherPrayer(r)
    <3>1. /\ job[r].step \notin {"idle", "send"} /\ UNCHANGED calm
          /\ \A q \in Request \ {r} : job'[q] = job[q]
      BY <2>4 DEF InsertComment, WriteComment, NotifyUsersOfNewComment, FirstPrayer,
                  AnotherPrayer, At, Become, JobsOK
    <3>2. job'[r].step # "send"
      <4>1. CASE \E k \in Comment : InsertComment(r, k)
        BY <4>1 DEF InsertComment, Become, JobsOK, Job
      <4>2. CASE NotifyUsersOfNewComment(r)
        BY <4>2 DEF NotifyUsersOfNewComment, Become, JobsOK, Job
      <4>3. CASE WriteComment(r) \/ FirstPrayer(r) \/ AnotherPrayer(r)
        BY <4>3, IdleOK DEF WriteComment, FirstPrayer, AnotherPrayer, Become, JobsOK
      <4> QED
        BY <2>4, <4>1, <4>2, <4>3
    <3> QED
      BY <2>0, <3>1, <3>2, Undelivered
  <2> QED
    BY <1>1, <2>1, <2>2, <2>3, <2>4 DEF Handle
<1>2. ASSUME NEW r \in Request, NEW u \in User, Take(r, u)
      PROVE  WindowInv'
  <2>1. PICK j : Start(r, j) /\ j.step # "send"
    BY <1>2, TakeStarts
  <2> QED
    BY <1>2, <2>1, TakeChanges, StartEnds, IdleOK, Undelivered
<1>3. ASSUME UNCHANGED notices, UNCHANGED job, calm' => calm
      PROVE  WindowInv'
  BY <1>3 DEF notices, WindowInv, WindowOK, SoleJob, Sending
<1>4. ASSUME CooldownEnds
      PROVE  UNCHANGED notices /\ UNCHANGED job /\ UNCHANGED calm
  BY <1>4 DEF CooldownEnds
<1>5. ASSUME NEW g \in posted, Background(g) PROVE WindowInv'
  BY <1>3, <1>5, BackgroundChanges
<1>6. ASSUME Around PROVE WindowInv'
  BY <1>3, <1>6, AroundChanges
<1> QED
  BY <1>1, <1>2, <1>3, <1>4, <1>5, <1>6, Kinds, DebounceKeeps, SendKeeps, EndKeeps DEF Clock

-----------------------------------------------------------------------------
(* Who hears of a share *)

About == IF subject.linked THEN {subject.user} ELSE {}

\* Whom a goroutine will tell, if nothing changes.
Will(g) ==
    IF g.what = "link" THEN Active \ (muted \cup g.skip \cup About)
    ELSE IF g.what = "members" THEN Active \ (muted \cup g.skip)
    ELSE IF g.what = "subject" THEN (Active \cap About) \ {g.actor}
    ELSE IF g.what = "forYou" /\ ~(g.to \subseteq Active) THEN {}
    ELSE g.to

\* The part for any interleaving.
PresentInv ==
    /\ posted \subseteq Goroutine
    /\ present \subseteq User /\ audience \subseteq User
    /\ told \in [User -> Nat]
    /\ posted # {} => Active \subseteq present
    /\ \A g \in posted : g.what = "circle" => g.to \subseteq present
    /\ \A u \in User : told[u] > 0 => u \in present

\* The part for a share that nothing disturbs: who should hear of it either has,
\* or will by one of the goroutines.
ShareInv ==
    calm =>
      /\ \A g, h \in posted : g # h => Will(g) \cap Will(h) = {}
      /\ \A g \in posted : Will(g) \subseteq audience
      /\ \A u \in User :
            told[u] = IF u \in audience /\ \A g \in posted : u \notin Will(g) THEN 1 ELSE 0

\* What each step of a goroutine makes of it.
LEMMA GoroutineSteps ==
  ASSUME PeopleOK, PresentInv, NEW g \in posted, Background(g)
  PROVE  \/ posted' = posted \ {g} /\ Will(g) = {} /\ UNCHANGED told
         \/ /\ UNCHANGED told
            /\ \E h \in Goroutine :
                  /\ posted' = (posted \ {g}) \cup {h} /\ Will(h) = Will(g)
                  /\ h.what = "circle" => h.to \subseteq Active
         \/ TellAll(g) \/ Drop(g)
<1>0. g \in Goroutine
  BY DEF PresentInv
<1>1. CASE ReadLink(g)
  <2> DEFINE i == [g EXCEPT !.what = "members"]
             h == [i EXCEPT !.skip = g.skip \cup About]
  <2>1. About \subseteq User
    BY DEF About, PeopleOK
  <2>2. /\ i \in Goroutine /\ i.what = "members" /\ i.skip = g.skip
    BY <1>0 DEF Goroutine
  <2>3. posted' = (posted \ {g}) \cup {h} /\ UNCHANGED told /\ g.what = "link"
    BY <1>1 DEF ReadLink, Posted, About
  <2> HIDE DEF i
  <2>4. h \in Goroutine /\ h.what = "members" /\ h.skip = g.skip \cup About
    BY <1>0, <2>1, <2>2 DEF Goroutine
  <2> HIDE DEF h
  <2>5. Will(h) = Will(g)
    BY <2>3, <2>4 DEF Will
  <2> QED
    BY <2>3, <2>4, <2>5
<1>2. CASE GetCircleMembersForNotification(g)
  <2> DEFINE i == [g EXCEPT !.what = "circle"]
             all == Active \ (muted \cup g.skip)
             h == [i EXCEPT !.to = all]
  <2>1. i \in Goroutine /\ i.what = "circle" /\ all \in SUBSET User /\ all \subseteq Active
    BY <1>0 DEF Goroutine, Active
  <2>2. posted' = (posted \ {g}) \cup {h} /\ UNCHANGED told /\ g.what = "members"
    BY <1>2 DEF GetCircleMembersForNotification, Posted
  <2> HIDE DEF i
  <2>3. h \in Goroutine /\ h.what = "circle" /\ h.to = all
    BY <2>1 DEF Goroutine
  <2> HIDE DEF h
  <2>4. Will(h) = Will(g)
    BY <2>2, <2>3 DEF Will
  <2> QED
    BY <2>1, <2>2, <2>3, <2>4
<1>3. CASE ReadSubject(g)
  <2>1. g.what = "subject" /\ UNCHANGED told
    BY <1>3 DEF ReadSubject
  <2>2. CASE subject.linked /\ subject.user # g.actor
    <3> DEFINE i == [g EXCEPT !.what = "forYou"]
               h == [i EXCEPT !.to = {subject.user}]
    <3>1. i \in Goroutine /\ i.what = "forYou" /\ {subject.user} \in SUBSET User
      BY <1>0, <2>2 DEF Goroutine, PeopleOK
    <3>2. posted' = (posted \ {g}) \cup {h}
      BY <1>3, <2>2 DEF ReadSubject, Posted
    <3> HIDE DEF i
    <3>3. h \in Goroutine /\ h.what = "forYou" /\ h.to = {subject.user}
      BY <3>1 DEF Goroutine
    <3> HIDE DEF h
    <3>4. Will(h) = Will(g)
      BY <2>1, <2>2, <3>3 DEF Will, About
    <3> QED
      BY <2>1, <3>2, <3>3, <3>4
  <2>3. CASE ~(subject.linked /\ subject.user # g.actor)
    <3>1. posted' = posted \ {g}
      BY <1>3, <2>3 DEF ReadSubject, Posted
    <3>2. Will(g) = {}
      BY <2>1, <2>3 DEF Will, About
    <3> QED
      BY <2>1, <3>1, <3>2
  <2> QED
    BY <2>2, <2>3
<1>4. CASE IsActiveCircleMember(g)
  <2>1. g.what = "forYou" /\ UNCHANGED told
    BY <1>4 DEF IsActiveCircleMember
  <2>2. CASE g.to \subseteq Active
    <3> DEFINE h == [g EXCEPT !.what = "circle"]
    <3>1. h \in Goroutine /\ h.what = "circle" /\ h.to = g.to
      BY <1>0 DEF Goroutine
    <3>2. posted' = (posted \ {g}) \cup {h}
      BY <1>4, <2>2 DEF IsActiveCircleMember, Posted
    <3> HIDE DEF h
    <3>3. Will(h) = Will(g)
      BY <2>1, <2>2, <3>1 DEF Will
    <3> QED
      BY <2>1, <2>2, <3>1, <3>2, <3>3
  <2>3. CASE ~(g.to \subseteq Active)
    <3>1. posted' = posted \ {g}
      BY <1>4, <2>3 DEF IsActiveCircleMember, Posted
    <3>2. Will(g) = {}
      BY <2>1, <2>3 DEF Will
    <3> QED
      BY <2>1, <3>1, <3>2
  <2> QED
    BY <2>2, <2>3
<1> QED
  BY <1>1, <1>2, <1>3, <1>4 DEF Background

\* People and mutes stay as they are while a goroutine takes a step.
LEMMA SameWill ==
  ASSUME UNCHANGED people
  PROVE  \A g : Will(g)' = Will(g)
  BY DEF people, Will, Active, About

LEMMA ShareStep ==
  ASSUME PeopleOK, PresentInv, ShareInv, NEW g \in posted, Background(g)
  PROVE  ShareInv'
<1> SUFFICES ASSUME calm' PROVE ShareInv'
  BY DEF ShareInv
<1>1. UNCHANGED <<people, audience>> /\ calm
  BY BackgroundChanges
<1>2. \A h : Will(h)' = Will(h)
  BY <1>1, SameWill
<1>3. CASE posted' = posted \ {g} /\ Will(g) = {} /\ UNCHANGED told
  BY <1>1, <1>2, <1>3 DEF ShareInv
<1>4. ASSUME UNCHANGED told, NEW h \in Goroutine, posted' = (posted \ {g}) \cup {h},
             Will(h) = Will(g)
      PROVE  ShareInv'
  BY <1>1, <1>2, <1>4 DEF ShareInv
<1>5. CASE TellAll(g)
  <2>1. /\ Will(g) = g.to /\ posted' = posted \ {g}
        /\ \A u \in User : told'[u] = IF u \in Will(g) THEN told[u] + 1 ELSE told[u]
    BY <1>5 DEF TellAll, Posted, Will
  <2>2. \A u \in User : u \in Will(g) => told[u] = 0 /\ u \in audience
    BY <1>1 DEF ShareInv
  <2>3. \A u \in User : u \in Will(g) => \A h \in posted \ {g} : u \notin Will(h)
    BY <1>1 DEF ShareInv
  <2> QED
    BY <1>1, <1>2, <2>1, <2>2, <2>3 DEF ShareInv
<1>6. ~Drop(g)
  BY DEF Drop
<1> QED
  BY <1>3, <1>4, <1>5, <1>6, GoroutineSteps

LEMMA PresentStep ==
  ASSUME PeopleOK, PresentInv, NEW g \in posted, Background(g)
  PROVE  PresentInv'
<1>1. UNCHANGED <<people, audience, present>> /\ UNCHANGED Active
  BY BackgroundChanges DEF people, Active
<1>2. Active \subseteq present
  BY DEF PresentInv
<1>3. CASE posted' = posted \ {g} /\ UNCHANGED told
  BY <1>1, <1>3 DEF PresentInv
<1>4. ASSUME UNCHANGED told, NEW h \in Goroutine, posted' = (posted \ {g}) \cup {h},
             h.what = "circle" => h.to \subseteq Active
      PROVE  PresentInv'
  BY <1>1, <1>2, <1>4 DEF PresentInv
<1>5. CASE TellAll(g) \/ Drop(g)
  <2>1. PICK some \in SUBSET present :
            told' = [u \in User |-> IF u \in some THEN told[u] + 1 ELSE told[u]]
    BY <1>5 DEF TellAll, Drop, PresentInv
  <2>2. posted' = posted \ {g}
    BY <1>5 DEF TellAll, Drop, Posted
  <2>3. told' \in [User -> Nat]
    BY <2>1 DEF PresentInv
  <2>4. \A u \in User : told'[u] > 0 => u \in present
    BY <2>1 DEF PresentInv
  <2> QED
    BY <1>1, <2>2, <2>3, <2>4 DEF PresentInv
<1> QED
  BY <1>3, <1>4, <1>5, GoroutineSteps

LEMMA NewShare ==
  ASSUME PeopleOK, NEW u \in User, ShareWithCircle(u)
  PROVE  PresentInv' /\ ShareInv'
<1> DEFINE skip == {u, Creator}
           link == [what |-> "link", actor |-> u, skip |-> skip, to |-> {}]
           subj == [what |-> "subject", actor |-> u, skip |-> skip, to |-> {}]
<1>1. /\ posted' = {link, subj} /\ told' = [v \in User |-> 0] /\ present' = Active
      /\ audience' = ((Active \cap About) \ {u}) \cup (Active \ (muted \cup skip))
      /\ UNCHANGED <<member, muted, subject>>
  BY DEF ShareWithCircle, About
<1>2. /\ link \in Goroutine /\ link.what = "link" /\ link.skip = skip
      /\ subj \in Goroutine /\ subj.what = "subject" /\ subj.actor = u
  BY DEF Goroutine
<1>3. UNCHANGED <<Active, About>> /\ Active \subseteq User
  BY <1>1 DEF Active, About
<1> HIDE DEF link, subj, skip
<1>4. Will(link)' = Active \ (muted \cup skip \cup About)
  BY <1>1, <1>2, <1>3 DEF Will
<1>5. Will(subj)' = (Active \cap About) \ {u}
  BY <1>1, <1>2, <1>3 DEF Will
<1>6. \A v \in User : told'[v] = 0
  BY <1>1
<1>7. PresentInv'
  BY <1>1, <1>2, <1>3, <1>6 DEF PresentInv
<1>8. u \in skip
  BY DEF skip
<1> QED
  BY <1>1, <1>3, <1>4, <1>5, <1>6, <1>7, <1>8 DEF ShareInv, PresentInv

LEMMA SharesKept ==
  ASSUME PeopleOK, PresentInv, ShareInv, Next
  PROVE  PresentInv' /\ ShareInv'
<1>1. ASSUME UNCHANGED <<people, shares>>, calm' => calm
      PROVE  PresentInv' /\ ShareInv'
  <2>1. UNCHANGED <<posted, audience, present, told, Active>> /\ \A g : Will(g)' = Will(g)
    BY <1>1, SameWill DEF shares, people, Active
  <2> QED
    BY <1>1, <2>1 DEF PresentInv, ShareInv
<1>2. ASSUME NEW r \in Request, Handle(r) PROVE PresentInv' /\ ShareInv'
  <2>1. calm' => calm
    BY <1>2 DEF Handle, InsertComment, WriteComment, NotifyUsersOfNewComment,
                NotifyCreatorOfSubjectEdit, Gate, ShouldSendDebounced, DebounceFails, Send,
                FirstPrayer, AnotherPrayer, Abandon, Become, Goto, Skip, Start
  <2> QED
    BY <1>1, <1>2, <2>1, HandleChanges
<1>3. ASSUME NEW r \in Request, NEW u \in User, Take(r, u) PROVE PresentInv' /\ ShareInv'
  BY <1>1, <1>3, TakeChanges
<1>4. ASSUME NEW u \in User, Elsewhere(u) \/ Unshare \/ Relink(None, FALSE)
      PROVE  PresentInv' /\ ShareInv'
  <2>1. UNCHANGED <<posted, audience, told>>
    BY <1>4 DEF Elsewhere, Membership, ToggleMute, ChangeRow, Relink, Unshare, shares
  <2>2. calm' => calm /\ posted = {}
    BY <1>4 DEF Elsewhere, Membership, ToggleMute, ChangeRow, Relink, Unshare, AtOnce, Quiet
  <2>3. /\ present \subseteq present' /\ present' \subseteq User
        /\ posted # {} => Active' \subseteq present'
    <3>1. ASSUME NEW as \in {"out", "active", "archived"}, Membership(u, as)
          PROVE  /\ present' \in {present, present \cup {u}}
                 /\ posted # {} => Active' \subseteq present'
      <4>1. \A v \in Active' : v \in Active \/ (v = u /\ as = "active")
        BY <3>1 DEF Membership, Active, PeopleOK
      <4> QED
        BY <3>1, <4>1 DEF Membership, PresentInv
    <3>2. CASE ToggleMute(u) \/ ChangeRow(u) \/ (\E b \in BOOLEAN : Relink(u, b))
               \/ Unshare \/ Relink(None, FALSE)
      BY <3>2 DEF ToggleMute, ChangeRow, Relink, Unshare, Active, PresentInv, shares
    <3> QED
      BY <1>4, <3>1, <3>2 DEF Elsewhere, PresentInv
  <2>4. PresentInv'
    BY <2>1, <2>3 DEF PresentInv
  <2>5. ShareInv'
    BY <2>1, <2>2 DEF ShareInv
  <2> QED
    BY <2>4, <2>5
<1> QED
  BY <1>1, <1>2, <1>3, <1>4, Kinds, NewShare, PresentStep, ShareStep, ClockChanges DEF Around

-----------------------------------------------------------------------------
(* The invariants of the module *)

Inv ==
    /\ JobsOK /\ PeopleOK /\ CommentsOK /\ calm \in BOOLEAN
    /\ CountInv /\ WindowInv /\ PresentInv /\ ShareInv

LEMMA CalmKept ==
  ASSUME calm \in BOOLEAN, Next
  PROVE  calm' \in BOOLEAN
<1>1. (calm /\ Quiet) \in BOOLEAN
  BY Zenon
<1>2. ASSUME NEW r \in Request, Handle(r)
      PROVE  calm' \in {calm, FALSE, calm /\ Quiet}
  BY <1>2 DEF Handle, InsertComment, WriteComment, NotifyUsersOfNewComment,
              NotifyCreatorOfSubjectEdit, Gate, ShouldSendDebounced, DebounceFails, Send,
              FirstPrayer, AnotherPrayer, Abandon, Become, Goto, Skip, Start
<1>3. ASSUME NEW g \in posted, Background(g)
      PROVE  calm' \in {calm, FALSE}
  BY <1>3 DEF Background, ReadLink, GetCircleMembersForNotification, ReadSubject,
              IsActiveCircleMember, TellAll, Drop, Posted
<1>4. calm' \in {calm, FALSE, calm /\ Quiet}
  BY <1>2, <1>3, Kinds, TakeChanges, AroundChanges, ClockChanges
<1> QED
  BY <1>1, <1>4, Zenon

LEMMA InvInit == Init => Inv
<1> SUFFICES ASSUME Init PROVE Inv
  OBVIOUS
<1>1. JobsOK /\ PeopleOK /\ CommentsOK
  BY IdleOK DEF Init, JobsOK, JobOK, PeopleOK, CommentsOK, CommentRow, NoComment
<1>2. CountInv
  BY FS_EmptySet, IdleOK DEF Init, CountInv, PrayedAreCounted
<1>3. WindowInv
  BY IdleOK DEF Init, WindowInv, WindowOK, Counts, NoNotice, SoleJob, Sending
<1>4. PresentInv /\ ShareInv /\ calm \in BOOLEAN
  BY DEF Init, PresentInv, ShareInv
<1> QED
  BY <1>1, <1>2, <1>3, <1>4 DEF Inv

LEMMA InvNext == Inv /\ [Next]_vars => Inv'
<1>1. Inv /\ Next => Inv'
  BY JobsKept, CalmKept, PeopleKept, CommentsKept, CountKept, WindowKept, SharesKept DEF Inv
<1>2. Inv /\ UNCHANGED vars => Inv'
  BY SameWill DEF Inv, vars, people, prayers, notices, shares, JobsOK, PeopleOK, CommentsOK,
     CountInv, PrayedAreCounted, WindowInv, WindowOK, SoleJob, Sending, PresentInv, ShareInv, Active
<1> QED
  BY <1>1, <1>2

\* The invariant that the theorems below rest on, one part for each piece of state.
THEOREM InvAlways == Spec => []Inv
  BY InvInit, InvNext, PTL DEF Spec

LEMMA InvTypes == Inv => TypeOK
<1> SUFFICES ASSUME Inv PROVE TypeOK
  OBVIOUS
<1>1. analytics \in PrayerAnalytics
  BY DEF Inv, CountInv, PrayedAreCounted, PrayerAnalytics
<1>2. count \in [Notice -> [User -> [cleared : 0 .. 2, sent : 0 .. 2]]]
  BY DEF Inv, WindowInv, WindowOK, Counts
<1>3. /\ job \in [Request -> Job]
      /\ \A r \in Request :
            /\ job[r].step # "idle" => job[r].user \in User
            /\ job[r].step \in {"debounce", "send"} => job[r].todo # << >>
  BY DEF Inv, JobsOK, JobOK
<1>4. /\ window \in [Notice -> SUBSET User] /\ posted \subseteq Goroutine /\ prayed \subseteq User
      /\ audience \subseteq User /\ present \subseteq User /\ told \in [User -> Nat]
      /\ calm \in BOOLEAN /\ (analytics.found <=> analytics.last \in User)
  BY DEF Inv, WindowInv, WindowOK, PresentInv, CountInv
<1>5. PeopleOK /\ CommentsOK
  BY DEF Inv
<1> HIDE DEF Inv
<1> QED
  BY <1>1, <1>2, <1>3, <1>4, <1>5 DEF TypeOK, PeopleOK, CommentsOK

\* Types: the rows, the slots and the goroutines keep their shape.
THEOREM TypeCorrect == Spec => []TypeOK
  BY InvAlways, InvTypes, PTL

\* num_unique_users is at least the users whose prayer was recorded, whatever
\* overlaps, and at most the prayers.
THEOREM EveryoneWhoPrayedIsCounted == Spec => []PrayedAreCounted
<1>1. Inv => PrayedAreCounted
  BY DEF Inv, CountInv
<1> QED
  BY <1>1, InvAlways, PTL

\* One request clears a notice in a debounce window, and sends it unless
\* something overlaps or fails.
THEOREM OneNoticeForEachWindow == Spec => []OncePerWindow
<1>1. Inv => OncePerWindow
  BY IdleOK DEF Inv, WindowInv, OncePerWindow, Settled, Quiet, Sending
<1> QED
  BY <1>1, InvAlways, PTL

\* A share is told to active members of the circle only, and to each of those
\* who should hear of it once, unless something overlaps or fails.
THEOREM SharesAreTold == Spec => []ShareTold
<1>1. Inv => ShareTold
  BY DEF Inv, PresentInv, ShareInv, ShareTold, Settled, Quiet
<1> QED
  BY <1>1, InvAlways, PTL
=============================================================================
