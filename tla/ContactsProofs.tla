--------------------------- MODULE ContactsProofs ---------------------------
(***************************************************************************)
(* What holds of contacts, connection requests and the cards of a circle   *)
(* for any users, ids and overlapping requests.                            *)
(***************************************************************************)
EXTENDS Contacts, FiniteSetTheorems, TLAPS

USE IdAssumption, NoneAssumption

-----------------------------------------------------------------------------
(* Jobs and rows *)

\* What a slot holds that is about rows.
Refers(j) ==
    /\ j.step = "answer" => ask[j.ask].status # "undrawn"
    /\ j.step = "ensureCommit" /\ j.word = "wire" =>
           /\ j.subject \in Drawn
           /\ j.subject \in There => subject[j.subject].owner = j.user

JobsOK == /\ job \in [Request -> Job]
          /\ \A r \in Request : Holds(job[r]) /\ Refers(job[r])

SubjectsOK ==
    /\ subject \in [Subject -> SubjectRow]
    /\ \A s \in There : /\ subject[s].owner \in User
                        /\ subject[s].status \in {"linked", "pending"} <=> subject[s].user \in User

AsksOK ==
    /\ ask \in [Ask -> AskRow]
    /\ \A a \in Ask : ask[a].status # "undrawn" =>
           ask[a].from \in User /\ ask[a].to \in User /\ ask[a].subject \in Drawn
    /\ answers \in [Ask -> Nat]

NestOK == nest \subseteq There \X There

MembersOK ==
    /\ circle \in {"none", "there", "gone"}
    /\ active \subseteq members /\ members \subseteq User
    /\ circle # "there" => members = {}
    /\ letGo \subseteq User /\ left \subseteq User

CardsOK ==
    /\ anchor \in Drawn \cup {NoSubject}
    /\ wired \in [User -> There \cup {NoSubject}]
    /\ \A u \in User : wired[u] # NoSubject => subject[wired[u]].owner = u
    /\ carded \subseteq Drawn

RowsOK == SubjectsOK /\ AsksOK /\ NestOK /\ MembersOK /\ CardsOK /\ calm \in BOOLEAN

Inv == RowsOK /\ JobsOK

-----------------------------------------------------------------------------
(* However requests overlap *)

Answering(a) == {r \in Request : job[r].step = "answer" /\ job[r].ask = a}

\* One answer is still to come for each slot that has read the request as pending.
AnswersCounted ==
    \A a \in Ask :
        /\ ask[a].status \in {"undrawn", "pending"} => answers[a] = 0
        /\ answers[a] + Cardinality(Answering(a)) <= Cardinality(Request)

-----------------------------------------------------------------------------
(* While requests do not overlap and nothing fails *)

Alone == \A r, q \in Request : job[r] # Idle /\ job[q] # Idle => r = q

Pending(s, u) == \E a \in Ask :
    ask[a] = [status |-> "pending", from |-> subject[s].owner, to |-> u, subject |-> s]

\* What the request has seen, at each of its steps, is still so.
Fresh(j) ==
    /\ j.step = "answer" => ask[j.ask].status = "pending" /\ ask[j.ask].subject = j.subject
    /\ j.step = "askMark" => (j.subject \in There => Pending(j.subject, j.user))
    /\ j.step = "retype" /\ j.word = "individual" => \A p \in nest : p[1] # j.subject
    /\ j.step = "nest" => subject[j.subject].kind # "individual"
    /\ j.step = "delete" => \A u \in User : wired[u] = j.subject => u \in letGo
    /\ j.step \in {"card", "anchor", "ensure", "ensureCommit"} => j.user \in members
    /\ j.step = "ensureCommit" /\ j.word = "none" => wired[j.user] # NoSubject
    /\ j.step = "leave" => j.user \notin members
    /\ j.step \in {"teardown", "deleteCircle"} => members = {}
    /\ j.step = "deleteCircle" => \A s \in carded : subject[s].kind # "group"

\* About to become settled by the request under way.
Marking(s) == \E r \in Request : job[r].step = "answerMark" /\ job[r].subject = s
Wiring(u) == \E r \in Request : /\ job[r].step \in {"card", "anchor", "ensure", "ensureCommit"}
                                /\ job[r].user = u
Leaving(u) == \E r \in Request : \/ job[r].step = "leave" /\ job[r].user = u
                                 \/ job[r].step = "teardown"

Answerable == \A a \in Ask : answers[a] <= 1

WaitersSeen == \A s \in There : subject[s].status = "pending" =>
                   Pending(s, subject[s].user) \/ Marking(s)

Childless == \A p \in nest : subject[p[1]].kind # "individual"

MembersSeen == \A u \in members \ letGo : wired[u] # NoSubject \/ Wiring(u)

\* A card that was made nothing else is the one its owner is wired to.
CardsSeen == \A s \in carded :
    /\ subject[s].kind \in {"group", "gone"}
    /\ subject[s].kind = "group" =>
           /\ wired[subject[s].owner] = s
           /\ subject[s].owner \in members \cup left \/ Leaving(subject[s].owner)

Undisturbed ==
    /\ Alone /\ \A r \in Request : Fresh(job[r])
    /\ Answerable /\ WaitersSeen /\ Childless /\ MembersSeen /\ CardsSeen

CalmInv == calm => Undisturbed

Sound == WaitersSeen /\ Childless /\ MembersSeen /\ CardsSeen

-----------------------------------------------------------------------------
(* What every step keeps *)

\* Ids stay drawn, rows that are gone stay so, and owners do not change.
Grows ==
    /\ Drawn \subseteq Drawn'
    /\ \A s \in Drawn : s \in There' => s \in There /\ subject'[s].owner = subject[s].owner
    /\ \A a \in Ask : ask[a].status # "undrawn" => ask'[a].status # "undrawn"

\* Who takes up a connection request has read it as pending.
Asked(j) == j.step = "answer" => ask[j.ask].status = "pending"

\* A step of r leaves rows and its job as they should be.
Keeps(r) ==
    /\ RowsOK' /\ Grows
    /\ \E j \in Job : /\ job' = [job EXCEPT ![r] = j] /\ Holds(j) /\ Asked(j) /\ Refers(j)'
                      /\ Sound /\ Fresh(job[r]) => Fresh(j)'

LEMMA IdleOK == /\ Idle \in Job /\ Idle.step = "idle" /\ Holds(Idle) /\ Asked(Idle)
                /\ Refers(Idle) /\ Fresh(Idle)
  BY DEF Job, Idle, Step, Holds, Asked, Refers, Fresh

LEMMA IdleNext == Refers(Idle)' /\ Fresh(Idle)'
  BY IdleOK DEF Refers, Fresh

LEMMA RefersGrow ==
  ASSUME Grows
  PROVE  \A j \in Job : Holds(j) /\ Refers(j) => Refers(j)'
<1> SUFFICES ASSUME NEW j \in Job, Holds(j), Refers(j) PROVE Refers(j)'
  OBVIOUS
<1>1. ASSUME j.step = "answer" PROVE ask'[j.ask].status # "undrawn"
  BY <1>1 DEF Holds, Asked, Refers, Grows
<1>2. ASSUME j.step = "ensureCommit" /\ j.word = "wire"
      PROVE  j.subject \in Drawn' /\ (j.subject \in There' => subject'[j.subject].owner = j.user)
  BY <1>2 DEF Refers, Grows
<1> QED
  BY <1>1, <1>2 DEF Refers

LEMMA PutJob ==
  ASSUME JobsOK, Grows, NEW r \in Request, NEW j \in Job, Holds(j), Refers(j)',
         job' = [job EXCEPT ![r] = j]
  PROVE  JobsOK'
<1>1. \A q \in Request : job'[q] = IF q = r THEN j ELSE job[q]
  BY DEF JobsOK
<1>2. \A q \in Request : Holds(job[q])' /\ Refers(job[q])'
  <2> SUFFICES ASSUME NEW q \in Request PROVE Holds(job[q])' /\ Refers(job[q])'
    OBVIOUS
  <2>1. CASE q = r
    BY <1>1, <2>1 DEF Refers, Holds
  <2>2. CASE q # r
    <3>1. PICK k \in Job : k = job[q] /\ Holds(k) /\ Refers(k)
      BY DEF JobsOK
    <3>2. Refers(k)' /\ job'[q] = k
      BY <1>1, <2>2, <3>1, RefersGrow
    <3> QED
      BY <3>1, <3>2 DEF Refers, Holds
  <2> QED
    BY <2>1, <2>2
<1> QED
  BY <1>1, <1>2 DEF JobsOK

LEMMA KeepJobs ==
  ASSUME JobsOK, Grows, UNCHANGED job
  PROVE  JobsOK'
<1> SUFFICES ASSUME NEW q \in Request PROVE Holds(job[q])' /\ Refers(job[q])'
  BY DEF JobsOK
<1>1. PICK k \in Job : k = job[q] /\ Holds(k) /\ Refers(k)
  BY DEF JobsOK
<1>2. Refers(k)' /\ job'[q] = k
  BY <1>1, RefersGrow
<1> QED
  BY <1>1, <1>2 DEF Refers, Holds

LEMMA SameGrows ==
  ASSUME UNCHANGED <<subject, ask>>
  PROVE  Grows
  BY DEF Grows, Drawn, There

-----------------------------------------------------------------------------
(* How contacts change *)

\* One link is set: kinds and owners stay.
LEMMA LinkSet ==
  ASSUME SubjectsOK, NEW s \in Subject, NEW u \in User \cup {NoUser},
         NEW w \in {"unlinked", "pending", "linked", "declined"},
         w \in {"linked", "pending"} <=> u \in User, SetLink(s, u, w)
  PROVE  /\ SubjectsOK' /\ There' = There /\ Drawn' = Drawn
         /\ \A t \in Subject :
                /\ subject'[t].kind = subject[t].kind /\ subject'[t].owner = subject[t].owner
                /\ subject'[t].user = IF t = s /\ t \in There THEN u ELSE subject[t].user
                /\ subject'[t].status = IF t = s /\ t \in There THEN w ELSE subject[t].status
<1> DEFINE row == [subject[s] EXCEPT !.user = u, !.status = w]
<1>1. subject[s] \in SubjectRow
  BY DEF SubjectsOK
<1>2. row \in SubjectRow /\ row.kind = subject[s].kind /\ row.owner = subject[s].owner
      /\ row.user = u /\ row.status = w
  BY <1>1 DEF SubjectRow
<1>3. subject' = [subject EXCEPT ![s] = IF s \in There THEN row ELSE subject[s]]
  BY DEF SetLink
<1> HIDE DEF row
<1>4. subject' \in [Subject -> SubjectRow]
      /\ \A t \in Subject : subject'[t] = IF t = s /\ t \in There THEN row ELSE subject[t]
  BY <1>1, <1>2, <1>3 DEF SubjectsOK
<1>5. \A t \in Subject :
          /\ subject'[t].kind = subject[t].kind /\ subject'[t].owner = subject[t].owner
          /\ subject'[t].user = IF t = s /\ t \in There THEN u ELSE subject[t].user
          /\ subject'[t].status = IF t = s /\ t \in There THEN w ELSE subject[t].status
  BY <1>2, <1>4
<1>6. There' = There /\ Drawn' = Drawn
  BY <1>5 DEF There, Drawn
<1>7. \A t \in There : /\ subject'[t].owner \in User
                       /\ subject'[t].status \in {"linked", "pending"} <=> subject'[t].user \in User
  <2> TAKE t \in There
  <2>1. t \in Subject /\ subject[t].owner \in User
        /\ (subject[t].status \in {"linked", "pending"} <=> subject[t].user \in User)
    BY DEF SubjectsOK, There
  <2>2. CASE t = s
    BY <1>5, <2>1, <2>2
  <2>3. CASE t # s
    BY <1>5, <2>1, <2>3
  <2> QED
    BY <2>2, <2>3
<1> QED
  BY <1>4, <1>5, <1>6, <1>7 DEF SubjectsOK

\* Ids that were not drawn get rows that nobody is asked about.
LEMMA RowsAdded ==
  ASSUME SubjectsOK, NEW N \in SUBSET (Subject \ Drawn), subject' \in [Subject -> SubjectRow],
         \A s \in Subject \ N : subject'[s] = subject[s],
         \A s \in N : /\ subject'[s].kind \in Kind /\ subject'[s].owner \in User
                      /\ subject'[s].status \in {"linked", "unlinked"}
                      /\ subject'[s].status = "linked" <=> subject'[s].user \in User
  PROVE  SubjectsOK' /\ There' = There \cup N /\ Drawn' = Drawn \cup N
<1>1. There' = There \cup N /\ Drawn' = Drawn \cup N
  BY DEF There, Drawn, Kind
<1>2. \A t \in There' : /\ subject'[t].owner \in User
                        /\ subject'[t].status \in {"linked", "pending"} <=> subject'[t].user \in User
  <2> TAKE t \in There'
  <2>1. CASE t \in N
    BY <2>1
  <2>2. CASE t \notin N
    <3>1. t \in There /\ subject'[t] = subject[t]
      BY <1>1, <2>2 DEF There
    <3> QED
      BY <3>1 DEF SubjectsOK
  <2> QED
    BY <2>1, <2>2
<1> QED
  BY <1>1, <1>2 DEF SubjectsOK

\* The row of a new contact.
LEMMA RowOK ==
  ASSUME NEW k \in Kind, NEW o \in User, NEW u \in User \cup {NoUser}
  PROVE  LET row == Row(k, o, u) IN
         /\ row \in SubjectRow /\ row.kind = k /\ row.owner = o /\ row.user = u
         /\ row.status = IF u = NoUser THEN "unlinked" ELSE "linked"
  BY DEF Row, SubjectRow

\* One new contact.
LEMMA OneAdded ==
  ASSUME SubjectsOK, NEW s \in Subject, s \notin Drawn,
         NEW k \in Kind, NEW o \in User, NEW u \in User \cup {NoUser},
         subject' = [subject EXCEPT ![s] = Row(k, o, u)]
  PROVE  /\ SubjectsOK' /\ There' = There \cup {s} /\ Drawn' = Drawn \cup {s}
         /\ \A t \in Subject : t # s => subject'[t] = subject[t]
         /\ subject'[s].kind = k /\ subject'[s].owner = o
         /\ subject'[s].status \in {"linked", "unlinked"}
<1> DEFINE row == Row(k, o, u)
<1>1. row \in SubjectRow /\ row.kind = k /\ row.owner = o /\ row.user = u
      /\ row.status = IF u = NoUser THEN "unlinked" ELSE "linked"
  BY RowOK
<1> HIDE DEF row
<1>2. subject' \in [Subject -> SubjectRow]
      /\ \A t \in Subject : subject'[t] = IF t = s THEN row ELSE subject[t]
  BY <1>1 DEF SubjectsOK, row
<1>3. {s} \in SUBSET (Subject \ Drawn)
  OBVIOUS
<1>4. SubjectsOK' /\ There' = There \cup {s} /\ Drawn' = Drawn \cup {s}
  <2>1. \A t \in {s} : /\ subject'[t].kind \in Kind /\ subject'[t].owner \in User
                       /\ subject'[t].status \in {"linked", "unlinked"}
                       /\ subject'[t].status = "linked" <=> subject'[t].user \in User
    BY <1>1, <1>2
  <2>2. \A t \in Subject \ {s} : subject'[t] = subject[t]
    BY <1>2
  <2> QED
    BY <1>2, <1>3, <2>1, <2>2, RowsAdded
<1> QED
  BY <1>1, <1>2, <1>4

\* Rows are deleted, and what refers to them.
LEMMA RowsDeleted ==
  ASSUME SubjectsOK, NestOK, CardsOK, NEW S, DeleteRows(S)
  PROVE  /\ SubjectsOK' /\ There' = There \ S /\ Drawn' = Drawn
         /\ \A s \in Subject : s \notin S \cap There => subject'[s] = subject[s]
         /\ \A s \in S \cap There : subject'[s].kind = "gone"
         /\ nest' \subseteq nest /\ NestOK'
         /\ anchor' \in Drawn' \cup {NoSubject}
         /\ wired' \in [User -> There' \cup {NoSubject}]
         /\ \A u \in User : wired'[u] = IF wired[u] \in S THEN NoSubject ELSE wired[u]
         /\ \A u \in User : wired'[u] # NoSubject => subject'[wired'[u]].owner = u
<1> DEFINE gone == [Undrawn EXCEPT !.kind = "gone"]
<1>1. gone \in SubjectRow /\ gone.kind = "gone"
  BY DEF Undrawn, SubjectRow
<1>2. subject' = [s \in Subject |-> IF s \in S \cap There THEN gone ELSE subject[s]]
  BY DEF DeleteRows
<1> HIDE DEF gone
<1>3. subject' \in [Subject -> SubjectRow]
      /\ \A s \in Subject : subject'[s] = IF s \in S \cap There THEN gone ELSE subject[s]
  BY <1>1, <1>2 DEF SubjectsOK
<1>4. There' = There \ S /\ Drawn' = Drawn
  BY <1>1, <1>3 DEF There, Drawn, Kind
<1>5. SubjectsOK'
  BY <1>3, <1>4 DEF SubjectsOK, There
<1>6. nest' \subseteq nest /\ NestOK'
  BY <1>4 DEF DeleteRows, NestOK
<1>7. anchor' \in Drawn' \cup {NoSubject}
  BY <1>4 DEF DeleteRows, CardsOK
<1>8. /\ wired' \in [User -> There' \cup {NoSubject}]
      /\ \A u \in User : wired'[u] = IF wired[u] \in S THEN NoSubject ELSE wired[u]
  BY <1>4 DEF DeleteRows, CardsOK
<1>9. \A u \in User : wired'[u] # NoSubject => subject'[wired'[u]].owner = u
  <2> SUFFICES ASSUME NEW u \in User, wired'[u] # NoSubject PROVE subject'[wired'[u]].owner = u
    OBVIOUS
  <2>1. wired'[u] = wired[u] /\ wired[u] \notin S /\ wired[u] \in There
    BY <1>8 DEF CardsOK
  <2>2. subject'[wired[u]] = subject[wired[u]]
    BY <1>3, <2>1 DEF There
  <2> QED
    BY <2>1, <2>2 DEF CardsOK
<1>10. /\ \A s \in Subject : s \notin S \cap There => subject'[s] = subject[s]
       /\ \A s \in S \cap There : subject'[s].kind = "gone"
  BY <1>1, <1>3 DEF There
<1> QED
  BY <1>4, <1>5, <1>6, <1>7, <1>8, <1>9, <1>10

-----------------------------------------------------------------------------
(* Requests that start *)

LEMMA Started ==
  ASSUME RowsOK, NEW r \in Request, NEW j, Start(r, j)
  PROVE  /\ calm' \in BOOLEAN /\ (calm' => calm /\ \A q \in Request : job[q] = Idle)
         /\ job' = [job EXCEPT ![r] = j]
<1>1. calm' = (calm /\ \A q \in Request \ {r} : job[q] = Idle)
  BY Zenon DEF Start
<1>2. job[r] = Idle /\ job' = [job EXCEPT ![r] = j]
  BY DEF Start
<1>3. calm' \in BOOLEAN /\ (calm' => calm /\ \A q \in Request : job[q] = Idle)
  BY <1>1, <1>2, Zenon DEF RowsOK
<1> QED
  BY <1>2, <1>3

LEMMA StartKeeps ==
  ASSUME RowsOK, NEW r \in Request, NEW j \in Job, Start(r, j), Holds(j), Asked(j), Refers(j)',
         UNCHANGED <<subject, nest, asks, anchor, wired, carded>>, MembersOK',
         Sound => Fresh(j)'
  PROVE  Keeps(r)
<1>1. calm' \in BOOLEAN /\ job' = [job EXCEPT ![r] = j]
  BY Started
<1>2. There' = There /\ Drawn' = Drawn
  BY DEF There, Drawn
<1>3. RowsOK'
  BY <1>1, <1>2 DEF RowsOK, SubjectsOK, AsksOK, NestOK, CardsOK, asks
<1>4. Grows
  BY SameGrows DEF asks
<1> QED
  BY <1>1, <1>3, <1>4 DEF Keeps

\* A handler that starts and writes nothing yet.
LEMMA UpdateKeeps ==
  ASSUME RowsOK, NEW r \in Request, NEW s \in Subject, Update(r, s)
  PROVE  Keeps(r)
<1>1. ASSUME NEW j \in Job, Start(r, j), Holds(j), Asked(j), Refers(j)', Sound => Fresh(j)',
             UNCHANGED <<subject, nest, asks, circles>>
      PROVE  Keeps(r)
  BY <1>1, StartKeeps DEF circles, RowsOK, MembersOK
<1>2. ASSUME NEW kind \in Kind, UpdateKind(r, s, kind) PROVE Keeps(r)
  <2> DEFINE k == [Idle EXCEPT !.step = "retype", !.subject = s, !.word = kind]
  <2>1. k \in Job /\ k.step = "retype" /\ k.subject = s /\ k.word = kind
    BY IdleOK DEF Job, Step
  <2>2. /\ Start(r, k) /\ UNCHANGED <<subject, nest, asks, circles>>
        /\ kind = "individual" /\ subject[s].kind # "individual" => \A p \in nest : p[1] # s
    BY <1>2 DEF UpdateKind
  <2> HIDE DEF k
  <2>3. PICK j \in Job : Start(r, j) /\ j.step = "retype" /\ j.subject = s /\ j.word = kind
    BY <2>1, <2>2
  <2>4. Holds(j) /\ Asked(j) /\ Refers(j)' /\ (Sound => Fresh(j)')
    BY <2>2, <2>3 DEF Holds, Asked, Refers, Fresh, Sound, Childless
  <2> QED
    BY <1>1, <2>2, <2>3, <2>4
<1>3. ASSUME NEW user \in User \cup {NoUser}, UpdateLink(r, s, user) PROVE Keeps(r)
  <2> DEFINE k == [Idle EXCEPT !.step = "relink", !.subject = s, !.user = user]
  <2>1. k \in Job /\ k.step = "relink" /\ k.subject = s
    BY IdleOK DEF Job, Step
  <2>2. Start(r, k) /\ UNCHANGED <<subject, nest, asks, circles>>
    BY <1>3 DEF UpdateLink
  <2> HIDE DEF k
  <2>3. PICK j \in Job : Start(r, j) /\ j.step = "relink" /\ j.subject = s
    BY <2>1, <2>2
  <2>4. Holds(j) /\ Asked(j) /\ Refers(j)' /\ Fresh(j)'
    BY <2>3 DEF Holds, Asked, Refers, Fresh
  <2> QED
    BY <1>1, <2>2, <2>3, <2>4
<1>4. ASSUME NEW v \in User, DeletePrayerSubject(r, v, s) PROVE Keeps(r)
  <2> DEFINE k == [Idle EXCEPT !.step = "delete", !.subject = s]
  <2>1. k \in Job /\ k.step = "delete" /\ k.subject = s
    BY IdleOK DEF Job, Step
  <2>2. /\ Start(r, k) /\ ~FromCircleOf(v, s)
        /\ letGo' = letGo \cup {u \in User \ ({v} \cap active) : wired[u] = s}
        /\ UNCHANGED <<subject, nest, asks, circle, members, active, anchor, wired, carded, left>>
    BY <1>4 DEF DeletePrayerSubject
  <2> HIDE DEF k
  <2>3. PICK j \in Job : Start(r, j) /\ j.step = "delete" /\ j.subject = s
    BY <2>1, <2>2
  <2>4. \A u \in User : wired[u] = s => u \in letGo'
    BY <2>2 DEF FromCircleOf, Cards
  <2>5. Holds(j) /\ Asked(j) /\ Refers(j)' /\ Fresh(j)'
    BY <2>2, <2>3, <2>4 DEF Holds, Asked, Refers, Fresh
  <2>6. MembersOK'
    BY <2>2 DEF RowsOK, MembersOK
  <2> QED
    BY <2>2, <2>3, <2>5, <2>6, StartKeeps
<1>5. ASSUME NEW m \in Subject, AddMemberToSubject(r, s, m) PROVE Keeps(r)
  <2> DEFINE k == [Idle EXCEPT !.step = "nest", !.subject = s, !.other = m]
  <2>1. k \in Job /\ k.step = "nest" /\ k.subject = s /\ k.other = m
    BY IdleOK DEF Job, Step
  <2>2. Start(r, k) /\ UNCHANGED <<subject, nest, asks, circles>> /\ subject[s].kind # "individual"
    BY <1>5 DEF AddMemberToSubject
  <2> HIDE DEF k
  <2>3. PICK j \in Job : Start(r, j) /\ j.step = "nest" /\ j.subject = s /\ j.other = m
    BY <2>1, <2>2
  <2>4. Holds(j) /\ Asked(j) /\ Refers(j)' /\ Fresh(j)'
    BY <2>2, <2>3 DEF Holds, Asked, Refers, Fresh
  <2> QED
    BY <1>1, <2>2, <2>3, <2>4
<1>6. ASSUME NEW target \in User, SendConnectionRequest(r, s, target) PROVE Keeps(r)
  <2> DEFINE k == [Idle EXCEPT !.step = "ask", !.subject = s, !.user = target]
  <2>1. k \in Job /\ k.step = "ask" /\ k.subject = s /\ k.user = target
    BY IdleOK DEF Job, Step
  <2>2. Start(r, k) /\ UNCHANGED <<subject, nest, asks, circles>>
    BY <1>6 DEF SendConnectionRequest
  <2> HIDE DEF k
  <2>3. PICK j \in Job : Start(r, j) /\ j.step = "ask" /\ j.subject = s /\ j.user = target
    BY <2>1, <2>2
  <2>4. Holds(j) /\ Asked(j) /\ Refers(j)' /\ Fresh(j)'
    BY <2>3 DEF Holds, Asked, Refers, Fresh
  <2> QED
    BY <1>1, <2>2, <2>3, <2>4
<1>7. ASSUME RemovePrayerSubjectLink(r, s) PROVE Keeps(r)
  <2> DEFINE k == [Idle EXCEPT !.step = "unlink", !.subject = s]
  <2>1. k \in Job /\ k.step = "unlink" /\ k.subject = s
    BY IdleOK DEF Job, Step
  <2>2. Start(r, k) /\ UNCHANGED <<subject, nest, asks, circles>>
    BY <1>7 DEF RemovePrayerSubjectLink
  <2> HIDE DEF k
  <2>3. PICK j \in Job : Start(r, j) /\ j.step = "unlink" /\ j.subject = s
    BY <2>1, <2>2
  <2>4. Holds(j) /\ Asked(j) /\ Refers(j)' /\ Fresh(j)'
    BY <2>3 DEF Holds, Asked, Refers, Fresh
  <2> QED
    BY <1>1, <2>2, <2>3, <2>4
<1> QED
  BY <1>2, <1>3, <1>4, <1>5, <1>6, <1>7 DEF Update

LEMMA RespondKeeps ==
  ASSUME RowsOK, NEW r \in Request, NEW a \in Ask, NEW word \in {"accepted", "declined"},
         RespondToConnectionRequest(r, a, word)
  PROVE  Keeps(r)
<1> DEFINE s == ask[a].subject
           u == ask[a].to
           k == [Idle EXCEPT !.step = "answer", !.ask = a, !.subject = s, !.user = u,
                             !.word = word]
<1>1. /\ ask[a].status = "pending" /\ s \in Subject /\ u \in User /\ Start(r, k)
      /\ UNCHANGED <<subject, nest, asks, circles>>
  BY DEF RespondToConnectionRequest, There, RowsOK, AsksOK
<1>2. /\ k \in Job /\ k.step = "answer" /\ k.ask = a /\ k.subject = s /\ k.user = u
      /\ k.word = word
  <2> HIDE DEF s, u
  <2> QED
    BY <1>1, IdleOK DEF Job, Step
<1> HIDE DEF k
<1>3. PICK j \in Job : /\ Start(r, j) /\ j.step = "answer" /\ j.ask = a /\ j.word = word
                       /\ j.subject = s /\ j.user = u
  BY <1>1, <1>2
<1>4. Holds(j) /\ Asked(j) /\ Refers(j)' /\ Fresh(j)'
  BY <1>1, <1>3 DEF Holds, Asked, Refers, Fresh, asks
<1>5. MembersOK'
  BY <1>1 DEF RowsOK, MembersOK, circles
<1> QED
  BY <1>1, <1>3, <1>4, <1>5, StartKeeps DEF circles

LEMMA CircleStartKeeps ==
  ASSUME RowsOK, NEW r \in Request, NEW u \in User,
         CreateGroup(r, u) \/ Admit(r, u) \/ RemoveUserFromGroup(r, u)
  PROVE  Keeps(r)
<1>1. ASSUME NEW x \in {"card", "ensure", "leave"}, Start(r, [Idle EXCEPT !.step = x, !.user = u]),
             UNCHANGED <<subject, nest, asks, anchor, wired, carded>>, MembersOK',
             IF x = "leave" THEN u \notin members' ELSE u \in members'
      PROVE  Keeps(r)
  <2> DEFINE k == [Idle EXCEPT !.step = x, !.user = u]
  <2>1. k \in Job /\ k.step = x /\ k.user = u
    BY IdleOK DEF Job, Step
  <2>2. Start(r, k)
    BY <1>1
  <2> HIDE DEF k
  <2>3. PICK j \in Job : Start(r, j) /\ j.step = x /\ j.user = u
    BY <2>1, <2>2
  <2>4. Holds(j) /\ Asked(j) /\ Refers(j)' /\ Fresh(j)'
    BY <1>1, <2>3 DEF Holds, Asked, Refers, Fresh
  <2> QED
    BY <1>1, <2>3, <2>4, StartKeeps
<1>2. CASE CreateGroup(r, u)
  BY <1>1, <1>2 DEF CreateGroup, RowsOK, MembersOK
<1>3. CASE Admit(r, u)
  BY <1>1, <1>3 DEF Admit, RowsOK, MembersOK
<1>4. CASE RemoveUserFromGroup(r, u)
  BY <1>1, <1>4 DEF RemoveUserFromGroup, RowsOK, MembersOK
<1> QED
  BY <1>2, <1>3, <1>4

LEMMA DeleteGroupKeeps ==
  ASSUME RowsOK, NEW r \in Request, DeleteGroup(r)
  PROVE  Keeps(r)
<1> DEFINE k == [Idle EXCEPT !.step = "teardown"]
<1>1. k \in Job /\ k.step = "teardown"
  BY IdleOK DEF Job, Step
<1>2. Start(r, k) /\ members' = {} /\ active' = {}
      /\ UNCHANGED <<subject, nest, asks, circle, anchor, wired, carded, letGo, left>>
  BY DEF DeleteGroup
<1> HIDE DEF k
<1>3. PICK j \in Job : Start(r, j) /\ j.step = "teardown"
  BY <1>1, <1>2
<1>4. Holds(j) /\ Asked(j) /\ Refers(j)' /\ Fresh(j)'
  BY <1>2, <1>3 DEF Holds, Asked, Refers, Fresh
<1>5. MembersOK'
  BY <1>2 DEF RowsOK, MembersOK
<1> QED
  BY <1>2, <1>3, <1>4, <1>5, StartKeeps

-----------------------------------------------------------------------------
(* Statements *)

LEMMA GotoJob ==
  ASSUME JobsOK, NEW r \in Request, NEW x \in Step,
         Goto(r, x) \/ job' = [job EXCEPT ![r].step = x]
  PROVE  \E j \in Job : /\ job' = [job EXCEPT ![r] = j] /\ j.step = x
                        /\ j.user = job[r].user /\ j.subject = job[r].subject
                        /\ j.ask = job[r].ask /\ j.word = job[r].word
<1> DEFINE i == job[r]
           k == [i EXCEPT !.step = x]
<1>1. i \in Job
  BY DEF JobsOK
<1>2. /\ k \in Job /\ k.step = x /\ k.user = i.user /\ k.subject = i.subject
      /\ k.ask = i.ask /\ k.word = i.word
  <2> HIDE DEF i
  <2> QED
    BY <1>1 DEF Job
<1>3. job' = [job EXCEPT ![r] = k]
  BY DEF Goto, Become
<1> HIDE DEF k
<1> QED
  BY <1>2, <1>3

\* Back to idle.
LEMMA EndKeeps ==
  ASSUME RowsOK', Grows, NEW r \in Request, Become(r, Idle)
  PROVE  Keeps(r)
  BY IdleOK, IdleNext DEF Become, Keeps

\* Of the contacts only links and kinds are changed.
LEMMA SameContacts ==
  ASSUME RowsOK, SubjectsOK', There' = There, Drawn' = Drawn,
         \A s \in Subject : subject'[s].owner = subject[s].owner, carded' \subseteq carded,
         UNCHANGED <<nest, asks, circle, members, active, anchor, wired, letGo, left, calm>>
  PROVE  RowsOK' /\ Grows
<1>1. AsksOK' /\ NestOK' /\ MembersOK'
  BY DEF RowsOK, AsksOK, NestOK, MembersOK, asks
<1>2. CardsOK'
  BY DEF RowsOK, CardsOK, There
<1>3. Grows
  BY DEF Grows, Drawn, asks
<1> QED
  BY <1>1, <1>2, <1>3 DEF RowsOK

LEMMA RelinkWrites ==
  ASSUME Inv, NEW r \in Request, \/ UpdateCommit(r) /\ job[r].step = "relink"
                                 \/ AskMark(r) \/ AnswerMark(r) \/ Unlink(r)
  PROVE  /\ job[r].subject \in Subject /\ SubjectsOK' /\ There' = There /\ Drawn' = Drawn
         /\ \A t \in Subject :
                /\ subject'[t].kind = subject[t].kind /\ subject'[t].owner = subject[t].owner
                /\ t # job[r].subject \/ t \notin There
                       => /\ subject'[t].user = subject[t].user
                          /\ subject'[t].status = subject[t].status
                /\ t = job[r].subject /\ t \in There /\ subject'[t].status = "pending"
                       => job[r].step = "askMark" /\ subject'[t].user = job[r].user
         /\ UNCHANGED <<nest, asks, circles, calm>> /\ Become(r, Idle)
<1> DEFINE s == job[r].subject
<1>1. s \in Subject
  BY DEF UpdateCommit, AskMark, AnswerMark, Unlink, At, Inv, JobsOK, Holds
<1>2. UNCHANGED <<nest, asks, circles, calm>> /\ Become(r, Idle)
  BY DEF UpdateCommit, AskMark, AnswerMark, Unlink, At, Become, circles
<1>3. \E u \in User \cup {NoUser}, w \in {"unlinked", "pending", "linked", "declined"} :
          /\ SetLink(s, u, w) /\ (w \in {"linked", "pending"} <=> u \in User)
          /\ w = "pending" => job[r].step = "askMark" /\ u = job[r].user
  <2>1. CASE UpdateCommit(r) /\ job[r].step = "relink"
    <3>1. job[r].user \in User \cup {NoUser}
      BY DEF Inv, JobsOK, Job
    <3>2. SetLink(s, job[r].user, IF job[r].user = NoUser THEN "unlinked" ELSE "linked")
      BY <2>1 DEF UpdateCommit, At
    <3>3. CASE job[r].user = NoUser
      BY <3>2, <3>3
    <3>4. CASE job[r].user # NoUser
      <4>1. SetLink(s, job[r].user, "linked") /\ job[r].user \in User
        BY <3>1, <3>2, <3>4
      <4> QED
        BY <4>1
    <3> QED
      BY <3>3, <3>4
  <2>2. CASE AskMark(r)
    <3>1. SetLink(s, job[r].user, "pending") /\ job[r].user \in User /\ job[r].step = "askMark"
      BY <2>2 DEF AskMark, At, Inv, JobsOK, Holds
    <3> QED
      BY <3>1
  <2>3. CASE AnswerMark(r)
    <3>1. job[r].user \in User
      BY <2>3 DEF AnswerMark, At, Inv, JobsOK, Holds
    <3>2. SetLink(s, job[r].user, "linked") \/ SetLink(s, NoUser, "declined")
      BY <2>3 DEF AnswerMark
    <3> QED
      BY <3>1, <3>2
  <2>4. CASE Unlink(r)
    <3>1. SetLink(s, NoUser, "unlinked")
      BY <2>4 DEF Unlink
    <3> QED
      BY <3>1
  <2> QED
    BY <2>1, <2>2, <2>3, <2>4
<1>4. PICK u \in User \cup {NoUser}, w \in {"unlinked", "pending", "linked", "declined"} :
          /\ SetLink(s, u, w) /\ (w \in {"linked", "pending"} <=> u \in User)
          /\ w = "pending" => job[r].step = "askMark" /\ u = job[r].user
  BY <1>3
<1> HIDE DEF s
<1>5. /\ SubjectsOK' /\ There' = There /\ Drawn' = Drawn
      /\ \A t \in Subject :
             /\ subject'[t].kind = subject[t].kind /\ subject'[t].owner = subject[t].owner
             /\ subject'[t].user = IF t = s /\ t \in There THEN u ELSE subject[t].user
             /\ subject'[t].status = IF t = s /\ t \in There THEN w ELSE subject[t].status
  BY <1>1, <1>4, LinkSet DEF Inv, RowsOK
<1> QED
  BY <1>1, <1>2, <1>4, <1>5 DEF s

LEMMA RelinkKeeps ==
  ASSUME Inv, NEW r \in Request, \/ UpdateCommit(r) /\ job[r].step = "relink"
                                 \/ AskMark(r) \/ AnswerMark(r) \/ Unlink(r)
  PROVE  Keeps(r)
<1>1. RowsOK' /\ Grows
  BY RelinkWrites, SameContacts DEF Inv, circles
<1> QED
  BY <1>1, RelinkWrites, EndKeeps

LEMMA RetypeWrites ==
  ASSUME Inv, NEW r \in Request, UpdateCommit(r), job[r].step = "retype"
  PROVE  /\ job[r].subject \in Subject /\ job[r].word \in Kind
         /\ SubjectsOK' /\ There' = There /\ Drawn' = Drawn
         /\ \A t \in Subject :
                /\ subject'[t].owner = subject[t].owner /\ subject'[t].user = subject[t].user
                /\ subject'[t].status = subject[t].status
                /\ subject'[t].kind = IF t = job[r].subject /\ t \in There THEN job[r].word
                                      ELSE subject[t].kind
         /\ carded' = (IF job[r].word = "group" THEN carded ELSE carded \ {job[r].subject})
         /\ UNCHANGED <<nest, asks, circle, members, active, anchor, wired, letGo, left, calm>>
         /\ Become(r, Idle)
<1> DEFINE s == job[r].subject
           k == job[r].word
           row == [subject[s] EXCEPT !.kind = k]
<1>1. s \in Subject /\ k \in Kind
  BY DEF Inv, JobsOK, Holds
<1>2. /\ subject' = [subject EXCEPT ![s] = IF s \in There THEN row ELSE subject[s]]
      /\ carded' = (IF k = "group" THEN carded ELSE carded \ {s})
      /\ UNCHANGED <<nest, asks, circle, members, active, anchor, wired, letGo, left, calm>>
      /\ Become(r, Idle)
  BY DEF UpdateCommit, At, Become
<1> HIDE DEF s, k
<1>3. subject[s] \in SubjectRow
  BY <1>1 DEF Inv, RowsOK, SubjectsOK
<1>4. /\ row \in SubjectRow /\ row.kind = k /\ row.owner = subject[s].owner
      /\ row.user = subject[s].user /\ row.status = subject[s].status
  BY <1>1, <1>3 DEF SubjectRow, Kind
<1> HIDE DEF row
<1>5. subject' \in [Subject -> SubjectRow]
      /\ \A t \in Subject : subject'[t] = IF t = s /\ t \in There THEN row ELSE subject[t]
  BY <1>1, <1>2, <1>3, <1>4 DEF Inv, RowsOK, SubjectsOK
<1>6. \A t \in Subject :
          /\ subject'[t].owner = subject[t].owner /\ subject'[t].user = subject[t].user
          /\ subject'[t].status = subject[t].status
          /\ subject'[t].kind = IF t = s /\ t \in There THEN k ELSE subject[t].kind
  BY <1>4, <1>5
<1>7. There' = There /\ Drawn' = Drawn
  BY <1>1, <1>6 DEF There, Drawn, Kind
<1>8. SubjectsOK'
  BY <1>5, <1>6, <1>7 DEF Inv, RowsOK, SubjectsOK, There
<1> QED
  BY <1>1, <1>2, <1>6, <1>7, <1>8 DEF s, k

LEMMA RetypeKeeps ==
  ASSUME Inv, NEW r \in Request, UpdateCommit(r), job[r].step = "retype"
  PROVE  Keeps(r)
<1>1. RowsOK' /\ Grows
  BY RetypeWrites, SameContacts DEF Inv
<1> QED
  BY <1>1, RetypeWrites, EndKeeps

LEMMA NestKeeps ==
  ASSUME Inv, NEW r \in Request, NestRow(r)
  PROVE  Keeps(r)
<1>1. /\ {job[r].subject, job[r].other} \subseteq There
      /\ nest' = nest \cup {<<job[r].subject, job[r].other>>}
      /\ Become(r, Idle) /\ UNCHANGED <<subject, asks, circles>>
  BY DEF NestRow
<1>2. There' = There /\ Drawn' = Drawn /\ UNCHANGED calm
  BY <1>1 DEF There, Drawn, Become
<1>3. NestOK'
  BY <1>1, <1>2 DEF Inv, RowsOK, NestOK
<1>4. RowsOK'
  BY <1>1, <1>2, <1>3 DEF Inv, RowsOK, SubjectsOK, AsksOK, MembersOK, CardsOK, asks, circles
<1>5. Grows
  BY <1>1, SameGrows DEF asks
<1> QED
  BY <1>1, <1>4, <1>5, EndKeeps

\* The rows of connection requests, one of which is written.
LEMMA AskWritten ==
  ASSUME RowsOK, AsksOK', \A a \in Ask : ask[a].status # "undrawn" => ask'[a].status # "undrawn",
         UNCHANGED <<subject, nest, circles, calm>>
  PROVE  RowsOK' /\ Grows
<1>1. There' = There /\ Drawn' = Drawn
  BY DEF There, Drawn
<1>2. RowsOK'
  BY <1>1 DEF RowsOK, SubjectsOK, NestOK, MembersOK, CardsOK, circles
<1>3. Grows
  BY <1>1 DEF Grows, Drawn
<1> QED
  BY <1>2, <1>3

LEMMA AskWrites ==
  ASSUME Inv, NEW r \in Request, NEW a \in Ask, AskRowInsert(r, a)
  PROVE  /\ job[r].subject \in There /\ job[r].user \in User /\ ask[a].status = "undrawn"
         /\ AsksOK' /\ \A b \in Ask : b # a => ask'[b] = ask[b]
         /\ ask'[a] = [status |-> "pending", from |-> subject[job[r].subject].owner,
                       to |-> job[r].user, subject |-> job[r].subject]
         /\ UNCHANGED <<subject, nest, answers, circles, calm>> /\ Goto(r, "askMark")
<1> DEFINE s == job[r].subject
           u == job[r].user
           o == subject[s].owner
           row == [status |-> "pending", from |-> o, to |-> u, subject |-> s]
<1>1. /\ s \in There /\ u \in User /\ ask[a].status = "undrawn"
      /\ ask' = [ask EXCEPT ![a] = row] /\ Goto(r, "askMark")
      /\ UNCHANGED <<subject, nest, answers, circles, calm>>
  BY DEF AskRowInsert, Goto, Become, At, Inv, JobsOK, Holds
<1>2. o \in User
  BY <1>1 DEF Inv, RowsOK, SubjectsOK
<1>3. /\ row \in AskRow /\ row.status = "pending" /\ row.from \in User /\ row.to \in User
      /\ row.subject \in Drawn
  <2> HIDE DEF s, u, o
  <2> QED
    BY <1>1, <1>2 DEF AskRow, There, Drawn, Kind
<1>4. AsksOK' /\ \A b \in Ask : ask'[b] = IF b = a THEN row ELSE ask[b]
  <2> HIDE DEF row
  <2>1. ask' \in [Ask -> AskRow] /\ \A b \in Ask : ask'[b] = IF b = a THEN row ELSE ask[b]
    BY <1>1, <1>3 DEF Inv, RowsOK, AsksOK
  <2>2. Drawn' = Drawn
    BY <1>1 DEF Drawn
  <2> QED
    BY <1>1, <1>3, <2>1, <2>2 DEF Inv, RowsOK, AsksOK
<1> QED
  BY <1>1, <1>4

LEMMA AskKeeps ==
  ASSUME Inv, NEW r \in Request, NEW a \in Ask, AskRowInsert(r, a)
  PROVE  Keeps(r)
<1>0. Goto(r, "askMark")
  BY DEF AskRowInsert
<1>1. PICK j \in Job : /\ job' = [job EXCEPT ![r] = j] /\ j.step = "askMark"
                       /\ j.user = job[r].user /\ j.subject = job[r].subject
  BY <1>0, GotoJob DEF Inv, Step
<1>2. Holds(j) /\ Asked(j) /\ Refers(j)'
  BY <1>1, AskWrites DEF Holds, Asked, Refers, There
<1>3. Fresh(j)'
  <2>1. /\ ask'[a] = [status |-> "pending", from |-> subject[job[r].subject].owner,
                      to |-> job[r].user, subject |-> job[r].subject]
        /\ UNCHANGED subject
    BY AskWrites
  <2>2. ask'[a] = [status |-> "pending", from |-> subject'[j.subject].owner,
                   to |-> j.user, subject |-> j.subject]
    BY <1>1, <2>1
  <2>3. Pending(j.subject, j.user)'
    BY <2>2 DEF Pending
  <2> QED
    BY <1>1, <2>3 DEF Fresh
<1>4. RowsOK' /\ Grows
  <2>1. \A b \in Ask : ask[b].status # "undrawn" => ask'[b].status # "undrawn"
    BY AskWrites
  <2> QED
    BY <2>1, AskWrites, AskWritten DEF Inv
<1> QED
  BY <1>1, <1>2, <1>3, <1>4 DEF Keeps

LEMMA AnswerWrites ==
  ASSUME Inv, NEW r \in Request, Answer(r)
  PROVE  /\ job[r].step = "answer" /\ job[r].ask \in Ask /\ job[r].subject \in Subject
         /\ job[r].user \in User /\ job[r].word \in {"accepted", "declined"}
         /\ AsksOK' /\ \A b \in Ask : b # job[r].ask => ask'[b] = ask[b] /\ answers'[b] = answers[b]
         /\ \/ job[r].subject \notin There /\ UNCHANGED <<ask, answers>>
            \/ /\ job[r].subject \in There /\ ask'[job[r].ask].status = job[r].word
               /\ answers'[job[r].ask] = answers[job[r].ask] + 1
         /\ UNCHANGED <<subject, nest, circles, calm>> /\ Goto(r, "answerMark")
<1> DEFINE a == job[r].ask
           w == job[r].word
<1>1. /\ job[r].step = "answer" /\ a \in Ask /\ job[r].subject \in Subject
      /\ job[r].user \in User /\ w \in {"accepted", "declined"} /\ ask[a].status # "undrawn"
  BY DEF Answer, At, Inv, JobsOK, Holds, Refers
<1>2. UNCHANGED <<subject, nest, circles, calm>> /\ Goto(r, "answerMark")
  BY DEF Answer, Goto, Become
<1>3. CASE job[r].subject \notin There
  <2>1. UNCHANGED <<ask, answers>>
    BY <1>3 DEF Answer, asks
  <2>2. AsksOK'
    BY <1>2, <2>1 DEF Inv, RowsOK, AsksOK, Drawn
  <2> QED
    BY <1>1, <1>2, <1>3, <2>1, <2>2
<1>4. CASE job[r].subject \in There
  <2> DEFINE row == [ask[a] EXCEPT !.status = w]
  <2>1. ask' = [ask EXCEPT ![a].status = w] /\ answers' = [answers EXCEPT ![a] = @ + 1]
    BY <1>4 DEF Answer
  <2> HIDE DEF a, w
  <2>2. ask[a] \in AskRow /\ ask \in [Ask -> AskRow] /\ answers \in [Ask -> Nat]
    BY <1>1 DEF Inv, RowsOK, AsksOK
  <2>3. /\ row \in AskRow /\ row.status = w /\ row.from = ask[a].from /\ row.to = ask[a].to
        /\ row.subject = ask[a].subject
    BY <1>1, <2>2 DEF AskRow
  <2>4. ask' \in [Ask -> AskRow] /\ \A b \in Ask : ask'[b] = IF b = a THEN row ELSE ask[b]
    BY <1>1, <2>1, <2>2, <2>3
  <2>5. answers' \in [Ask -> Nat]
        /\ \A b \in Ask : answers'[b] = IF b = a THEN answers[a] + 1 ELSE answers[b]
    BY <1>1, <2>1, <2>2
  <2> HIDE DEF row
  <2>6. AsksOK'
    BY <1>1, <1>2, <2>3, <2>4, <2>5 DEF Inv, RowsOK, AsksOK, Drawn
  <2>7. ask'[a].status = w /\ answers'[a] = answers[a] + 1
    BY <1>1, <2>3, <2>4, <2>5
  <2>8. \A b \in Ask : b # a => ask'[b] = ask[b] /\ answers'[b] = answers[b]
    BY <2>4, <2>5
  <2> QED
    BY <1>1, <1>2, <1>4, <2>6, <2>7, <2>8 DEF a, w
<1> QED
  BY <1>3, <1>4

LEMMA AnswerKeeps ==
  ASSUME Inv, NEW r \in Request, Answer(r)
  PROVE  Keeps(r)
<1>1. PICK j \in Job : /\ job' = [job EXCEPT ![r] = j] /\ j.step = "answerMark"
                       /\ j.user = job[r].user /\ j.subject = job[r].subject
                       /\ j.word = job[r].word
  BY AnswerWrites, GotoJob DEF Inv, Step
<1>2. Holds(j) /\ Asked(j) /\ Refers(j)' /\ Fresh(j)'
  BY <1>1, AnswerWrites DEF Holds, Asked, Refers, Fresh
<1>3. RowsOK' /\ Grows
  <2>1. \A b \in Ask : ask[b].status # "undrawn" => ask'[b].status # "undrawn"
    BY AnswerWrites
  <2> QED
    BY <2>1, AnswerWrites, AskWritten DEF Inv
<1> QED
  BY <1>1, <1>2, <1>3 DEF Keeps

\* Of the tables that refer to contacts, after rows are added.
LEMMA OthersAdded ==
  ASSUME RowsOK, NEW N \in SUBSET (Subject \ Drawn), There' = There \cup N, Drawn' = Drawn \cup N,
         \A s \in Subject \ N : subject'[s] = subject[s], UNCHANGED <<nest, asks>>
  PROVE  /\ AsksOK' /\ NestOK' /\ Grows
         /\ UNCHANGED <<anchor, wired, carded>> => CardsOK'
<1>1. AsksOK' /\ NestOK'
  BY DEF RowsOK, AsksOK, NestOK, asks
<1>2. Grows
  BY DEF Grows, asks, Drawn
<1>3. ASSUME UNCHANGED <<anchor, wired, carded>> PROVE CardsOK'
  <2>1. \A s \in There : subject'[s] = subject[s]
    BY DEF There, Drawn, Kind
  <2> QED
    BY <1>3, <2>1 DEF RowsOK, CardsOK
<1> QED
  BY <1>1, <1>2, <1>3

LEMMA CardWrites ==
  ASSUME Inv, NEW r \in Request, NEW s \in Subject, Card(r, s)
  PROVE  /\ job[r].step = "card" /\ job[r].user \in User /\ s \notin Drawn
         /\ SubjectsOK' /\ There' = There \cup {s} /\ Drawn' = Drawn \cup {s}
         /\ \A t \in Subject : t # s => subject'[t] = subject[t]
         /\ subject'[s].kind = "group" /\ subject'[s].status \in {"linked", "unlinked"}
         /\ UNCHANGED <<nest, asks, circles, calm>>
<1> DEFINE o == job[r].user
<1>1. /\ job[r].step = "card" /\ o \in User /\ s \notin Drawn
      /\ subject' = [subject EXCEPT ![s] = Row("group", o, NoUser)]
      /\ UNCHANGED <<nest, asks, circles, calm>>
  BY DEF Card, At, New, Become, Inv, JobsOK, Holds
<1> HIDE DEF o
<1>2. "group" \in Kind /\ NoUser \in User \cup {NoUser}
  BY DEF Kind
<1>3. /\ SubjectsOK' /\ There' = There \cup {s} /\ Drawn' = Drawn \cup {s}
      /\ \A t \in Subject : t # s => subject'[t] = subject[t]
      /\ subject'[s].kind = "group" /\ subject'[s].status \in {"linked", "unlinked"}
  BY <1>1, <1>2, OneAdded DEF Inv, RowsOK
<1> QED
  BY <1>1, <1>3 DEF o

LEMMA CardGoesOn ==
  ASSUME Inv, NEW r \in Request, NEW s \in Subject, Card(r, s)
  PROVE  \E j \in Job : /\ job' = [job EXCEPT ![r] = j] /\ j.step = "anchor"
                        /\ j.user = job[r].user /\ j.subject = s
<1> DEFINE i == job[r]
           k == [i EXCEPT !.step = "anchor", !.subject = s]
<1>1. i \in Job /\ i.user \in User /\ job' = [job EXCEPT ![r] = k] /\ i.step = "card"
  BY DEF Card, Become, At, Inv, JobsOK, Holds
<1>2. k \in Job /\ k.step = "anchor" /\ k.user = i.user /\ k.subject = s
  <2> HIDE DEF i
  <2> QED
    BY <1>1 DEF Job, Step
<1> HIDE DEF k
<1> QED
  BY <1>1, <1>2

LEMMA CardKeeps ==
  ASSUME Inv, NEW r \in Request, NEW s \in Subject, Card(r, s)
  PROVE  Keeps(r)
<1>1. job[r].step = "card" /\ job[r].user \in User
  BY CardWrites
<1>2. PICK j \in Job : /\ job' = [job EXCEPT ![r] = j] /\ j.step = "anchor"
                       /\ j.user = job[r].user /\ j.subject = s
  BY CardGoesOn
<1>3. Holds(j) /\ Asked(j) /\ Refers(j)'
  BY <1>1, <1>2 DEF Holds, Asked, Refers
<1>4. UNCHANGED members
  BY CardWrites DEF circles
<1>5. Fresh(job[r]) => Fresh(j)'
  BY <1>1, <1>2, <1>4 DEF Fresh
<1>6. AsksOK' /\ NestOK' /\ Grows /\ CardsOK'
  <2>1. /\ {s} \in SUBSET (Subject \ Drawn) /\ There' = There \cup {s} /\ Drawn' = Drawn \cup {s}
        /\ \A t \in Subject \ {s} : subject'[t] = subject[t]
        /\ UNCHANGED <<nest, asks, anchor, wired, carded>>
    BY CardWrites DEF circles
  <2> QED
    BY <2>1, OthersAdded DEF Inv
<1>7. RowsOK'
  BY <1>6, CardWrites DEF Inv, RowsOK, MembersOK, circles
<1> QED
  BY <1>2, <1>3, <1>5, <1>6, <1>7 DEF Keeps

LEMMA AnchorKeeps ==
  ASSUME Inv, NEW r \in Request, Anchor(r)
  PROVE  Keeps(r)
<1>1. /\ job[r].step = "anchor" /\ Goto(r, "ensure")
      /\ anchor' = anchor \/ (anchor' = job[r].subject /\ anchor' \in There)
      /\ UNCHANGED <<subject, nest, asks, circle, members, active, wired, carded, letGo, left, calm>>
  BY DEF Anchor, At, Goto, Become
<1>2. PICK j \in Job : /\ job' = [job EXCEPT ![r] = j] /\ j.step = "ensure"
                       /\ j.user = job[r].user
  BY <1>1, GotoJob DEF Inv, Step
<1>3. job[r].user \in User
  BY <1>1 DEF Inv, JobsOK, Holds
<1>4. Holds(j) /\ Asked(j) /\ Refers(j)' /\ (Fresh(job[r]) => Fresh(j)')
  BY <1>1, <1>2, <1>3 DEF Holds, Asked, Refers, Fresh
<1>5. There' = There /\ Drawn' = Drawn /\ There \subseteq Drawn
  BY <1>1 DEF There, Drawn, Kind
<1>6. RowsOK'
  BY <1>1, <1>5 DEF Inv, RowsOK, SubjectsOK, AsksOK, NestOK, MembersOK, CardsOK, asks
<1>7. Grows
  BY <1>1, SameGrows DEF asks
<1> QED
  BY <1>2, <1>4, <1>6, <1>7 DEF Keeps

LEMMA EnsureChooses ==
  ASSUME Inv, NEW r \in Request, EnsureCircleContactsForUser(r)
  PROVE  /\ job[r].step = "ensure" /\ job[r].user \in User
         /\ UNCHANGED <<subject, nest, asks, circles, calm>>
         /\ \E j \in Job :
                /\ job' = [job EXCEPT ![r] = j] /\ j.step = "ensureCommit" /\ j.user = job[r].user
                /\ \/ j.word = "none" /\ wired[job[r].user] # NoSubject
                   \/ j.word = "fresh"
                   \/ /\ j.word = "wire" /\ j.subject \in There
                      /\ subject[j.subject].owner = job[r].user
<1> DEFINE i == job[r]
           u == i.user
           others == active \ {u}
           lacking == {p \in ({u} \X others) \cup (others \X {u}) : ~Knows(p[1], p[2])}
<1>1. i \in Job /\ i.step = "ensure" /\ u \in User
  BY DEF EnsureCircleContactsForUser, At, Inv, JobsOK, Holds
<1>2. lacking \in SUBSET (User \X User)
  BY <1>1 DEF Inv, RowsOK, MembersOK
<1>3. UNCHANGED <<subject, nest, asks, circles, calm>>
  BY DEF EnsureCircleContactsForUser, Become
<1>4. \E j \in Job :
          /\ job' = [job EXCEPT ![r] = j] /\ j.step = "ensureCommit" /\ j.user = u
          /\ \/ j.word = "none" /\ wired[u] # NoSubject
             \/ j.word = "fresh"
             \/ j.word = "wire" /\ j.subject \in There /\ subject[j.subject].owner = u
  <2>1. CASE wired[u] # NoSubject
    <3> DEFINE k == [i EXCEPT !.step = "ensureCommit", !.word = "none", !.make = lacking]
    <3>1. job' = [job EXCEPT ![r] = k]
      BY <2>1 DEF EnsureCircleContactsForUser, Become
    <3>2. k \in Job /\ k.step = "ensureCommit" /\ k.user = i.user /\ k.word = "none"
      <4> HIDE DEF i, lacking
      <4> QED
        BY <1>1, <1>2 DEF Job, Step
    <3> HIDE DEF k
    <3> QED
      BY <2>1, <3>1, <3>2
  <2>2. CASE wired[u] = NoSubject
    <3>1. PICK s \in FindExistingGroupSubject(u) :
              job' = [job EXCEPT ![r] = [i EXCEPT !.step = "ensureCommit", !.make = lacking,
                                                  !.subject = s,
                                                  !.word = IF s = NoSubject THEN "fresh" ELSE "wire"]]
      BY <2>2 DEF EnsureCircleContactsForUser, Become
    <3>2. s = NoSubject \/ (s \in There /\ subject[s].owner = u)
      BY DEF FindExistingGroupSubject
    <3> DEFINE w == IF s = NoSubject THEN "fresh" ELSE "wire"
               k == [i EXCEPT !.step = "ensureCommit", !.make = lacking, !.subject = s, !.word = w]
    <3>3. s \in Subject \cup {NoSubject} /\ w \in {"fresh", "wire"}
      BY <3>2 DEF There
    <3>4. k \in Job /\ k.step = "ensureCommit" /\ k.user = i.user /\ k.word = w /\ k.subject = s
      <4> HIDE DEF i, lacking, w
      <4> QED
        BY <1>1, <1>2, <3>3 DEF Job, Step
    <3>5. w = "fresh" \/ (w = "wire" /\ s \in There /\ subject[s].owner = u)
      BY <3>2
    <3>6. job' = [job EXCEPT ![r] = k]
      BY <3>1
    <3> HIDE DEF k, w
    <3> QED
      BY <3>4, <3>5, <3>6
  <2> QED
    BY <2>1, <2>2
<1> QED
  BY <1>1, <1>3, <1>4

LEMMA EnsureKeeps ==
  ASSUME Inv, NEW r \in Request, EnsureCircleContactsForUser(r)
  PROVE  Keeps(r)
<1>1. job[r].step = "ensure" /\ job[r].user \in User
  BY EnsureChooses
<1>2. UNCHANGED <<subject, nest, asks, circles, calm>>
  BY EnsureChooses
<1>3. PICK j \in Job :
          /\ job' = [job EXCEPT ![r] = j] /\ j.step = "ensureCommit" /\ j.user = job[r].user
          /\ \/ j.word = "none" /\ wired[job[r].user] # NoSubject
             \/ j.word = "fresh"
             \/ /\ j.word = "wire" /\ j.subject \in There
                /\ subject[j.subject].owner = job[r].user
  BY EnsureChooses
<1>4. There' = There /\ Drawn' = Drawn /\ There \subseteq Drawn
  BY <1>2 DEF There, Drawn, Kind
<1>5. Holds(j) /\ Asked(j) /\ Refers(j)'
  BY <1>1, <1>2, <1>3, <1>4 DEF Holds, Asked, Refers, There
<1>6. Fresh(job[r]) => Fresh(j)'
  BY <1>1, <1>2, <1>3 DEF Fresh, circles
<1>7. RowsOK'
  BY <1>2, <1>4 DEF Inv, RowsOK, SubjectsOK, AsksOK, NestOK, MembersOK, CardsOK, asks, circles
<1>8. Grows
  BY <1>2, SameGrows DEF asks
<1> QED
  BY <1>3, <1>5, <1>6, <1>7, <1>8 DEF Keeps

\* The contacts that are new, and the card.
LEMMA EnsureWrites ==
  ASSUME Inv, NEW r \in Request, EnsureCommit(r)
  PROVE  /\ job[r].user \in User /\ job[r].step = "ensureCommit"
         /\ UNCHANGED <<nest, asks, circle, members, active, anchor, left, calm>> /\ Become(r, Idle)
         /\ \E N \in SUBSET (Subject \ Drawn) :
                /\ SubjectsOK' /\ There' = There \cup N /\ Drawn' = Drawn \cup N
                /\ \A s \in Subject \ N : subject'[s] = subject[s]
                /\ \A s \in N : subject'[s].status \in {"linked", "unlinked"}
         /\ \/ job[r].word = "none" /\ UNCHANGED <<wired, carded>> /\ letGo' = letGo
            \/ /\ job[r].word # "none" /\ wired[job[r].user] = NoSubject
               /\ letGo' = letGo \ {job[r].user}
               /\ \E c \in There' : /\ subject'[c].kind = "group"
                                    /\ subject'[c].owner = job[r].user
                                    /\ wired' = [wired EXCEPT ![job[r].user] = c]
                                    /\ carded' = carded \cup {c}
<1> DEFINE i == job[r]
           o == i.user
           w == i.word
           M == i.make
           n == Cardinality(M) + IF w = "fresh" THEN 1 ELSE 0
           F == New(n)
<1>1. /\ i \in Job /\ i.step = "ensureCommit" /\ o \in User /\ w \in {"none", "fresh", "wire"}
      /\ w = "wire" => /\ i.subject \in Drawn
                       /\ i.subject \in There => subject[i.subject].owner = o
  BY DEF EnsureCommit, At, Inv, JobsOK, Holds, Refers
<1>2. /\ UNCHANGED <<nest, asks, circle, members, active, anchor, left, calm>> /\ Become(r, Idle)
      /\ letGo' = letGo \ (IF w = "none" THEN {} ELSE {o})
      /\ w # "none" => wired[o] = NoSubject
      /\ w = "wire" => i.subject \in There /\ subject[i.subject].kind = "group"
  BY DEF EnsureCommit, Become
<1> DEFINE Written(c, pair) ==
          /\ \A s, t \in F \ {c} : pair[s] = pair[t] => s = t
          /\ subject' = [s \in Subject |->
                 IF s \in F \ {c} THEN Row("individual", pair[s][1], pair[s][2])
                 ELSE IF s = c /\ w = "fresh" THEN Row("group", o, NoUser)
                 ELSE subject[s]]
          /\ IF w = "none" THEN UNCHANGED <<wired, carded>>
             ELSE wired' = [wired EXCEPT ![o] = c] /\ carded' = carded \cup {c}
<1>3. \E c \in (IF w = "fresh" THEN F ELSE {i.subject}) :
          \E pair \in [F \ {c} -> M] : Written(c, pair)
  BY Zenon DEF EnsureCommit
<1>4. F \subseteq Subject \ Drawn
  BY DEF New
<1>5. M \subseteq User \X User
  BY <1>1 DEF Job
<1> HIDE DEF n, F, M, o, w, i
<1>6. PICK c \in (IF w = "fresh" THEN F ELSE {i.subject}) :
          \E pair \in [F \ {c} -> M] : Written(c, pair)
  BY <1>3
<1>7. PICK pair \in [F \ {c} -> M] : Written(c, pair)
  BY <1>6
<1> DEFINE N == (F \ {c}) \cup (IF w = "fresh" THEN {c} ELSE {})
<1>8. N \in SUBSET (Subject \ Drawn)
  BY <1>6, <1>7, <1>4
<1>9. \A s \in F \ {c} : LET row == subject'[s] IN
          /\ row \in SubjectRow /\ row.kind = "individual" /\ row.owner \in User
          /\ row.status = IF row.user = NoUser THEN "unlinked" ELSE "linked"
  <2> SUFFICES ASSUME NEW s \in F \ {c}
               PROVE  LET row == subject'[s] IN
                      /\ row \in SubjectRow /\ row.kind = "individual" /\ row.owner \in User
                      /\ row.status = IF row.user = NoUser THEN "unlinked" ELSE "linked"
    OBVIOUS
  <2>1. subject'[s] = Row("individual", pair[s][1], pair[s][2])
    BY <1>6, <1>7, <1>4
  <2>2. pair[s] \in User \X User
    BY <1>6, <1>7, <1>5
  <2>3. pair[s][1] \in User /\ pair[s][2] \in User \cup {NoUser} /\ "individual" \in Kind
    BY <2>2 DEF Kind
  <2> QED
    BY <2>1, <2>3, RowOK
<1>10. w = "fresh" => LET row == subject'[c] IN
          /\ row \in SubjectRow /\ row.kind = "group" /\ row.owner = o
          /\ row.status = IF row.user = NoUser THEN "unlinked" ELSE "linked"
  <2> SUFFICES ASSUME w = "fresh"
               PROVE  LET row == subject'[c] IN
                      /\ row \in SubjectRow /\ row.kind = "group" /\ row.owner = o
                      /\ row.status = IF row.user = NoUser THEN "unlinked" ELSE "linked"
    OBVIOUS
  <2>1. subject'[c] = Row("group", o, NoUser)
    BY <1>6, <1>7, <1>4
  <2>2. "group" \in Kind
    BY DEF Kind
  <2> QED
    BY <1>1, <2>1, <2>2, RowOK
<1>11. \A s \in Subject \ N : subject'[s] = subject[s]
  BY <1>6, <1>7
<1>12. \A s \in N : /\ subject'[s] \in SubjectRow
                    /\ subject'[s].kind \in Kind /\ subject'[s].owner \in User
                    /\ subject'[s].status \in {"linked", "unlinked"}
                    /\ subject'[s].status = "linked" <=> subject'[s].user \in User
  <2> SUFFICES ASSUME NEW s \in N
               PROVE  /\ subject'[s] \in SubjectRow
                      /\ subject'[s].kind \in Kind /\ subject'[s].owner \in User
                      /\ subject'[s].status \in {"linked", "unlinked"}
                      /\ subject'[s].status = "linked" <=> subject'[s].user \in User
    OBVIOUS
  <2>1. /\ subject'[s] \in SubjectRow
        /\ subject'[s].kind \in {"individual", "group"} /\ subject'[s].owner \in User
        /\ subject'[s].status = IF subject'[s].user = NoUser THEN "unlinked" ELSE "linked"
    BY <1>1, <1>9, <1>10
  <2>2. subject'[s].user \in User \cup {NoUser}
    BY <2>1 DEF SubjectRow
  <2> QED
    BY <2>1, <2>2 DEF Kind
<1>13. subject' \in [Subject -> SubjectRow]
  <2>1. \A s \in Subject : subject'[s] \in SubjectRow
    BY <1>11, <1>12 DEF Inv, RowsOK, SubjectsOK
  <2> QED
    BY <1>6, <1>7, <2>1
<1>14. SubjectsOK' /\ There' = There \cup N /\ Drawn' = Drawn \cup N
  <2> HIDE DEF N
  <2> QED
    BY <1>8, <1>11, <1>12, <1>13, RowsAdded DEF Inv, RowsOK
<1>15. w # "none" => c \in There' /\ subject'[c].kind = "group" /\ subject'[c].owner = o
  <2>1. CASE w = "fresh"
    BY <1>10, <1>14, <2>1
  <2>2. CASE w = "wire"
    <3>1. c = i.subject /\ c \in There /\ subject[c].kind = "group" /\ subject[c].owner = o
      BY <1>1, <1>2, <1>6, <1>7, <2>2
    <3>2. c \notin N
      BY <1>8, <3>1 DEF There, Drawn, Kind
    <3>3. subject'[c] = subject[c] /\ c \in There'
      BY <1>11, <1>14, <3>1, <3>2 DEF There
    <3> QED
      BY <3>1, <3>3
  <2> QED
    BY <1>1, <2>1, <2>2
<1>16. \E K \in SUBSET (Subject \ Drawn) :
           /\ SubjectsOK' /\ There' = There \cup K /\ Drawn' = Drawn \cup K
           /\ \A s \in Subject \ K : subject'[s] = subject[s]
           /\ \A s \in K : subject'[s].status \in {"linked", "unlinked"}
  <2> HIDE DEF N
  <2> QED
    BY <1>8, <1>11, <1>12, <1>14
<1>17. CASE w = "none"
  BY <1>1, <1>2, <1>6, <1>7, <1>16, <1>17 DEF i, o, w
<1>18. CASE w # "none"
  BY <1>1, <1>2, <1>6, <1>7, <1>15, <1>16, <1>18 DEF i, o, w
<1> QED
  BY <1>17, <1>18

LEMMA EnsureCommitKeeps ==
  ASSUME Inv, NEW r \in Request, EnsureCommit(r)
  PROVE  Keeps(r)
<1> DEFINE o == job[r].user
           w == job[r].word
<1>1. /\ o \in User /\ UNCHANGED <<nest, asks, circle, members, active, anchor, left, calm>>
      /\ Become(r, Idle)
  BY EnsureWrites
<1>2. PICK N \in SUBSET (Subject \ Drawn) :
          /\ SubjectsOK' /\ There' = There \cup N /\ Drawn' = Drawn \cup N
          /\ \A s \in Subject \ N : subject'[s] = subject[s]
  BY EnsureWrites
<1>3. \/ w = "none" /\ UNCHANGED <<wired, carded>> /\ letGo' = letGo
      \/ /\ letGo' = letGo \ {o}
         /\ \E c \in There' : /\ subject'[c].owner = o
                              /\ wired' = [wired EXCEPT ![o] = c] /\ carded' = carded \cup {c}
  BY EnsureWrites
<1> HIDE DEF o, w
<1>4. /\ AsksOK' /\ NestOK' /\ Grows
      /\ UNCHANGED <<anchor, wired, carded>> => CardsOK'
  BY <1>1, <1>2, OthersAdded DEF Inv
<1>5. MembersOK'
  BY <1>1, <1>3 DEF Inv, RowsOK, MembersOK
<1>6. ASSUME NEW c \in There', subject'[c].owner = o, wired' = [wired EXCEPT ![o] = c],
             carded' = carded \cup {c}
      PROVE  CardsOK'
  <2>1. /\ anchor \in Drawn \cup {NoSubject} /\ wired \in [User -> There \cup {NoSubject}]
        /\ \A u \in User : wired[u] # NoSubject => subject[wired[u]].owner = u
        /\ carded \subseteq Drawn
    BY DEF Inv, RowsOK, CardsOK
  <2>2. \A s \in There : s \in There' /\ subject'[s] = subject[s]
    BY <1>2 DEF There, Drawn, Kind
  <2>3. There' \subseteq Drawn'
    BY DEF There, Drawn, Kind
  <2>4. \A u \in User : wired'[u] = IF u = o THEN c ELSE wired[u]
    BY <1>6, <2>1
  <2>5. wired' \in [User -> There' \cup {NoSubject}]
    BY <1>2, <1>6, <2>1
  <2>6. \A u \in User : wired'[u] # NoSubject => subject'[wired'[u]].owner = u
    BY <1>6, <2>1, <2>2, <2>4
  <2> QED
    BY <1>1, <1>2, <1>6, <2>1, <2>3, <2>5, <2>6 DEF CardsOK
<1>7. CardsOK'
  BY <1>1, <1>3, <1>4, <1>6
<1>8. RowsOK'
  BY <1>1, <1>2, <1>4, <1>5, <1>7 DEF Inv, RowsOK
<1> QED
  BY <1>1, <1>4, <1>8, EndKeeps

\* Rows are deleted and nothing else is written.
LEMMA DropKeeps ==
  ASSUME Inv, NEW S, DeleteRows(S),
         UNCHANGED <<asks, circle, members, active, carded, letGo, left, calm>>
  PROVE  RowsOK' /\ Grows
<1>1. SubjectsOK /\ NestOK /\ CardsOK
  BY DEF Inv, RowsOK
<1>2. /\ SubjectsOK' /\ There' = There \ S /\ Drawn' = Drawn
      /\ \A s \in Subject : s \notin S \cap There => subject'[s] = subject[s]
      /\ NestOK' /\ anchor' \in Drawn' \cup {NoSubject}
      /\ wired' \in [User -> There' \cup {NoSubject}]
      /\ \A u \in User : wired'[u] # NoSubject => subject'[wired'[u]].owner = u
  BY <1>1, RowsDeleted
<1>3. AsksOK' /\ MembersOK'
  BY <1>2 DEF Inv, RowsOK, AsksOK, MembersOK, asks
<1>4. CardsOK'
  BY <1>2 DEF Inv, RowsOK, CardsOK
<1>5. Grows
  BY <1>2 DEF Grows, There, asks
<1> QED
  BY <1>2, <1>3, <1>4, <1>5 DEF Inv, RowsOK

LEMMA DeleteKeeps ==
  ASSUME Inv, NEW r \in Request, DeleteRow(r) \/ RemoveCircleContactsForLeavingUser(r)
  PROVE  Keeps(r)
<1>1. RowsOK' /\ Grows
  BY DropKeeps DEF DeleteRow, RemoveCircleContactsForLeavingUser, Become
<1>2. Become(r, Idle)
  BY DEF DeleteRow, RemoveCircleContactsForLeavingUser
<1> QED
  BY <1>1, <1>2, EndKeeps

LEMMA TeardownKeeps ==
  ASSUME Inv, NEW r \in Request, RemoveAllCircleContacts(r)
  PROVE  Keeps(r)
<1>1. /\ job[r].step = "teardown" /\ DeleteRows(CardsOf(User)) /\ Goto(r, "deleteCircle")
      /\ UNCHANGED <<asks, circle, members, active, carded, letGo, left, calm>>
  BY DEF RemoveAllCircleContacts, At, Goto, Become
<1>2. RowsOK' /\ Grows
  BY <1>1, DropKeeps
<1>3. PICK j \in Job : job' = [job EXCEPT ![r] = j] /\ j.step = "deleteCircle"
  BY <1>1, GotoJob DEF Inv, Step
<1>4. Holds(j) /\ Asked(j) /\ Refers(j)'
  BY <1>3 DEF Holds, Asked, Refers
<1>5. ASSUME Sound, Fresh(job[r]) PROVE Fresh(j)'
  <2>1. members' = {}
    BY <1>1, <1>5 DEF Fresh
  <2>2. ASSUME NEW s \in carded', subject'[s].kind = "group" PROVE FALSE
    <3>1. /\ There' = There \ CardsOf(User)
          /\ \A t \in Subject : t \notin CardsOf(User) \cap There => subject'[t] = subject[t]
          /\ \A t \in CardsOf(User) \cap There : subject'[t].kind = "gone"
      BY <1>1, RowsDeleted DEF Inv, RowsOK
    <3>2. s \in Subject /\ s \in carded
      BY <1>1, <2>2 DEF Inv, RowsOK, CardsOK, Drawn
    <3>3. s \notin CardsOf(User) /\ subject[s].kind = "group" /\ s \in There
      BY <2>2, <3>1, <3>2 DEF There, Kind, CardsOf
    <3>4. wired[subject[s].owner] = s
      BY <1>5, <3>2, <3>3 DEF Sound, CardsSeen
    <3>5. subject[s].owner \in User
      BY <3>3 DEF Inv, RowsOK, SubjectsOK
    <3> QED
      BY <3>3, <3>4, <3>5 DEF CardsOf
  <2> QED
    BY <1>3, <2>1, <2>2 DEF Fresh
<1> QED
  BY <1>2, <1>3, <1>4, <1>5 DEF Keeps

LEMMA DeleteCircleKeeps ==
  ASSUME Inv, NEW r \in Request, DeleteCircle(r)
  PROVE  Keeps(r)
<1>1. /\ circle' = "gone" /\ members' = {} /\ active' = {}
      /\ wired' = [u \in User |-> NoSubject] /\ anchor' = NoSubject /\ Become(r, Idle)
      /\ UNCHANGED <<subject, nest, asks, carded, letGo, left, calm>>
  BY DEF DeleteCircle, Become
<1>2. There' = There /\ Drawn' = Drawn
  BY <1>1 DEF There, Drawn
<1>3. CardsOK'
  BY <1>1, <1>2 DEF Inv, RowsOK, CardsOK
<1>4. MembersOK'
  BY <1>1 DEF Inv, RowsOK, MembersOK
<1>5. RowsOK'
  BY <1>1, <1>2, <1>3, <1>4 DEF Inv, RowsOK, SubjectsOK, AsksOK, NestOK, asks
<1>6. Grows
  BY <1>1, SameGrows DEF asks
<1> QED
  BY <1>1, <1>5, <1>6, EndKeeps

-----------------------------------------------------------------------------
(* Every step *)

\* A statement, or a transaction, of a request under way.
Statement(r) ==
    \/ \E s \in Subject : Card(r, s)
    \/ \E a \in Ask : AskRowInsert(r, a)
    \/ UpdateCommit(r) \/ DeleteRow(r) \/ NestRow(r)
    \/ AskMark(r) \/ Answer(r) \/ AnswerMark(r) \/ Unlink(r)
    \/ Anchor(r) \/ EnsureCircleContactsForUser(r) \/ EnsureCommit(r)
    \/ RemoveCircleContactsForLeavingUser(r) \/ RemoveAllCircleContacts(r) \/ DeleteCircle(r)

Arrive(r) ==
    \/ \E s \in Subject : Update(r, s)
    \/ \E a \in Ask, word \in {"accepted", "declined"} : RespondToConnectionRequest(r, a, word)
    \/ \E u \in User : CreateGroup(r, u) \/ Admit(r, u) \/ RemoveUserFromGroup(r, u)
    \/ DeleteGroup(r)

Elsewhere ==
    \/ \E s \in Subject, kind \in Kind, u \in User, v \in User \cup {NoUser} :
          CreatePrayerSubject(s, kind, u, v)
    \/ \E p \in nest : RemoveMemberFromSubject(p)
    \/ \E u \in User : ArchiveOrRestore(u) \/ DeleteUserAccount(u)

LEMMA Kinds ==
  Next <=> \/ \E r \in Request : Statement(r) \/ Arrive(r) \/ Abandon(r) \/ GoOn(r)
           \/ Elsewhere
  BY DEF Next, Statement, Arrive, Elsewhere, AddUserToGroup, JoinGroup

LEMMA StatementKeeps ==
  ASSUME Inv, NEW r \in Request, Statement(r)
  PROVE  Keeps(r)
<1>1. CASE UpdateCommit(r)
  <2>1. job[r].step = "retype" \/ job[r].step = "relink"
    BY <1>1 DEF UpdateCommit, At
  <2> QED
    BY <1>1, <2>1, RetypeKeeps, RelinkKeeps
<1>2. CASE AskMark(r) \/ AnswerMark(r) \/ Unlink(r)
  BY <1>2, RelinkKeeps
<1> QED
  BY <1>1, <1>2, CardKeeps, AskKeeps, DeleteKeeps, NestKeeps, AnswerKeeps, AnchorKeeps, EnsureKeeps,
     EnsureCommitKeeps, TeardownKeeps, DeleteCircleKeeps DEF Statement

LEMMA ArriveKeeps ==
  ASSUME Inv, NEW r \in Request, Arrive(r)
  PROVE  Keeps(r)
  BY UpdateKeeps, RespondKeeps, CircleStartKeeps, DeleteGroupKeeps DEF Arrive, Inv

LEMMA CreateKeeps ==
  ASSUME Inv, NEW s \in Subject, NEW kind \in Kind, NEW u \in User, NEW v \in User \cup {NoUser},
         CreatePrayerSubject(s, kind, u, v)
  PROVE  /\ RowsOK' /\ Grows /\ UNCHANGED <<nest, asks, circles, job>>
         /\ s \notin Drawn /\ \A t \in Subject : t # s => subject'[t] = subject[t]
         /\ There' = There \cup {s} /\ subject'[s].status \in {"linked", "unlinked"}
<1>1. /\ s \notin Drawn /\ subject' = [subject EXCEPT ![s] = Row(kind, u, v)]
      /\ UNCHANGED <<nest, asks, circles, job>>
  BY DEF CreatePrayerSubject, New, AtOnce
<1>2. calm' \in BOOLEAN
  <2>1. calm' = (calm /\ \A q \in Request : job[q] = Idle)
    BY Zenon DEF CreatePrayerSubject, AtOnce
  <2> QED
    BY <2>1, Zenon DEF Inv, RowsOK
<1>3. /\ SubjectsOK' /\ There' = There \cup {s} /\ Drawn' = Drawn \cup {s}
      /\ \A t \in Subject : t # s => subject'[t] = subject[t]
      /\ subject'[s].status \in {"linked", "unlinked"}
  BY <1>1, OneAdded DEF Inv, RowsOK
<1>4. AsksOK' /\ NestOK' /\ Grows /\ CardsOK'
  <2>1. /\ {s} \in SUBSET (Subject \ Drawn) /\ \A t \in Subject \ {s} : subject'[t] = subject[t]
        /\ UNCHANGED <<nest, asks, anchor, wired, carded>>
    BY <1>1, <1>3 DEF circles
  <2> QED
    BY <1>3, <2>1, OthersAdded DEF Inv
<1> QED
  BY <1>1, <1>2, <1>3, <1>4 DEF Inv, RowsOK, MembersOK, circles

LEMMA ElsewhereKeeps ==
  ASSUME Inv, Elsewhere
  PROVE  /\ RowsOK' /\ Grows /\ UNCHANGED <<job, asks>>
         /\ calm' => calm /\ \A q \in Request : job[q] = Idle
<1>1. calm' = (calm /\ \A q \in Request : job[q] = Idle)
  BY Zenon DEF Elsewhere, CreatePrayerSubject, RemoveMemberFromSubject, ArchiveOrRestore,
     DeleteUserAccount, AtOnce
<1>2. calm' \in BOOLEAN /\ (calm' => calm /\ \A q \in Request : job[q] = Idle)
  BY <1>1, Zenon DEF Inv, RowsOK
<1>3. ASSUME UNCHANGED <<subject, asks, circle, anchor, wired, carded>>, nest' \subseteq nest,
             MembersOK'
      PROVE  RowsOK' /\ Grows
  <2>1. There' = There /\ Drawn' = Drawn
    BY <1>3 DEF There, Drawn
  <2>2. Grows
    BY <1>3, SameGrows DEF asks
  <2> QED
    BY <1>2, <1>3, <2>1, <2>2 DEF Inv, RowsOK, SubjectsOK, AsksOK, NestOK, CardsOK, asks
<1>4. ASSUME NEW s \in Subject, NEW kind \in Kind, NEW u \in User, NEW v \in User \cup {NoUser},
             CreatePrayerSubject(s, kind, u, v)
      PROVE  RowsOK' /\ Grows /\ UNCHANGED <<job, asks>>
  BY <1>4, CreateKeeps
<1>5. ASSUME NEW p \in nest, RemoveMemberFromSubject(p)
      PROVE  RowsOK' /\ Grows /\ UNCHANGED <<job, asks>>
  BY <1>3, <1>5 DEF RemoveMemberFromSubject, AtOnce, circles, Inv, RowsOK, MembersOK
<1>6. ASSUME NEW u \in User, ArchiveOrRestore(u) \/ DeleteUserAccount(u)
      PROVE  RowsOK' /\ Grows /\ UNCHANGED <<job, asks>>
  BY <1>3, <1>6 DEF ArchiveOrRestore, DeleteUserAccount, AtOnce, Inv, RowsOK, MembersOK
<1> QED
  BY <1>2, <1>4, <1>5, <1>6 DEF Elsewhere

LEMMA FailKeeps ==
  ASSUME Inv, NEW r \in Request, Abandon(r) \/ GoOn(r)
  PROVE  /\ RowsOK' /\ Grows /\ UNCHANGED <<subject, nest, asks, circles>> /\ calm' = FALSE
         /\ \E j \in Job : /\ job' = [job EXCEPT ![r] = j] /\ Holds(j) /\ Asked(j) /\ Refers(j)'
<1>1. UNCHANGED <<subject, nest, asks, circles>> /\ calm' = FALSE
  BY DEF Abandon, GoOn
<1>2. There' = There /\ Drawn' = Drawn
  BY <1>1 DEF There, Drawn
<1>3. RowsOK'
  BY <1>1, <1>2 DEF Inv, RowsOK, SubjectsOK, AsksOK, NestOK, MembersOK, CardsOK, asks, circles
<1>4. Grows
  BY <1>1, SameGrows DEF asks
<1>5. CASE Abandon(r)
  <2>1. job' = [job EXCEPT ![r] = Idle]
    BY <1>5 DEF Abandon
  <2> QED
    BY <1>1, <1>3, <1>4, <2>1, IdleOK, IdleNext
<1>6. CASE GoOn(r)
  <2>1. PICK x \in {"ensure", "deleteCircle"} :
            /\ job' = [job EXCEPT ![r].step = x]
            /\ x = "ensure" => job[r].step \in {"card", "anchor"}
    BY <1>6 DEF GoOn, At
  <2>2. PICK j \in Job : job' = [job EXCEPT ![r] = j] /\ j.step = x /\ j.user = job[r].user
    <3>1. x \in Step /\ JobsOK
      BY DEF Inv, Step
    <3>2. \E j \in Job : /\ job' = [job EXCEPT ![r] = j] /\ j.step = x
                         /\ j.user = job[r].user /\ j.subject = job[r].subject
                         /\ j.ask = job[r].ask /\ j.word = job[r].word
      BY <2>1, <3>1, GotoJob
    <3> QED
      BY <3>2
  <2>3. x = "ensure" => j.user \in User
    BY <2>1, <2>2 DEF Inv, JobsOK, Holds
  <2>4. Holds(j) /\ Asked(j) /\ Refers(j)'
    BY <2>2, <2>3 DEF Holds, Asked, Refers
  <2> QED
    BY <1>1, <1>3, <1>4, <2>2, <2>4
<1> QED
  BY <1>5, <1>6

LEMMA InvInit == Init => Inv
<1> SUFFICES ASSUME Init PROVE Inv
  OBVIOUS
<1>1. Undrawn \in SubjectRow /\ Undrawn.kind = "undrawn"
  BY DEF Undrawn, SubjectRow
<1>2. NoAskRow \in AskRow /\ NoAskRow.status = "undrawn"
  BY DEF NoAskRow, AskRow
<1>3. \A s \in Subject : subject[s].kind = "undrawn"
  BY <1>1 DEF Init
<1>4. There = {} /\ Drawn = {}
  BY <1>3 DEF There, Drawn, Kind
<1>5. SubjectsOK
  BY <1>1, <1>4 DEF Init, SubjectsOK
<1>6. AsksOK
  BY <1>2 DEF Init, AsksOK
<1>7. NestOK /\ MembersOK /\ CardsOK
  BY DEF Init, NestOK, MembersOK, CardsOK
<1>8. JobsOK
  BY IdleOK DEF Init, JobsOK
<1> QED
  BY <1>5, <1>6, <1>7, <1>8 DEF Init, Inv, RowsOK

LEMMA InvNext == Inv /\ [Next]_vars => Inv'
<1> SUFFICES ASSUME Inv, [Next]_vars PROVE Inv'
  OBVIOUS
<1>1. ASSUME NEW r \in Request, Statement(r) \/ Arrive(r) PROVE Inv'
  <2>1. Keeps(r)
    BY <1>1, StatementKeeps, ArriveKeeps
  <2>2. PICK j \in Job : job' = [job EXCEPT ![r] = j] /\ Holds(j) /\ Refers(j)'
    BY <2>1 DEF Keeps
  <2> QED
    BY <2>1, <2>2, PutJob DEF Inv, Keeps
<1>2. ASSUME NEW r \in Request, Abandon(r) \/ GoOn(r) PROVE Inv'
  <2>1. PICK j \in Job : job' = [job EXCEPT ![r] = j] /\ Holds(j) /\ Refers(j)'
    BY <1>2, FailKeeps
  <2> QED
    BY <1>2, <2>1, FailKeeps, PutJob DEF Inv
<1>3. ASSUME Elsewhere PROVE Inv'
  BY <1>3, ElsewhereKeeps, KeepJobs DEF Inv
<1>4. ASSUME UNCHANGED vars PROVE Inv'
  <2>1. There' = There /\ Drawn' = Drawn /\ Grows
    BY <1>4, SameGrows DEF There, Drawn, vars, asks
  <2> QED
    BY <1>4, <2>1, KeepJobs
    DEF vars, Inv, RowsOK, SubjectsOK, AsksOK, NestOK, MembersOK, CardsOK, asks, circles
<1> QED
  BY <1>1, <1>2, <1>3, <1>4, Kinds

LEMMA InvAlways == Spec => []Inv
  BY InvInit, InvNext, PTL DEF Spec

\* However requests overlap and whatever fails: a contact names a user exactly when
\* it is linked or waits to be, members and cards are rows that are there, a card is
\* wired by its owner, and a request that is pending or answered is of a contact
\* that was created.
THEOREM TypeCorrect == Spec => []TypeOK
<1>1. Inv => TypeOK
  BY DEF Inv, RowsOK, SubjectsOK, AsksOK, NestOK, MembersOK, CardsOK, JobsOK, TypeOK
<1> QED
  BY <1>1, InvAlways, PTL

-----------------------------------------------------------------------------
(* Answers *)

LEMMA AnsweringCounted ==
  ASSUME NEW S \in SUBSET Request, NEW T \in SUBSET S
  PROVE  /\ Cardinality(T) \in Nat /\ Cardinality(S) \in Nat /\ Cardinality(T) <= Cardinality(S)
         /\ \A r \in S : Cardinality(S \ {r}) = Cardinality(S) - 1
<1>1. IsFiniteSet(S)
  BY RequestAssumption, FS_Subset
<1>2. IsFiniteSet(T) /\ Cardinality(T) <= Cardinality(S)
  BY <1>1, FS_Subset
<1>3. Cardinality(T) \in Nat /\ Cardinality(S) \in Nat
  BY <1>1, <1>2, FS_CardinalityType
<1>4. \A r \in S : Cardinality(S \ {r}) = Cardinality(S) - 1
  BY <1>1, FS_RemoveElement
<1> QED
  BY <1>2, <1>3, <1>4

\* A slot that goes on to another step, or takes up a request that is pending.
LEMMA AnswersStay ==
  ASSUME Inv, AnswersCounted, NEW r \in Request, NEW j \in Job, job' = [job EXCEPT ![r] = j],
         Asked(j), UNCHANGED answers,
         \A a \in Ask : ask'[a].status \in {"undrawn", "pending"}
                            => ask[a].status \in {"undrawn", "pending"}
  PROVE  AnswersCounted'
<1> SUFFICES ASSUME NEW a \in Ask
             PROVE  answers[a] + Cardinality(Answering(a)') <= Cardinality(Request)
  BY DEF AnswersCounted
<1>1. /\ answers[a] \in Nat /\ answers[a] + Cardinality(Answering(a)) <= Cardinality(Request)
      /\ ask[a].status = "pending" => answers[a] = 0
  BY DEF Inv, RowsOK, AsksOK, AnswersCounted
<1>2. \A q \in Request : job'[q] = IF q = r THEN j ELSE job[q]
  BY DEF Inv, JobsOK
<1>3. Answering(a) \in SUBSET Request /\ Answering(a)' \in SUBSET Request
  BY DEF Answering
<1>4. CASE j.step = "answer" /\ j.ask = a
  <2>1. answers[a] = 0
    BY <1>1, <1>4 DEF Asked
  <2>2. Cardinality(Answering(a)') \in Nat /\ Cardinality(Answering(a)') <= Cardinality(Request)
    BY <1>3, AnsweringCounted
  <2> QED
    BY <2>1, <2>2
<1>5. CASE ~(j.step = "answer" /\ j.ask = a)
  <2>1. Answering(a)' \in SUBSET Answering(a)
    BY <1>2, <1>5 DEF Answering
  <2>2. /\ Cardinality(Answering(a)') \in Nat /\ Cardinality(Answering(a)) \in Nat
        /\ Cardinality(Answering(a)') <= Cardinality(Answering(a))
        /\ Cardinality(Request) \in Nat
    BY <1>3, <2>1, AnsweringCounted
  <2> QED
    BY <1>1, <2>2
<1> QED
  BY <1>4, <1>5

LEMMA AnswerCounted ==
  ASSUME Inv, AnswersCounted, NEW r \in Request, Answer(r), job[r].subject \in There
  PROVE  AnswersCounted'
<1>1. PICK b \in Ask : b = job[r].ask
  BY AnswerWrites
<1>2. /\ b = job[r].ask /\ job[r].step = "answer"
      /\ ask'[b].status \in {"accepted", "declined"} /\ answers'[b] = answers[b] + 1
      /\ \A a \in Ask : a # b => ask'[a] = ask[a] /\ answers'[a] = answers[a]
  BY <1>1, AnswerWrites
<1>3. PICK j \in Job : job' = [job EXCEPT ![r] = j] /\ j.step = "answerMark"
  BY AnswerWrites, GotoJob DEF Inv, Step
<1>4. \A q \in Request : job'[q] = IF q = r THEN j ELSE job[q]
  BY <1>3 DEF Inv, JobsOK
<1>5. \A a \in Ask : Answering(a)' = Answering(a) \ {r} /\ (a # b => r \notin Answering(a))
  BY <1>2, <1>3, <1>4 DEF Answering
<1>6. r \in Answering(b)
  BY <1>2 DEF Answering
<1>7. SUFFICES ASSUME NEW a \in Ask
               PROVE  /\ ask'[a].status \in {"undrawn", "pending"} => answers'[a] = 0
                      /\ answers'[a] + Cardinality(Answering(a)') <= Cardinality(Request)
  BY DEF AnswersCounted
<1>8. /\ answers[a] \in Nat /\ answers[a] + Cardinality(Answering(a)) <= Cardinality(Request)
      /\ ask[a].status \in {"undrawn", "pending"} => answers[a] = 0
  BY DEF Inv, RowsOK, AsksOK, AnswersCounted
<1>9. CASE a = b
  <2>1. Cardinality(Answering(b)') = Cardinality(Answering(b)) - 1
        /\ Cardinality(Answering(b)) \in Nat /\ Cardinality(Request) \in Nat
    <3>1. Answering(b) \in SUBSET Request
      BY DEF Answering
    <3>2. Answering(b)' = Answering(b) \ {r}
      BY <1>2, <1>5
    <3> QED
      BY <1>6, <3>1, <3>2, AnsweringCounted
  <2> QED
    BY <1>2, <1>8, <1>9, <2>1
<1>10. CASE a # b
  <2>1. Answering(a)' = Answering(a)
    BY <1>5, <1>10
  <2> QED
    BY <1>2, <1>8, <1>10, <2>1
<1> QED
  BY <1>9, <1>10

LEMMA AnswersInit == Init => AnswersCounted
<1> SUFFICES ASSUME Init PROVE AnswersCounted
  OBVIOUS
<1> SUFFICES ASSUME NEW a \in Ask PROVE answers[a] + Cardinality(Answering(a)) <= Cardinality(Request)
  BY DEF Init, AnswersCounted
<1>1. Answering(a) = {}
  BY IdleOK DEF Init, Answering
<1>2. Cardinality({}) = 0 /\ Cardinality(Request) \in Nat
  BY FS_EmptySet, AnsweringCounted
<1> QED
  BY <1>1, <1>2 DEF Init

\* What a statement that answers nothing does to connection requests.
LEMMA AsksOtherwise ==
  ASSUME Inv, NEW r \in Request, Statement(r) \/ Arrive(r), ~(Answer(r) /\ job[r].subject \in There)
  PROVE  /\ UNCHANGED answers
         /\ \A a \in Ask : ask'[a] = ask[a] \/ ask[a].status = "undrawn"
<1>1. ASSUME NEW a \in Ask, AskRowInsert(r, a)
      PROVE  UNCHANGED answers /\ \A b \in Ask : ask'[b] = ask[b] \/ ask[b].status = "undrawn"
  BY <1>1, AskWrites
<1>2. ASSUME Answer(r) PROVE UNCHANGED asks
  BY <1>2 DEF Answer
<1>3. ASSUME NEW s \in Subject, Update(r, s) PROVE UNCHANGED asks
  BY <1>3 DEF Update, UpdateKind, UpdateLink, DeletePrayerSubject, AddMemberToSubject,
              SendConnectionRequest, RemovePrayerSubjectLink
<1>4. ASSUME Arrive(r) PROVE UNCHANGED asks
  BY <1>3, <1>4 DEF Arrive, RespondToConnectionRequest, CreateGroup, Admit, RemoveUserFromGroup,
                    DeleteGroup
<1>5. ASSUME Statement(r), ~Answer(r), \A a \in Ask : ~AskRowInsert(r, a) PROVE UNCHANGED asks
  BY <1>5 DEF Statement, Card, UpdateCommit, DeleteRow, NestRow, AskMark, AnswerMark, Unlink, Anchor,
              EnsureCircleContactsForUser, EnsureCommit, RemoveCircleContactsForLeavingUser,
              RemoveAllCircleContacts, DeleteCircle
<1>6. UNCHANGED asks => UNCHANGED <<ask, answers>>
  BY DEF asks
<1> QED
  BY <1>1, <1>2, <1>4, <1>5, <1>6

LEMMA AnswersNext == Inv /\ AnswersCounted /\ [Next]_vars => AnswersCounted'
<1> SUFFICES ASSUME Inv, AnswersCounted, [Next]_vars PROVE AnswersCounted'
  OBVIOUS
<1>1. ASSUME NEW r \in Request, Statement(r) \/ Arrive(r) PROVE AnswersCounted'
  <2>1. CASE Answer(r) /\ job[r].subject \in There
    BY <2>1, AnswerCounted
  <2>2. CASE ~(Answer(r) /\ job[r].subject \in There)
    <3>1. PICK j \in Job : job' = [job EXCEPT ![r] = j] /\ Asked(j)
      BY <1>1, StatementKeeps, ArriveKeeps DEF Keeps
    <3>2. /\ UNCHANGED answers
          /\ \A a \in Ask : ask'[a] = ask[a] \/ ask[a].status = "undrawn"
      BY <1>1, <2>2, AsksOtherwise
    <3> QED
      BY <3>1, <3>2, AnswersStay
  <2> QED
    BY <2>1, <2>2
<1>2. ASSUME NEW r \in Request, Abandon(r) \/ GoOn(r) PROVE AnswersCounted'
  <2>1. PICK j \in Job : job' = [job EXCEPT ![r] = j] /\ Asked(j)
    BY <1>2, FailKeeps
  <2>2. UNCHANGED <<ask, answers>>
    BY <1>2, FailKeeps DEF asks
  <2> QED
    BY <2>1, <2>2, AnswersStay
<1>3. ASSUME UNCHANGED <<job, asks>> PROVE AnswersCounted'
  BY <1>3 DEF AnswersCounted, Answering, asks
<1>4. UNCHANGED vars => UNCHANGED <<job, asks>>
  BY DEF vars
<1> QED
  BY <1>1, <1>2, <1>3, <1>4, Kinds, ElsewhereKeeps

LEMMA AnswersAlways == Spec => [](Inv /\ AnswersCounted)
  BY InvInit, InvNext, AnswersInit, AnswersNext, PTL DEF Spec

-----------------------------------------------------------------------------
(* Rows while requests do not overlap *)

\* Only the request that takes the step is under way, and what it has seen is so.
Undivided(r) == Sound /\ Fresh(job[r]) /\ \A q \in Request : q # r => job[q] = Idle

LEMMA OnlyStep ==
  ASSUME NEW r \in Request, Undivided(r)
  PROVE  /\ WaitersSeen /\ Childless /\ MembersSeen /\ CardsSeen
         /\ \A q \in Request : q # r => job[q].step = "idle"
  BY IdleOK DEF Undivided, Sound

LEMMA WaitersStay ==
  ASSUME WaitersSeen, \A q \in Request : job[q].step # "answerMark",
         \A s \in There' : subject'[s].status = "pending" =>
             /\ s \in There /\ subject[s].status = "pending"
             /\ subject'[s].user = subject[s].user /\ subject'[s].owner = subject[s].owner,
         \A a \in Ask : ask[a].status # "undrawn" => ask'[a] = ask[a]
  PROVE  WaitersSeen'
<1> SUFFICES ASSUME NEW s \in There', subject'[s].status = "pending"
             PROVE  Pending(s, subject[s].user)'
  BY DEF WaitersSeen
<1>1. /\ s \in There /\ subject[s].status = "pending"
      /\ subject'[s].user = subject[s].user /\ subject'[s].owner = subject[s].owner
  OBVIOUS
<1>2. Pending(s, subject[s].user)
  BY <1>1 DEF WaitersSeen, Marking
<1>3. PICK a \in Ask : ask[a] = [status |-> "pending", from |-> subject[s].owner,
                                 to |-> subject[s].user, subject |-> s]
  BY <1>2 DEF Pending
<1>4. ask'[a] = ask[a]
  BY <1>3
<1> QED
  BY <1>1, <1>3, <1>4 DEF Pending

LEMMA ChildlessStay ==
  ASSUME Childless, nest' \subseteq nest, \A p \in nest' : subject'[p[1]].kind = subject[p[1]].kind
  PROVE  Childless'
  BY DEF Childless

LEMMA MembersStay ==
  ASSUME MembersSeen,
         \A q \in Request : job[q].step \notin {"card", "anchor", "ensure", "ensureCommit"},
         members' \subseteq members, letGo \subseteq letGo',
         \A u \in members' \ letGo' : wired'[u] = wired[u]
  PROVE  MembersSeen'
  BY DEF MembersSeen, Wiring

LEMMA CardsStay ==
  ASSUME CardsSeen, \A q \in Request : job[q].step \notin {"leave", "teardown"},
         carded' \subseteq carded, members \cup left \subseteq members' \cup left', UNCHANGED wired,
         \A s \in carded' : subject'[s].kind = subject[s].kind /\ subject'[s].owner = subject[s].owner
  PROVE  CardsSeen'
  BY DEF CardsSeen, Leaving

LEMMA RelinkSound ==
  ASSUME Inv, NEW r \in Request, Undivided(r), \/ UpdateCommit(r) /\ job[r].step = "relink"
                                               \/ AskMark(r) \/ AnswerMark(r) \/ Unlink(r)
  PROVE  Sound'
<1>1. /\ UNCHANGED <<nest, ask, members, wired, carded, letGo, left>>
      /\ \A t \in Subject :
             subject'[t].kind = subject[t].kind /\ subject'[t].owner = subject[t].owner
  BY RelinkWrites DEF asks, circles
<1>2. job[r].step \in {"relink", "askMark", "answerMark", "unlink"}
  BY DEF AskMark, AnswerMark, Unlink, At
<1>3. ASSUME NEW s \in There', subject'[s].status = "pending"
      PROVE  Pending(s, subject[s].user)'
  <2>1. s \in There /\ s \in Subject
    BY RelinkWrites DEF There
  <2>2. CASE s = job[r].subject
    <3>1. job[r].step = "askMark" /\ subject'[s].user = job[r].user
      BY <1>3, <2>1, <2>2, RelinkWrites
    <3>2. Pending(s, job[r].user)
      BY <2>1, <2>2, <3>1 DEF Undivided, Fresh
    <3>3. PICK a \in Ask : ask[a] = [status |-> "pending", from |-> subject[s].owner,
                                     to |-> job[r].user, subject |-> s]
      BY <3>2 DEF Pending
    <3> QED
      BY <1>1, <2>1, <3>1, <3>3 DEF Pending
  <2>3. CASE s # job[r].subject
    <3>1. subject'[s].user = subject[s].user /\ subject'[s].status = subject[s].status
      BY <2>1, <2>3, RelinkWrites
    <3>2. ~Marking(s)
      BY <2>3, OnlyStep DEF Marking
    <3>3. Pending(s, subject[s].user)
      BY <1>3, <2>1, <3>1, <3>2, OnlyStep DEF WaitersSeen
    <3>4. PICK a \in Ask : ask[a] = [status |-> "pending", from |-> subject[s].owner,
                                     to |-> subject[s].user, subject |-> s]
      BY <3>3 DEF Pending
    <3> QED
      BY <1>1, <2>1, <3>1, <3>4 DEF Pending
  <2> QED
    BY <2>2, <2>3
<1>4. Childless'
  BY <1>1, OnlyStep, ChildlessStay DEF Inv, RowsOK, NestOK, There
<1>5. MembersSeen'
  BY <1>1, <1>2, OnlyStep, MembersStay
<1>6. CardsSeen'
  BY <1>1, <1>2, OnlyStep, CardsStay DEF Inv, RowsOK, CardsOK, Drawn
<1> QED
  BY <1>3, <1>4, <1>5, <1>6 DEF Sound, WaitersSeen

LEMMA RetypeSound ==
  ASSUME Inv, NEW r \in Request, Undivided(r), UpdateCommit(r), job[r].step = "retype"
  PROVE  Sound'
<1> DEFINE x == job[r].subject
           k == job[r].word
<1>1. /\ UNCHANGED <<nest, ask, members, wired, letGo, left>> /\ There' = There /\ k \in Kind
      /\ carded' = (IF k = "group" THEN carded ELSE carded \ {x})
      /\ \A t \in Subject :
             /\ subject'[t].owner = subject[t].owner /\ subject'[t].user = subject[t].user
             /\ subject'[t].status = subject[t].status
             /\ subject'[t].kind = IF t = x /\ t \in There THEN k ELSE subject[t].kind
  BY RetypeWrites DEF asks
<1>2. k = "individual" => \A p \in nest : p[1] # x
  BY DEF Undivided, Fresh
<1> HIDE DEF x, k
<1>3. WaitersSeen'
  BY <1>1, OnlyStep, WaitersStay DEF There
<1>4. Childless'
  BY <1>1, <1>2, OnlyStep DEF Childless, Inv, RowsOK, NestOK, There
<1>5. MembersSeen'
  BY <1>1, OnlyStep, MembersStay
<1>6. CardsSeen'
  <2>1. \A s \in carded' : s \in carded /\ subject'[s].kind = subject[s].kind
    <3> SUFFICES ASSUME NEW s \in carded' PROVE s \in carded /\ subject'[s].kind = subject[s].kind
      OBVIOUS
    <3>1. s \in carded /\ s \in Subject /\ (s = x => k = "group")
      BY <1>1 DEF Inv, RowsOK, CardsOK, Drawn
    <3>2. subject[s].kind \in {"group", "gone"}
      BY <3>1, OnlyStep DEF CardsSeen
    <3> QED
      BY <1>1, <3>1, <3>2 DEF There, Kind
  <2>2. \A s \in carded' : subject'[s].owner = subject[s].owner
    BY <1>1, <2>1 DEF Inv, RowsOK, CardsOK, Drawn
  <2> QED
    BY <1>1, <2>1, <2>2, OnlyStep, CardsStay
<1> QED
  BY <1>3, <1>4, <1>5, <1>6 DEF Sound

LEMMA NestSound ==
  ASSUME Inv, NEW r \in Request, Undivided(r), NestRow(r)
  PROVE  Sound'
<1>1. /\ job[r].step = "nest" /\ nest' = nest \cup {<<job[r].subject, job[r].other>>}
      /\ UNCHANGED <<subject, ask, members, wired, carded, letGo, left>>
  BY DEF NestRow, At, asks, circles
<1>2. subject[job[r].subject].kind # "individual"
  BY <1>1 DEF Undivided, Fresh
<1>3. There' = There
  BY <1>1 DEF There
<1>4. WaitersSeen'
  BY <1>1, <1>3, OnlyStep, WaitersStay
<1>5. Childless'
  BY <1>1, <1>2, OnlyStep DEF Childless
<1>6. MembersSeen'
  BY <1>1, OnlyStep, MembersStay
<1>7. CardsSeen'
  BY <1>1, OnlyStep, CardsStay
<1> QED
  BY <1>4, <1>5, <1>6, <1>7 DEF Sound

LEMMA AskSound ==
  ASSUME Inv, NEW r \in Request, Undivided(r), NEW a \in Ask, AskRowInsert(r, a)
  PROVE  Sound'
<1>1. /\ job[r].step = "ask" /\ UNCHANGED <<subject, nest, members, wired, carded, letGo, left>>
      /\ \A b \in Ask : ask[b].status # "undrawn" => ask'[b] = ask[b]
  BY AskWrites DEF AskRowInsert, At, circles
<1>2. There' = There
  BY <1>1 DEF There
<1>3. WaitersSeen'
  BY <1>1, <1>2, OnlyStep, WaitersStay
<1>4. Childless'
  BY <1>1, OnlyStep, ChildlessStay
<1>5. MembersSeen'
  BY <1>1, OnlyStep, MembersStay
<1>6. CardsSeen'
  BY <1>1, OnlyStep, CardsStay
<1> QED
  BY <1>3, <1>4, <1>5, <1>6 DEF Sound

\* Until the contact is marked, the answer under way says whom it no longer waits for.
LEMMA AnswerSound ==
  ASSUME Inv, NEW r \in Request, Undivided(r), Answer(r)
  PROVE  Sound'
<1>1. /\ job[r].step = "answer" /\ job[r].ask \in Ask
      /\ \A b \in Ask : b # job[r].ask => ask'[b] = ask[b]
      /\ UNCHANGED <<subject, nest, members, wired, carded, letGo, left>>
  BY AnswerWrites DEF circles
<1>2. ask[job[r].ask].subject = job[r].subject
  BY <1>1 DEF Undivided, Fresh
<1>3. job'[r].step = "answerMark" /\ job'[r].subject = job[r].subject
  BY AnswerWrites, GotoJob DEF Inv, JobsOK, Step
<1>4. ASSUME NEW s \in There', subject'[s].status = "pending"
      PROVE  Pending(s, subject[s].user)' \/ Marking(s)'
  <2>1. s \in There /\ subject[s].status = "pending"
    BY <1>1, <1>4 DEF There
  <2>2. Pending(s, subject[s].user)
    BY <1>1, <2>1, OnlyStep DEF WaitersSeen, Marking
  <2>3. PICK a \in Ask : ask[a] = [status |-> "pending", from |-> subject[s].owner,
                                   to |-> subject[s].user, subject |-> s]
    BY <2>2 DEF Pending
  <2>4. CASE a = job[r].ask
    BY <1>2, <1>3, <2>3, <2>4 DEF Marking
  <2>5. CASE a # job[r].ask
    BY <1>1, <2>3, <2>5 DEF Pending
  <2> QED
    BY <2>4, <2>5
<1>5. Childless'
  BY <1>1, OnlyStep, ChildlessStay
<1>6. MembersSeen'
  BY <1>1, OnlyStep, MembersStay
<1>7. CardsSeen'
  BY <1>1, OnlyStep, CardsStay
<1> QED
  BY <1>4, <1>5, <1>6, <1>7 DEF Sound, WaitersSeen

\* Contacts are added: no one waits for the new ones, and those that were there stay.
LEMMA AddedSound ==
  ASSUME Inv, WaitersSeen, Childless, \A q \in Request : job[q].step # "answerMark",
         NEW N \in SUBSET (Subject \ Drawn), There' = There \cup N,
         \A s \in Subject \ N : subject'[s] = subject[s],
         \A s \in N : subject'[s].status \in {"linked", "unlinked"}, UNCHANGED <<nest, ask>>
  PROVE  /\ WaitersSeen' /\ Childless'
         /\ \A s \in Drawn : subject'[s] = subject[s]
<1>1. \A s \in Drawn : subject'[s] = subject[s]
  BY DEF Drawn
<1>2. There \subseteq Drawn
  BY DEF There, Drawn, Kind
<1>3. WaitersSeen'
  BY <1>1, <1>2, WaitersStay
<1>4. Childless'
  BY <1>1, <1>2, ChildlessStay DEF Inv, RowsOK, NestOK
<1> QED
  BY <1>1, <1>3, <1>4

\* On the way to the transaction, the slot goes on with the same member.
LEMMA WiringStays ==
  ASSUME MembersSeen, JobsOK, NEW r \in Request, NEW j \in Job, job' = [job EXCEPT ![r] = j],
         \A q \in Request : q # r => job[q].step = "idle",
         j.step \in {"card", "anchor", "ensure", "ensureCommit"}, j.user = job[r].user,
         UNCHANGED <<members, letGo, left, wired>>
  PROVE  MembersSeen'
<1>1. job'[r] = j
  BY DEF JobsOK
<1>2. \A u \in User : Wiring(u) => Wiring(u)'
  BY <1>1 DEF Wiring
<1>3. SUFFICES ASSUME NEW u \in members \ letGo PROVE wired[u] # NoSubject \/ Wiring(u)'
  BY DEF MembersSeen
<1>4. wired[u] # NoSubject \/ Wiring(u)
  BY DEF MembersSeen
<1> QED
  BY <1>1, <1>4 DEF Wiring

LEMMA CardSound ==
  ASSUME Inv, NEW r \in Request, Undivided(r), NEW s \in Subject, Card(r, s)
  PROVE  Sound'
<1>1. /\ job[r].step = "card" /\ {s} \in SUBSET (Subject \ Drawn) /\ There' = There \cup {s}
      /\ \A t \in Subject \ {s} : subject'[t] = subject[t]
      /\ \A t \in {s} : subject'[t].status \in {"linked", "unlinked"}
      /\ UNCHANGED <<nest, ask, members, wired, carded, letGo, left>>
  BY CardWrites DEF asks, circles
<1>2. \A q \in Request : job[q].step # "answerMark"
  BY <1>1, OnlyStep
<1>3. WaitersSeen' /\ Childless' /\ \A t \in Drawn : subject'[t] = subject[t]
  BY <1>1, <1>2, OnlyStep, AddedSound
<1>4. CardsSeen'
  BY <1>1, <1>3, OnlyStep, CardsStay DEF Inv, RowsOK, CardsOK
<1>5. PICK j \in Job : /\ job' = [job EXCEPT ![r] = j] /\ j.step = "anchor"
                       /\ j.user = job[r].user
  BY CardGoesOn
<1>6. MembersSeen'
  BY <1>1, <1>5, OnlyStep, WiringStays DEF Inv
<1> QED
  BY <1>3, <1>4, <1>6 DEF Sound

\* Steps that only look for what to write, or write the circle's own row.
LEMMA LookSound ==
  ASSUME Inv, NEW r \in Request, Undivided(r), Anchor(r) \/ EnsureCircleContactsForUser(r)
  PROVE  Sound'
<1>1. /\ job[r].step \in {"anchor", "ensure"}
      /\ UNCHANGED <<subject, nest, ask, members, wired, carded, letGo, left>>
  BY DEF Anchor, EnsureCircleContactsForUser, At, asks, circles
<1>2. There' = There
  BY <1>1 DEF There
<1>3. WaitersSeen'
  BY <1>1, <1>2, OnlyStep, WaitersStay
<1>4. Childless'
  BY <1>1, OnlyStep, ChildlessStay
<1>5. CardsSeen'
  BY <1>1, OnlyStep, CardsStay
<1>6. PICK j \in Job : /\ job' = [job EXCEPT ![r] = j] /\ j.step \in {"ensure", "ensureCommit"}
                       /\ j.user = job[r].user
  <2>1. CASE Anchor(r)
    <3>1. Goto(r, "ensure") /\ JobsOK /\ "ensure" \in Step
      BY <2>1 DEF Anchor, Inv, Step
    <3> QED
      BY <3>1, GotoJob
  <2>2. CASE EnsureCircleContactsForUser(r)
    BY <2>2, EnsureChooses
  <2> QED
    BY <2>1, <2>2
<1>7. MembersSeen'
  BY <1>1, <1>6, OnlyStep, WiringStays DEF Inv
<1> QED
  BY <1>3, <1>4, <1>5, <1>7 DEF Sound

LEMMA EnsureCommitSound ==
  ASSUME Inv, NEW r \in Request, Undivided(r), EnsureCommit(r)
  PROVE  Sound'
<1>0. PICK o \in User : o = job[r].user
  BY EnsureWrites
<1>1. /\ job[r].step = "ensureCommit" /\ UNCHANGED <<nest, ask, members, left>>
      /\ o \in members /\ (job[r].word = "none" => wired[o] # NoSubject)
  BY <1>0, EnsureWrites DEF Undivided, Fresh, asks
<1>2. PICK N \in SUBSET (Subject \ Drawn) :
          /\ There' = There \cup N /\ \A s \in Subject \ N : subject'[s] = subject[s]
          /\ \A s \in N : subject'[s].status \in {"linked", "unlinked"}
  BY EnsureWrites
<1>3. WaitersSeen' /\ Childless' /\ \A s \in Drawn : subject'[s] = subject[s]
  <2>1. \A q \in Request : job[q].step # "answerMark"
    BY <1>1, OnlyStep
  <2> QED
    BY <1>1, <1>2, <2>1, OnlyStep, AddedSound
<1>4. /\ \A s \in carded : subject'[s] = subject[s]
      /\ \A s \in carded : subject[s].kind \in {"group", "gone"}
      /\ \A s \in carded : subject[s].kind = "group" =>
              wired[subject[s].owner] = s /\ subject[s].owner \in members \cup left
  <2>1. \A u \in User : ~Leaving(u)
    BY <1>1, OnlyStep DEF Leaving
  <2>2. \A s \in carded : subject[s].kind = "group" => subject[s].owner \in User
    BY DEF Inv, RowsOK, SubjectsOK, CardsOK, There, Drawn, Kind
  <2> QED
    BY <1>3, <2>1, <2>2, OnlyStep DEF CardsSeen, Inv, RowsOK, CardsOK
<1>5. \A u \in members \ (letGo \cup {o}) : wired[u] # NoSubject
  BY <1>0, <1>1, OnlyStep DEF MembersSeen, Wiring
<1>6. CASE job[r].word = "none" /\ UNCHANGED <<wired, carded>> /\ letGo' = letGo
  BY <1>1, <1>3, <1>4, <1>5, <1>6 DEF Sound, MembersSeen, CardsSeen
<1>7. CASE /\ wired[o] = NoSubject /\ letGo' = letGo \ {o}
           /\ \E c \in There' : /\ subject'[c].kind = "group" /\ subject'[c].owner = o
                                /\ wired' = [wired EXCEPT ![o] = c] /\ carded' = carded \cup {c}
  <2>1. PICK c \in There' : /\ subject'[c].kind = "group" /\ subject'[c].owner = o
                            /\ wired' = [wired EXCEPT ![o] = c] /\ carded' = carded \cup {c}
    BY <1>7
  <2>2. c # NoSubject /\ \A u \in User : wired'[u] = IF u = o THEN c ELSE wired[u]
    BY <2>1 DEF There, Inv, RowsOK, CardsOK
  <2>3. MembersSeen'
    BY <1>1, <1>5, <1>7, <2>2 DEF MembersSeen, Inv, RowsOK, MembersOK
  <2>4. ASSUME NEW s \in carded'
        PROVE  /\ subject'[s].kind \in {"group", "gone"}
               /\ subject'[s].kind = "group" =>
                      wired'[subject'[s].owner] = s /\ subject'[s].owner \in members \cup left
    <3>1. CASE s = c
      BY <1>1, <2>1, <2>2, <3>1
    <3>2. CASE s # c
      <4>1. s \in carded /\ subject'[s] = subject[s]
        BY <1>4, <2>1, <2>4, <3>2
      <4>2. subject[s].kind = "group" =>
                /\ wired[subject[s].owner] = s /\ subject[s].owner \in members \cup left
                /\ s # NoSubject /\ subject[s].owner \in User
        BY <1>4, <4>1 DEF Inv, RowsOK, MembersOK, CardsOK, Drawn
      <4> QED
        BY <1>4, <1>7, <2>2, <4>1, <4>2
    <3> QED
      BY <3>1, <3>2
  <2> QED
    BY <1>1, <1>3, <2>3, <2>4 DEF Sound, CardsSeen
<1> QED
  BY <1>0, <1>6, <1>7, EnsureWrites

\* Contacts are deleted: who loses a card, and who must not have one, is seen.
LEMMA DeletedSound ==
  ASSUME Inv, WaitersSeen, Childless, CardsSeen, NEW S, DeleteRows(S),
         \A q \in Request : job[q].step # "answerMark", UNCHANGED <<asks, members, carded, letGo, left>>,
         \A s \in carded \ S : subject[s].kind = "group" => subject[s].owner \in members \cup left,
         \A u \in members \ letGo : wired[u] \notin S /\ wired[u] # NoSubject
  PROVE  Sound'
<1>1. /\ There' = There \ S
      /\ \A s \in Subject : s \notin S \cap There => subject'[s] = subject[s]
      /\ \A s \in S \cap There : subject'[s].kind = "gone"
      /\ nest' \subseteq nest /\ NestOK'
      /\ \A u \in User : wired'[u] = IF wired[u] \in S THEN NoSubject ELSE wired[u]
  BY RowsDeleted DEF Inv, RowsOK
<1>2. WaitersSeen'
  BY <1>1, WaitersStay DEF There, asks
<1>3. Childless'
  BY <1>1, ChildlessStay DEF NestOK, There
<1>4. MembersSeen'
  BY <1>1 DEF MembersSeen, Inv, RowsOK, MembersOK
<1>5. CardsSeen'
  <2> SUFFICES ASSUME NEW s \in carded
               PROVE  /\ subject'[s].kind \in {"group", "gone"}
                      /\ subject'[s].kind = "group" =>
                             wired'[subject'[s].owner] = s /\ subject'[s].owner \in members \cup left
    BY DEF CardsSeen
  <2>1. s \in Subject /\ subject[s].kind \in {"group", "gone"}
        /\ (subject[s].kind = "group" => wired[subject[s].owner] = s /\ s \in There
                                         /\ subject[s].owner \in User)
    BY DEF CardsSeen, Inv, RowsOK, CardsOK, SubjectsOK, Drawn, There, Kind
  <2>2. CASE s \in S \cap There
    BY <1>1, <2>2
  <2>3. CASE s \notin S \cap There
    BY <1>1, <2>1, <2>3
  <2> QED
    BY <2>2, <2>3
<1> QED
  BY <1>2, <1>3, <1>4, <1>5 DEF Sound

LEMMA DropsSound ==
  ASSUME Inv, NEW r \in Request, Undivided(r),
         DeleteRow(r) \/ RemoveCircleContactsForLeavingUser(r) \/ RemoveAllCircleContacts(r)
  PROVE  Sound'
<1>1. UNCHANGED <<asks, members, carded, letGo, left>>
  BY DEF DeleteRow, RemoveCircleContactsForLeavingUser, RemoveAllCircleContacts
<1>2. job[r].step \in {"delete", "leave", "teardown"}
  BY DEF DeleteRow, RemoveCircleContactsForLeavingUser, RemoveAllCircleContacts, At
<1>3. \A q \in Request : job[q].step # "answerMark"
  BY <1>2, OnlyStep
<1>4. \A u \in members \ letGo : wired[u] # NoSubject
  BY <1>2, OnlyStep DEF MembersSeen, Wiring
<1>5. \A s \in carded : subject[s].kind = "group" =>
          /\ s \in There /\ wired[subject[s].owner] = s /\ subject[s].owner \in User
          /\ subject[s].owner \in members \cup left \/ Leaving(subject[s].owner)
  BY OnlyStep DEF CardsSeen, Inv, RowsOK, CardsOK, SubjectsOK, Drawn, There, Kind
<1>6. \A u \in User : wired[u] # NoSubject => wired[u] \in There /\ subject[wired[u]].owner = u
  BY DEF Inv, RowsOK, CardsOK
<1>7. CASE DeleteRow(r)
  <2>1. /\ DeleteRows({job[r].subject}) /\ job[r].step = "delete"
        /\ \A u \in User : wired[u] = job[r].subject => u \in letGo
    BY <1>7 DEF DeleteRow, At, Undivided, Fresh
  <2>2. \A s \in carded : subject[s].kind = "group" => subject[s].owner \in members \cup left
    BY <1>5, <2>1, OnlyStep DEF Leaving
  <2>3. \A u \in members \ letGo : wired[u] \notin {job[r].subject} /\ wired[u] # NoSubject
    BY <1>4, <2>1 DEF Inv, RowsOK, MembersOK
  <2> QED
    BY <1>1, <1>3, <2>1, <2>2, <2>3, OnlyStep, DeletedSound
<1>8. CASE RemoveCircleContactsForLeavingUser(r)
  <2> DEFINE S == CardsOf({job[r].user})
  <2>1. /\ DeleteRows(S) /\ job[r].step = "leave" /\ job[r].user \notin members
        /\ job[r].user \in User
    BY <1>8 DEF RemoveCircleContactsForLeavingUser, At, Undivided, Fresh, Inv, JobsOK, Holds
  <2>2. \A s \in carded \ S : subject[s].kind = "group" => subject[s].owner \in members \cup left
    BY <1>5, <2>1, OnlyStep DEF Leaving, CardsOf
  <2>3. \A u \in members \ letGo : wired[u] \notin S /\ wired[u] # NoSubject
    BY <1>4, <1>6, <2>1 DEF CardsOf, Inv, RowsOK, MembersOK
  <2> HIDE DEF S
  <2> QED
    BY <1>1, <1>3, <2>1, <2>2, <2>3, OnlyStep, DeletedSound
<1>9. CASE RemoveAllCircleContacts(r)
  <2> DEFINE S == CardsOf(User)
  <2>1. DeleteRows(S) /\ members = {}
    BY <1>9 DEF RemoveAllCircleContacts, At, Undivided, Fresh
  <2>2. \A s \in carded \ S : subject[s].kind # "group"
    BY <1>5 DEF CardsOf
  <2> HIDE DEF S
  <2> QED
    BY <1>1, <1>3, <2>1, <2>2, OnlyStep, DeletedSound
<1> QED
  BY <1>7, <1>8, <1>9

LEMMA DeleteCircleSound ==
  ASSUME Inv, NEW r \in Request, Undivided(r), DeleteCircle(r)
  PROVE  Sound'
<1>1. /\ job[r].step = "deleteCircle" /\ members' = {} /\ UNCHANGED <<subject, nest, ask, carded>>
  BY DEF DeleteCircle, At, asks
<1>2. There' = There
  BY <1>1 DEF There
<1>3. WaitersSeen'
  BY <1>1, <1>2, OnlyStep, WaitersStay
<1>4. Childless'
  BY <1>1, OnlyStep, ChildlessStay
<1>5. MembersSeen'
  BY <1>1 DEF MembersSeen
<1>6. \A s \in carded : subject[s].kind \in {"group", "gone"} /\ subject[s].kind # "group"
  BY <1>1, OnlyStep DEF Undivided, Fresh, CardsSeen
<1>7. CardsSeen'
  BY <1>1, <1>6 DEF CardsSeen
<1> QED
  BY <1>3, <1>4, <1>5, <1>7 DEF Sound

LEMMA StatementSound ==
  ASSUME Inv, NEW r \in Request, Undivided(r), Statement(r)
  PROVE  Sound'
<1>1. CASE UpdateCommit(r)
  <2>1. job[r].step = "retype" \/ job[r].step = "relink"
    BY <1>1 DEF UpdateCommit, At
  <2> QED
    BY <1>1, <2>1, RetypeSound, RelinkSound
<1>2. CASE AskMark(r) \/ AnswerMark(r) \/ Unlink(r)
  BY <1>2, RelinkSound
<1> QED
  BY <1>1, <1>2, CardSound, AskSound, DropsSound, NestSound, AnswerSound, LookSound,
     EnsureCommitSound, DeleteCircleSound DEF Statement

\* Nothing under way: nothing is about to be settled.
LEMMA AtRest ==
  ASSUME WaitersSeen, MembersSeen, CardsSeen, \A q \in Request : job[q] = Idle
  PROVE  /\ \A q \in Request : job[q].step = "idle"
         /\ \A s \in There : subject[s].status = "pending" => Pending(s, subject[s].user)
         /\ \A u \in members \ letGo : wired[u] # NoSubject
         /\ \A s \in carded : /\ subject[s].kind \in {"group", "gone"}
                              /\ subject[s].kind = "group" =>
                                     wired[subject[s].owner] = s /\ subject[s].owner \in members \cup left
<1>1. \A q \in Request : job[q].step = "idle"
  BY IdleOK
<1> QED
  BY <1>1 DEF WaitersSeen, MembersSeen, CardsSeen, Marking, Wiring, Leaving

\* What a request that starts does to the members of the circle.
LEMMA ArriveWrites ==
  ASSUME Inv, NEW r \in Request, Arrive(r)
  PROVE  /\ UNCHANGED <<subject, nest, ask, wired, carded>>
         /\ left \subseteq left' \cup members'
         /\ \/ members' = members /\ letGo \subseteq letGo'
            \/ /\ letGo' = letGo
               /\ \E u \in User : \/ /\ job'[r].step \in {"card", "ensure"} /\ job'[r].user = u
                                     /\ members' = members \cup {u}
                                  \/ /\ job'[r].step = "leave" /\ job'[r].user = u
                                     /\ members' = members \ {u}
            \/ job'[r].step = "teardown" /\ members' = {}
         /\ calm' => calm /\ \A q \in Request : job[q] = Idle
<1>1. ASSUME NEW s \in Subject, Update(r, s)
      PROVE  /\ UNCHANGED <<subject, nest, ask, wired, carded, members, left>> /\ letGo \subseteq letGo'
             /\ \E j : Start(r, j)
  BY <1>1 DEF Update, UpdateKind, UpdateLink, DeletePrayerSubject, AddMemberToSubject,
              SendConnectionRequest, RemovePrayerSubjectLink, asks, circles
<1>2. ASSUME NEW a \in Ask, NEW word \in {"accepted", "declined"},
             RespondToConnectionRequest(r, a, word)
      PROVE  /\ UNCHANGED <<subject, nest, ask, wired, carded, members, letGo, left>>
             /\ \E j : Start(r, j)
  BY <1>2 DEF RespondToConnectionRequest, asks, circles
<1>3. ASSUME NEW x \in {"card", "ensure", "leave", "teardown"}, NEW u \in User \cup {NoUser},
             Start(r, [Idle EXCEPT !.step = x, !.user = u])
      PROVE  job'[r].step = x /\ job'[r].user = u /\ \E j : Start(r, j)
  <2> DEFINE k == [Idle EXCEPT !.step = x, !.user = u]
  <2>1. k \in Job /\ k.step = x /\ k.user = u
    BY IdleOK DEF Job, Step
  <2>2. Start(r, k)
    BY <1>3
  <2> HIDE DEF k
  <2>3. job' = [job EXCEPT ![r] = k]
    BY <2>2 DEF Start
  <2> QED
    BY <2>1, <2>2, <2>3 DEF Inv, JobsOK
<1>4. ASSUME DeleteGroup(r)
      PROVE  /\ UNCHANGED <<subject, nest, ask, wired, carded, left>> /\ members' = {}
             /\ job'[r].step = "teardown" /\ \E j : Start(r, j)
  <2> DEFINE k == [Idle EXCEPT !.step = "teardown"]
  <2>1. k \in Job /\ k.step = "teardown"
    BY IdleOK DEF Job, Step
  <2>2. Start(r, k) /\ UNCHANGED <<subject, nest, ask, wired, carded, left>> /\ members' = {}
    BY <1>4 DEF DeleteGroup, asks
  <2> HIDE DEF k
  <2>3. job' = [job EXCEPT ![r] = k]
    BY <2>2 DEF Start
  <2> QED
    BY <2>1, <2>2, <2>3 DEF Inv, JobsOK
<1>5. ASSUME NEW u \in User, CreateGroup(r, u)
      PROVE  /\ UNCHANGED <<subject, nest, ask, wired, carded, letGo, left>>
             /\ members' = members \cup {u} /\ job'[r].step = "card" /\ job'[r].user = u
             /\ \E j : Start(r, j)
  BY <1>3, <1>5 DEF CreateGroup, asks, Inv, RowsOK, MembersOK
<1>6. ASSUME NEW u \in User, Admit(r, u)
      PROVE  /\ UNCHANGED <<subject, nest, ask, wired, carded, letGo>> /\ left' = left \ {u}
             /\ members' = members \cup {u} /\ job'[r].step = "ensure" /\ job'[r].user = u
             /\ \E j : Start(r, j)
  BY <1>3, <1>6 DEF Admit, asks
<1>7. ASSUME NEW u \in User, RemoveUserFromGroup(r, u)
      PROVE  /\ UNCHANGED <<subject, nest, ask, wired, carded, letGo, left>>
             /\ members' = members \ {u} /\ job'[r].step = "leave" /\ job'[r].user = u
             /\ \E j : Start(r, j)
  BY <1>3, <1>7 DEF RemoveUserFromGroup, asks
<1>8. ASSUME NEW j, Start(r, j) PROVE calm' => calm /\ \A q \in Request : job[q] = Idle
  BY <1>8, Started DEF Inv
<1> QED
  BY <1>1, <1>2, <1>4, <1>5, <1>6, <1>7, <1>8 DEF Arrive

LEMMA ArriveSound ==
  ASSUME Inv, NEW r \in Request, Arrive(r), Sound, \A q \in Request : job[q] = Idle
  PROVE  Sound'
<1>1. /\ UNCHANGED <<subject, nest, ask, wired, carded>>
      /\ left \subseteq left' \cup members'
  BY ArriveWrites
<1>2. WaitersSeen /\ Childless /\ MembersSeen /\ CardsSeen
  BY DEF Sound
<1>3. /\ \A q \in Request : job[q].step = "idle"
      /\ \A u \in members \ letGo : wired[u] # NoSubject
      /\ \A s \in carded : /\ subject[s].kind \in {"group", "gone"}
                           /\ subject[s].kind = "group" =>
                                  wired[subject[s].owner] = s /\ subject[s].owner \in members \cup left
  BY <1>2, AtRest
<1>4. There' = There
  BY <1>1 DEF There
<1>5. WaitersSeen'
  BY <1>1, <1>2, <1>3, <1>4, WaitersStay
<1>6. Childless'
  BY <1>1, <1>2, ChildlessStay
<1>7. MembersSeen' /\ CardsSeen'
  <2>1. CASE members' = members /\ letGo \subseteq letGo'
    BY <1>1, <1>3, <2>1 DEF MembersSeen, CardsSeen
  <2>2. ASSUME NEW u \in User, letGo' = letGo, job'[r].step \in {"card", "ensure"},
               job'[r].user = u, members' = members \cup {u}
        PROVE  MembersSeen' /\ CardsSeen'
    BY <1>1, <1>3, <2>2 DEF MembersSeen, CardsSeen, Wiring
  <2>3. ASSUME NEW u \in User, letGo' = letGo, job'[r].step = "leave", job'[r].user = u,
               members' = members \ {u}
        PROVE  MembersSeen' /\ CardsSeen'
    BY <1>1, <1>3, <2>3 DEF MembersSeen, CardsSeen, Leaving
  <2>4. CASE job'[r].step = "teardown" /\ members' = {}
    BY <1>1, <1>3, <2>4 DEF MembersSeen, CardsSeen, Leaving
  <2> QED
    BY <2>1, <2>2, <2>3, <2>4, ArriveWrites
<1> QED
  BY <1>5, <1>6, <1>7 DEF Sound

LEMMA ElsewhereSound ==
  ASSUME Inv, Elsewhere, Sound, \A q \in Request : job[q] = Idle
  PROVE  Sound'
<1>1. WaitersSeen /\ Childless /\ MembersSeen /\ CardsSeen
  BY DEF Sound
<1>2. \A q \in Request : job[q].step = "idle"
  BY <1>1, AtRest
<1>3. ASSUME NEW s \in Subject, NEW kind \in Kind, NEW u \in User, NEW v \in User \cup {NoUser},
             CreatePrayerSubject(s, kind, u, v)
      PROVE  Sound'
  <2>1. /\ {s} \in SUBSET (Subject \ Drawn) /\ There' = There \cup {s}
        /\ \A t \in Subject \ {s} : subject'[t] = subject[t]
        /\ \A t \in {s} : subject'[t].status \in {"linked", "unlinked"}
        /\ UNCHANGED <<nest, ask, members, wired, carded, letGo, left>>
    BY <1>3, CreateKeeps DEF asks, circles
  <2>2. \A q \in Request : job[q].step # "answerMark"
    BY <1>2
  <2>3. WaitersSeen' /\ Childless' /\ \A t \in Drawn : subject'[t] = subject[t]
    BY <1>1, <2>1, <2>2, AddedSound
  <2>4. MembersSeen'
    BY <1>1, <1>2, <2>1, MembersStay
  <2>5. CardsSeen'
    BY <1>1, <1>2, <2>1, <2>3, CardsStay DEF Inv, RowsOK, CardsOK
  <2> QED
    BY <2>3, <2>4, <2>5 DEF Sound
<1>4. ASSUME UNCHANGED <<subject, asks, members, wired, carded, letGo, left>>, nest' \subseteq nest
      PROVE  Sound'
  <2>1. There' = There
    BY <1>4 DEF There
  <2>2. WaitersSeen'
    BY <1>1, <1>2, <1>4, <2>1, WaitersStay DEF asks
  <2>3. Childless'
    BY <1>1, <1>4, ChildlessStay
  <2>4. MembersSeen'
    BY <1>1, <1>2, <1>4, MembersStay
  <2>5. CardsSeen'
    BY <1>1, <1>2, <1>4, CardsStay
  <2> QED
    BY <2>2, <2>3, <2>4, <2>5 DEF Sound
<1>5. ASSUME NEW u \in User, DeleteUserAccount(u)
      PROVE  Sound'
  <2>1. /\ UNCHANGED <<subject, nest, ask, wired, carded, letGo>>
        /\ members' \subseteq members /\ members \cup left \subseteq members' \cup left'
    BY <1>5 DEF DeleteUserAccount, asks
  <2>2. There' = There
    BY <2>1 DEF There
  <2>3. WaitersSeen'
    BY <1>1, <1>2, <2>1, <2>2, WaitersStay
  <2>4. Childless'
    BY <1>1, <2>1, ChildlessStay
  <2>5. MembersSeen'
    BY <1>1, <1>2, <2>1, MembersStay
  <2>6. CardsSeen'
    BY <1>1, <1>2, <2>1, CardsStay
  <2> QED
    BY <2>3, <2>4, <2>5, <2>6 DEF Sound
<1> QED
  BY <1>3, <1>4, <1>5 DEF Elsewhere, RemoveMemberFromSubject, ArchiveOrRestore, circles

-----------------------------------------------------------------------------
(* The promises *)

LEMMA OnlyJob ==
  ASSUME JobsOK, NEW r \in Request, NEW j \in Job, job' = [job EXCEPT ![r] = j],
         \A q \in Request : q # r => job[q] = Idle, Fresh(j)'
  PROVE  Alone' /\ \A q \in Request : Fresh(job[q])'
<1>1. \A q \in Request : job'[q] = IF q = r THEN j ELSE Idle
  BY DEF JobsOK
<1>2. \A q \in Request : Fresh(job[q])'
  BY <1>1, IdleNext DEF Fresh
<1> QED
  BY <1>1, <1>2 DEF Alone

LEMMA AnswerableNext ==
  ASSUME Inv, AnswersCounted, Answerable, NEW r \in Request, Statement(r) \/ Arrive(r), Fresh(job[r])
  PROVE  Answerable'
<1>1. CASE Answer(r) /\ job[r].subject \in There
  <2>1. PICK b \in Ask : b = job[r].ask
    BY <1>1, AnswerWrites
  <2>2. answers'[b] = answers[b] + 1 /\ \A a \in Ask : a # b => answers'[a] = answers[a]
    BY <1>1, <2>1, AnswerWrites
  <2>3. ask[b].status = "pending"
    BY <1>1, <2>1, AnswerWrites DEF Fresh
  <2>4. answers[b] = 0
    BY <2>3 DEF AnswersCounted
  <2> QED
    BY <2>2, <2>4 DEF Answerable
<1>2. CASE ~(Answer(r) /\ job[r].subject \in There)
  BY <1>2, AsksOtherwise DEF Answerable
<1> QED
  BY <1>1, <1>2

LEMMA CalmInit == Init => CalmInv
<1> SUFFICES ASSUME Init PROVE Undisturbed
  BY DEF CalmInv
<1>1. There = {}
  BY DEF Init, There, Undrawn, Kind
<1>2. Alone /\ \A r \in Request : Fresh(job[r])
  BY IdleOK DEF Init, Alone
<1> QED
  BY <1>1, <1>2 DEF Init, Undisturbed, Answerable, WaitersSeen, Childless, MembersSeen, CardsSeen

LEMMA CalmNext == Inv /\ AnswersCounted /\ CalmInv /\ [Next]_vars => CalmInv'
<1> SUFFICES ASSUME Inv, AnswersCounted, CalmInv, [Next]_vars, calm' PROVE Undisturbed'
  BY DEF CalmInv
<1>1. ASSUME NEW r \in Request, Statement(r) PROVE Undisturbed'
  <2>1. calm
    BY <1>1
    DEF Statement, Card, AskRowInsert, UpdateCommit, DeleteRow, NestRow, AskMark, Answer, AnswerMark,
        Unlink, Anchor, EnsureCircleContactsForUser, EnsureCommit,
        RemoveCircleContactsForLeavingUser, RemoveAllCircleContacts, DeleteCircle, Goto, Become
  <2>2. Undisturbed
    BY <2>1 DEF CalmInv
  <2>3. job[r] # Idle
    BY <1>1, IdleOK
    DEF Statement, Card, AskRowInsert, UpdateCommit, DeleteRow, NestRow, AskMark, Answer, AnswerMark,
        Unlink, Anchor, EnsureCircleContactsForUser, EnsureCommit,
        RemoveCircleContactsForLeavingUser, RemoveAllCircleContacts, DeleteCircle, At
  <2>4. \A q \in Request : q # r => job[q] = Idle
    BY <2>2, <2>3 DEF Undisturbed, Alone
  <2>5. Undivided(r)
    BY <2>2, <2>4 DEF Undisturbed, Undivided, Sound
  <2>6. PICK j \in Job : job' = [job EXCEPT ![r] = j] /\ Fresh(j)'
    BY <1>1, <2>5, StatementKeeps DEF Keeps, Undivided
  <2>7. Alone' /\ \A q \in Request : Fresh(job[q])'
    BY <2>4, <2>6, OnlyJob DEF Inv
  <2>8. Sound'
    BY <1>1, <2>5, StatementSound
  <2>9. Answerable'
    BY <1>1, <2>2, AnswerableNext DEF Undisturbed
  <2> QED
    BY <2>7, <2>8, <2>9 DEF Undisturbed, Sound
<1>2. ASSUME NEW r \in Request, Arrive(r) PROVE Undisturbed'
  <2>1. calm /\ \A q \in Request : job[q] = Idle
    BY <1>2, ArriveWrites
  <2>2. Undisturbed /\ Sound
    BY <2>1 DEF CalmInv, Undisturbed, Sound
  <2>3. PICK j \in Job : job' = [job EXCEPT ![r] = j] /\ Fresh(j)'
    BY <1>2, <2>2, ArriveKeeps DEF Keeps, Undisturbed
  <2>4. Alone' /\ \A q \in Request : Fresh(job[q])'
    BY <2>1, <2>3, OnlyJob DEF Inv
  <2>5. Sound'
    BY <1>2, <2>1, <2>2, ArriveSound
  <2>6. Answerable'
    BY <1>2, <2>2, AnswerableNext DEF Undisturbed
  <2> QED
    BY <2>4, <2>5, <2>6 DEF Undisturbed, Sound
<1>3. ASSUME NEW r \in Request, Abandon(r) \/ GoOn(r) PROVE FALSE
  BY <1>3 DEF Abandon, GoOn
<1>4. ASSUME Elsewhere PROVE Undisturbed'
  <2>1. calm /\ (\A q \in Request : job[q] = Idle) /\ UNCHANGED <<job, asks>>
    BY <1>4, ElsewhereKeeps
  <2>2. Undisturbed /\ Sound
    BY <2>1 DEF CalmInv, Undisturbed, Sound
  <2>3. Sound'
    BY <1>4, <2>1, <2>2, ElsewhereSound
  <2>4. Alone' /\ \A q \in Request : Fresh(job[q])'
    BY <2>1, IdleNext DEF Alone, Fresh
  <2>5. Answerable'
    BY <2>1, <2>2 DEF Undisturbed, Answerable, asks
  <2> QED
    BY <2>3, <2>4, <2>5 DEF Undisturbed, Sound
<1>5. ASSUME UNCHANGED vars PROVE Undisturbed'
  <2>1. Undisturbed
    BY <1>5 DEF vars, CalmInv
  <2> QED
    BY <1>5, <2>1
    DEF vars, asks, circles, Undisturbed, Alone, Fresh, Answerable, WaitersSeen, Childless,
        MembersSeen, CardsSeen, Pending, Marking, Wiring, Leaving, There
<1> QED
  BY <1>1, <1>2, <1>3, <1>4, <1>5, Kinds

LEMMA CalmAlways == Spec => [](Inv /\ AnswersCounted /\ CalmInv)
  BY InvInit, InvNext, AnswersInit, AnswersNext, CalmInit, CalmNext, PTL DEF Spec

\* "This request has already been ...": however requests overlap and fail, one is
\* answered once for each slot at most, and while they do not overlap only once.
THEOREM RequestsAreAnsweredOnce == Spec => []AnswersBounded
<1>1. Inv /\ AnswersCounted /\ CalmInv => AnswersBounded
  <2> SUFFICES ASSUME Inv, AnswersCounted, CalmInv, NEW a \in Ask
               PROVE  answers[a] <= Cardinality(Request) /\ (calm => answers[a] <= 1)
    BY DEF AnswersBounded
  <2>1. answers[a] \in Nat /\ answers[a] + Cardinality(Answering(a)) <= Cardinality(Request)
    BY DEF Inv, RowsOK, AsksOK, AnswersCounted
  <2>2. Cardinality(Answering(a)) \in Nat /\ Cardinality(Request) \in Nat
    <3>1. Answering(a) \in SUBSET Request
      BY DEF Answering
    <3> QED
      BY <3>1, AnsweringCounted
  <2>3. calm => answers[a] <= 1
    BY DEF CalmInv, Undisturbed, Answerable
  <2> QED
    BY <2>1, <2>2, <2>3
<1> QED
  BY <1>1, CalmAlways, PTL

\* Between requests that neither overlapped nor failed, a contact that waits for a
\* user waits for one who can still answer.
THEOREM WaitersAreAsked == Spec => []PendingIsAsked
<1>1. CalmInv => PendingIsAsked
  BY AtRest DEF CalmInv, Undisturbed, PendingIsAsked, Settled, Pending
<1> QED
  BY <1>1, CalmAlways, PTL

\* "Only family or group subjects can have members": between such requests no
\* individual has members, whether it was made one or given them.
THEOREM OnlyGroupsHaveMembers == Spec => []IndividualsHaveNoMembers
<1>1. CalmInv => IndividualsHaveNoMembers
  BY DEF CalmInv, Undisturbed, Childless, IndividualsHaveNoMembers, Settled
<1> QED
  BY <1>1, CalmAlways, PTL

\* Between such requests, an active member has a card of the circle unless someone
\* let it go, and no card outlives its owner's membership or the circle, unless it
\* was the deletion of an account that ended the membership.
THEOREM CardsLeaveWithMembers == Spec => []CardsFollowMembers
<1>1. Inv /\ CalmInv => CardsFollowMembers
  BY AtRest DEF CalmInv, Undisturbed, CardsFollowMembers, Settled, Inv, RowsOK, MembersOK
<1> QED
  BY <1>1, CalmAlways, PTL
=============================================================================
