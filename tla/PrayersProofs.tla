---------------------------- MODULE PrayersProofs ----------------------------
(***************************************************************************)
(* What holds of prayers, their contacts and their access rows for any     *)
(* users, circles, ids and overlapping requests.                           *)
(***************************************************************************)
EXTENDS Prayers, TLAPS

USE IdAssumption, RoleAssumption, NoneAssumption, BodyAssumption DEF world, history

-----------------------------------------------------------------------------
(* Jobs *)

Drawn(p) == p \in Prayer /\ prayer[p].state # "undrawn"

\* What a slot holds, at each of its steps.
Holds(j) ==
    /\ j.step \in {"self", "insert", "grant", "shareSelf"} => j.user \in User
    /\ j.step \in {"grant", "shareSelf", "dropAll", "update", "delete"} => Drawn(j.prayer)
    /\ j.step = "self" => j.then \in {"insert", "reassign"}
    /\ j.step \in {"insert", "grant"} \/ (j.step = "self" /\ j.then = "insert")
           => j.type \in {"user", "group", "subject"} /\ j.who \in Target(j.type)
    /\ j.step \in {"reassign", "sweep", "deleteContact"} \/ (j.step = "self" /\ j.then = "reassign")
           => j.contact \in Contact
    /\ j.step = "card" => j.user \in User

JobsOK == job \in [Request -> Job] /\ \A r \in Request : Holds(job[r])

LEMMA IdleOK == Idle \in Job /\ Idle.step = "idle" /\ Idle.type = "none" /\ Holds(Idle)
<1>1. Blank \in Body
  BY DEF Blank, Body
<1> QED
  BY <1>1 DEF Job, Idle, Step, Holds

-----------------------------------------------------------------------------
(* Rows *)

LinkOK(row) == row.linked => row.user \in User

ContactsOK ==
    /\ contact \in [Contact -> ContactRow]
    /\ \A s \in There : /\ contact[s].owner \in User
                         /\ LinkOK(contact[s])
                         /\ contact[s].circle \in circles \cup {None}

\* No contact has prayers that are not kept.
PrayersOK ==
    /\ prayer \in [Prayer -> PrayerRow]
    /\ \A p \in Prayer : IF p \notin Kept THEN prayer[p].contact = None
                         ELSE prayer[p].creator \in User /\ prayer[p].contact \in There \cup {None}

AccessOK ==
    /\ access \in [Access -> AccessRow]
    /\ \A a \in Rows : /\ access[a].prayer \in Kept
                       /\ access[a].type \in {"user", "group", "subject"}
                       /\ access[a].who \in Target(access[a].type)
                       /\ access[a].by \in User

CirclesOK ==
    members \subseteq circles \X User /\ circles \subseteq Circle /\ accounts \subseteq User

HistoryOK ==
    calm \in BOOLEAN /\ swept \subseteq Prayer /\ sharers \subseteq Prayer \X User
    /\ stranded \subseteq Prayer

RowsOK == ContactsOK /\ PrayersOK /\ AccessOK /\ CirclesOK /\ HistoryOK

Inv == RowsOK /\ JobsOK

\* Prayers keep their ids, contacts come and go.
LEMMA HoldsGrow ==
  ASSUME \A p \in Prayer : Drawn(p) => Drawn(p)'
  PROVE  \A j : Holds(j) => Holds(j)'
  BY DEF Holds, Drawn

LEMMA PutJob ==
  ASSUME JobsOK, \A p \in Prayer : Drawn(p) => Drawn(p)',
         NEW r \in Request, NEW j \in Job, Holds(j)', job' = [job EXCEPT ![r] = j]
  PROVE  JobsOK'
  BY HoldsGrow DEF JobsOK

LEMMA KeepJobs ==
  ASSUME JobsOK, UNCHANGED <<prayer, job>>
  PROVE  JobsOK'
  BY HoldsGrow DEF JobsOK, Drawn

LEMMA SamePrayers ==
  ASSUME PrayersOK, There \subseteq There', UNCHANGED prayer
  PROVE  PrayersOK' /\ \A p \in Prayer : Drawn(p) => Drawn(p)'
  BY DEF PrayersOK, Kept, Drawn

LEMMA SameAccess ==
  ASSUME AccessOK, Kept \subseteq Kept', UNCHANGED access
  PROVE  AccessOK'
  BY DEF AccessOK, Rows

-----------------------------------------------------------------------------
(* While requests do not overlap and nothing fails *)

Alone == \A r, q \in Request : job[r] # Idle /\ job[q] # Idle => r = q

\* What the request has seen, at each of its steps, is still so.
Fresh(j) ==
    /\ j.step \in {"grant", "shareSelf", "dropAll", "delete"} => j.prayer \in Live
    /\ j.step = "grant" => ~Granted(j.prayer, j.type, j.who)
    /\ j.type = "group" => j.who \in circles \/ j.user \in Admin
    /\ j.step = "update" /\ j.contact = None /\ j.prayer \in Live => j.prayer \in stranded
    /\ j.step = "delete" => RowsOf(j.prayer) = {}
    /\ j.step = "reassign" \/ (j.step = "self" /\ j.then = "reassign") => j.contact \in There
    /\ j.step = "reassign" => j.other # j.contact
    /\ j.step = "deleteContact" => Of(j.contact) \cap Live = {}
    /\ j.step \in {"dropCards", "dropCircle"} =>
           \A a \in Rows : ~(access[a].type = "group" /\ access[a].who = j.who)

Unique == \A a, b \in Rows :
    /\ access[a].prayer = access[b].prayer
    /\ access[a].type = access[b].type /\ access[a].who = access[b].who
    => a = b

RowsFollow == \A a \in Rows :
    /\ access[a].prayer \in Live \cup swept
    /\ access[a].type = "group" => access[a].who \in circles \/ access[a].by \in Admin

PrayersFollow == \A p \in Live \ stranded : prayer[p].contact \in There

\* Who has shared a prayer has a row of their own, or is about to get it.
SharersSeen ==
    \A s \in sharers :
        \/ Granted(s[1], "user", s[2])
        \/ \E r \in Request : /\ job[r].step = "grant" /\ job[r].prayer = s[1]
                              /\ job[r].type = "user" /\ job[r].who = s[2]

TablesCalm == Unique /\ RowsFollow /\ PrayersFollow

Undisturbed == Alone /\ (\A r \in Request : Fresh(job[r])) /\ TablesCalm /\ SharersSeen

CalmInv == calm => Undisturbed

-----------------------------------------------------------------------------
(* Requests that start *)

Arrive(r) ==
    \E u \in accounts :
        \/ Create(r, u)
        \/ \E p \in Prayer : Change(r, u, p)
        \/ \E s \in Contact, option \in {"deletePrayers", "reassignToSelf"} :
              DeletePrayerSubject(r, u, s, option)
        \/ \E c \in Circle : Membership(r, u, c)
        \/ \E v \in User : DeleteUserAccount(r, u, v)

LEMMA Kinds ==
  ASSUME Next
  PROVE  Elsewhere \/ \E r \in Request : Statement(r) \/ Abandon(r) \/ GoOn(r) \/ Arrive(r)
  BY DEF Next, Arrive


\* A job that may start, and what it has seen.
Ready(j) == Holds(j) /\ (TablesCalm => Fresh(j))

LEMMA ResolveStarts ==
  ASSUME RowsOK, NEW r \in Request, NEW i \in Job, NEW owner \in User, NEW s \in Contact \cup {None},
         i.user \in User, i.type \in {"user", "group"}, i.who \in Target(i.type),
         i.type = "group" => i.who \in circles, ResolveContact(r, owner, s, i)
  PROVE  \E j \in Job : Start(r, j) /\ Ready(j)
<1>1. ASSUME NEW o \in Contact, Start(r, [i EXCEPT !.step = "insert", !.contact = o])
      PROVE  \E j \in Job : Start(r, j) /\ Ready(j)
  <2> DEFINE j == [i EXCEPT !.step = "insert", !.contact = o]
  <2>1. j \in Job /\ j.step = "insert" /\ j.user = i.user /\ j.type = i.type /\ j.who = i.who
    BY DEF Job, Step
  <2>2. Start(r, j)
    BY <1>1
  <2> HIDE DEF j
  <2> QED
    BY <2>1, <2>2 DEF Ready, Holds, Fresh
<1> DEFINE k == [i EXCEPT !.step = "self", !.then = "insert"]
<1>2. k \in Job /\ Ready(k)
  <2> "self" \in Step /\ "insert" \in Step
    BY DEF Step
  <2>1. k \in Job /\ k.step = "self" /\ k.then = "insert" /\ k.user = i.user
        /\ k.type = i.type /\ k.who = i.who
    BY DEF Job
  <2> HIDE DEF k
  <2> QED
    BY <2>1 DEF Ready, Holds, Fresh
<1>3. CASE \E o \in There : Start(r, [i EXCEPT !.step = "insert", !.contact = o])
  BY <1>1, <1>3 DEF There
<1>4. CASE Start(r, k)
  BY <1>2, <1>4
<1> QED
  BY <1>3, <1>4 DEF ResolveContact, SelfContacts

LEMMA CreateStarts ==
  ASSUME RowsOK, NEW r \in Request, NEW u \in User, Create(r, u)
  PROVE  (\E j \in Job : Start(r, j) /\ Ready(j)) /\ UNCHANGED world
<1>1. PICK s \in Contact \cup {None}, e \in PrayerCreate :
          \/ \E v \in User : CreateUserPrayer(r, u, v, s, e)
          \/ \E c \in Circle : CreateGroupPrayer(r, u, c, s, e)
  BY DEF Create
<1>2. e \in Body
  OBVIOUS
<1>3. ASSUME NEW v \in User, CreateUserPrayer(r, u, v, s, e)
      PROVE  \E j \in Job : Start(r, j) /\ Ready(j)
  <2> DEFINE i == [Idle EXCEPT !.user = u, !.type = "user", !.who = v, !.body = e]
  <2>1. i \in Job /\ i.user = u /\ i.type = "user" /\ i.who = v
    BY <1>2, IdleOK DEF Job
  <2>2. ResolveContact(r, v, s, i)
    BY <1>3 DEF CreateUserPrayer
  <2> HIDE DEF i
  <2> QED
    BY <2>1, <2>2, ResolveStarts DEF Target
<1>4. ASSUME NEW c \in Circle, CreateGroupPrayer(r, u, c, s, e)
      PROVE  \E j \in Job : Start(r, j) /\ Ready(j)
  <2> DEFINE i == [Idle EXCEPT !.user = u, !.type = "group", !.who = c, !.body = e]
  <2>1. i \in Job /\ i.user = u /\ i.type = "group" /\ i.who = c
    BY <1>2, IdleOK DEF Job
  <2>2. ResolveContact(r, u, s, i) /\ c \in circles
    BY <1>4 DEF CreateGroupPrayer
  <2> HIDE DEF i
  <2> QED
    BY <2>1, <2>2, ResolveStarts DEF Target
<1> QED
  BY <1>1, <1>3, <1>4 DEF CreateUserPrayer, CreateGroupPrayer

LEMMA AddStarts ==
  ASSUME RowsOK, NEW r \in Request, NEW u \in User, NEW p \in Prayer,
         NEW type \in {"user", "group", "subject"}, NEW who \in Target(type),
         AddPrayerAccess(r, u, p, type, who)
  PROVE  \E j \in Job : Start(r, j) /\ Ready(j)
<1> DEFINE then == IF type = "group" THEN "shareSelf" ELSE "idle"
           j == [Idle EXCEPT !.step = "grant", !.user = u, !.prayer = p, !.type = type,
                             !.who = who, !.then = then]
<1>1. who \in User \cup Circle \cup Contact
  BY DEF Target
<1>2. "grant" \in Step /\ then \in Step
  BY DEF Step
<1>3. /\ j \in Job /\ j.step = "grant" /\ j.user = u /\ j.prayer = p /\ j.type = type
      /\ j.who = who
  <2> HIDE DEF then
  <2> QED
    BY <1>1, <1>2, IdleOK DEF Job
<1>4. Start(r, j) /\ p \in Live /\ ~Granted(p, type, who)
  BY DEF AddPrayerAccess
<1>5. type = "group" => who \in circles \/ u \in Admin
  BY DEF AddPrayerAccess, RowsOK, CirclesOK
<1> HIDE DEF j
<1> QED
  BY <1>3, <1>4, <1>5 DEF Ready, Holds, Fresh, Drawn, Live

LEMMA RemoveStarts ==
  ASSUME RowsOK, NEW r \in Request, NEW u \in User, NEW p \in Prayer, NEW a \in Access,
         RemovePrayerAccess(r, u, p, a)
  PROVE  \E j \in Job : Start(r, j) /\ Ready(j)
<1>1. PICK x \in {"dropAll", "dropOne"} :
          Start(r, [Idle EXCEPT !.step = x, !.prayer = p, !.access = a])
  BY DEF RemovePrayerAccess
<1> DEFINE j == [Idle EXCEPT !.step = x, !.prayer = p, !.access = a]
<1>2. j \in Job /\ j.step = x /\ j.prayer = p /\ j.type = "none"
  BY IdleOK DEF Job, Step
<1>3. p \in Live
  BY DEF RemovePrayerAccess
<1>4. Start(r, j)
  BY <1>1
<1> HIDE DEF j
<1> QED
  BY <1>2, <1>3, <1>4 DEF Ready, Holds, Fresh, Drawn, Live

LEMMA UpdateStarts ==
  ASSUME RowsOK, NEW r \in Request, NEW u \in User, NEW p \in Prayer, NEW e \in PrayerCreate,
         NEW s \in Contact \cup {None}, UpdatePrayer(r, u, p, e, s)
  PROVE  \E j \in Job : Start(r, j) /\ Ready(j)
<1> DEFINE b == Merged(e, prayer[p].body)
           o == IF s = None THEN prayer[p].contact ELSE s
           j == [Idle EXCEPT !.step = "update", !.prayer = p, !.body = b, !.contact = o]
<1>1. p \in Live /\ Start(r, j)
  BY DEF UpdatePrayer
<1>2. prayer[p] \in PrayerRow
  BY DEF RowsOK, PrayersOK
<1>3. b \in Body
  BY <1>2 DEF Merged, Body, PrayerRow
<1>4. o \in Contact \cup {None} /\ (TablesCalm /\ o = None => p \in stranded)
  BY <1>1, <1>2 DEF PrayerRow, TablesCalm, PrayersFollow, There
<1>5. j \in Job /\ j.step = "update" /\ j.prayer = p /\ j.contact = o /\ j.type = "none"
  <2> "update" \in Step
    BY DEF Step
  <2> HIDE DEF b, o
  <2> QED
    BY <1>3, <1>4, IdleOK DEF Job
<1> HIDE DEF j, o
<1> QED
  BY <1>1, <1>4, <1>5 DEF Ready, Holds, Fresh, Drawn, Live

LEMMA DeleteStarts ==
  ASSUME RowsOK, NEW r \in Request, NEW u \in User, NEW p \in Prayer, DeletePrayer(r, u, p)
  PROVE  \E j \in Job : Start(r, j) /\ Ready(j)
<1> DEFINE j == [Idle EXCEPT !.step = "delete", !.prayer = p]
<1>1. p \in Live /\ RowsOf(p) = {} /\ Start(r, j)
  BY DEF DeletePrayer
<1>2. j \in Job /\ j.step = "delete" /\ j.prayer = p /\ j.type = "none"
  BY IdleOK DEF Job, Step
<1> HIDE DEF j
<1> QED
  BY <1>1, <1>2 DEF Ready, Holds, Fresh, Drawn, Live

LEMMA ChangeStarts ==
  ASSUME RowsOK, NEW r \in Request, NEW u \in User, NEW p \in Prayer, Change(r, u, p)
  PROVE  (\E j \in Job : Start(r, j) /\ Ready(j)) /\ UNCHANGED world
<1>1. UNCHANGED world
  BY DEF Change, AddPrayerAccess, RemovePrayerAccess, UpdatePrayer, DeletePrayer
<1> QED
  BY <1>1, AddStarts, RemoveStarts, UpdateStarts, DeleteStarts DEF Change

LEMMA ContactStarts ==
  ASSUME RowsOK, NEW r \in Request, NEW u \in User, NEW s \in Contact, NEW option,
         DeletePrayerSubject(r, u, s, option)
  PROVE  (\E j \in Job : Start(r, j) /\ Ready(j)) /\ UNCHANGED world
<1> DEFINE i == [Idle EXCEPT !.user = u, !.contact = s]
<1>1. i \in Job /\ i.user = u /\ i.contact = s /\ i.type = "none"
  BY IdleOK DEF Job
<1>2. s \in There /\ contact[s].user # contact[s].owner
  BY DEF DeletePrayerSubject
<1>3. \/ Of(s) \cap Live = {} /\ Start(r, [i EXCEPT !.step = "deleteContact"])
      \/ Start(r, [i EXCEPT !.step = "sweep"])
      \/ \E o \in SelfContacts(u) : Start(r, [i EXCEPT !.step = "reassign", !.other = o])
      \/ Start(r, [i EXCEPT !.step = "self", !.then = "reassign"])
  BY DEF DeletePrayerSubject
<1> HIDE DEF i
<1>4. ASSUME NEW x \in {"deleteContact", "sweep"}, x = "deleteContact" => Of(s) \cap Live = {},
             Start(r, [i EXCEPT !.step = x])
      PROVE  \E j \in Job : Start(r, j) /\ Ready(j)
  <2> DEFINE j == [i EXCEPT !.step = x]
  <2>1. j \in Job /\ j.step = x /\ j.contact = s /\ j.type = "none"
    BY <1>1 DEF Job, Step
  <2>2. Start(r, j)
    BY <1>4
  <2> HIDE DEF j
  <2> QED
    BY <1>4, <2>1, <2>2 DEF Ready, Holds, Fresh
<1>5. ASSUME NEW o \in SelfContacts(u), Start(r, [i EXCEPT !.step = "reassign", !.other = o])
      PROVE  \E j \in Job : Start(r, j) /\ Ready(j)
  <2> DEFINE j == [i EXCEPT !.step = "reassign", !.other = o]
  <2>1. o \in Contact /\ o # s
    BY <1>2 DEF SelfContacts, There
  <2>2. j \in Job /\ j.step = "reassign" /\ j.contact = s /\ j.other = o /\ j.type = "none"
    BY <1>1, <2>1 DEF Job, Step
  <2>3. Start(r, j)
    BY <1>5
  <2> HIDE DEF j
  <2> QED
    BY <1>2, <2>1, <2>2, <2>3 DEF Ready, Holds, Fresh
<1>6. ASSUME Start(r, [i EXCEPT !.step = "self", !.then = "reassign"])
      PROVE  \E j \in Job : Start(r, j) /\ Ready(j)
  <2> DEFINE j == [i EXCEPT !.step = "self", !.then = "reassign"]
  <2>1. /\ j \in Job /\ j.step = "self" /\ j.then = "reassign" /\ j.contact = s
        /\ j.type = "none" /\ j.user = u
    BY <1>1 DEF Job, Step
  <2>2. Start(r, j)
    BY <1>6
  <2> HIDE DEF j
  <2> QED
    BY <1>2, <2>1, <2>2 DEF Ready, Holds, Fresh
<1> QED
  BY <1>3, <1>4, <1>5, <1>6 DEF DeletePrayerSubject

\* The requests that change who is there.
LEMMA CircleStarts ==
  ASSUME RowsOK, NEW r \in Request, NEW u \in accounts, NEW c \in Circle, Membership(r, u, c)
  PROVE  (\E j \in Job : Start(r, j) /\ Ready(j)) /\ CirclesOK' /\ UNCHANGED circles
<1>1. u \in User
  BY DEF RowsOK, CirclesOK
<1>2. ASSUME NEW x \in {"card", "dropCard"}, NEW v \in User,
             Start(r, [Idle EXCEPT !.step = x, !.user = v, !.who = c])
      PROVE  \E j \in Job : Start(r, j) /\ Ready(j)
  <2> DEFINE j == [Idle EXCEPT !.step = x, !.user = v, !.who = c]
  <2> x \in Step
    BY DEF Step
  <2>1. j \in Job /\ j.step = x /\ j.user = v /\ j.type = "none"
    BY IdleOK DEF Job
  <2>2. Start(r, j)
    BY <1>2
  <2> HIDE DEF j
  <2> QED
    BY <2>1, <2>2 DEF Ready, Holds, Fresh
<1>3. ASSUME Start(r, [Idle EXCEPT !.step = "unshare", !.who = c])
      PROVE  \E j \in Job : Start(r, j) /\ Ready(j)
  <2> DEFINE j == [Idle EXCEPT !.step = "unshare", !.who = c]
  <2> "unshare" \in Step
    BY DEF Step
  <2>1. j \in Job /\ j.step = "unshare" /\ j.type = "none"
    BY IdleOK DEF Job
  <2>2. Start(r, j)
    BY <1>3
  <2> HIDE DEF j
  <2> QED
    BY <2>1, <2>2 DEF Ready, Holds, Fresh
<1>4. CASE Join(r, u, c)
  <2>1. /\ Start(r, [Idle EXCEPT !.step = "card", !.user = u, !.who = c]) /\ c \in circles
        /\ members' = members \cup {<<c, u>>} /\ UNCHANGED <<circles, accounts>>
    BY <1>4 DEF Join
  <2>2. \E j \in Job : Start(r, j) /\ Ready(j)
    BY <1>1, <1>2, <2>1
  <2>3. CirclesOK'
    BY <1>1, <2>1 DEF RowsOK, CirclesOK
  <2> QED
    BY <2>1, <2>2, <2>3
<1>5. ASSUME NEW v \in User, Leave(r, u, v, c)
      PROVE  (\E j \in Job : Start(r, j) /\ Ready(j)) /\ CirclesOK' /\ UNCHANGED circles
  BY <1>2, <1>5 DEF Leave, RowsOK, CirclesOK
<1>6. CASE DeleteGroup(r, u, c)
  BY <1>3, <1>6 DEF DeleteGroup, RowsOK, CirclesOK
<1> QED
  BY <1>4, <1>5, <1>6 DEF Membership

LEMMA AccountStarts ==
  ASSUME RowsOK, NEW r \in Request, NEW u \in accounts, NEW v \in User, DeleteUserAccount(r, u, v)
  PROVE  (\E j \in Job : Start(r, j) /\ Ready(j)) /\ UNCHANGED world
<1> DEFINE j == [Idle EXCEPT !.step = "accountLeave", !.user = v]
<1>1. j \in Job /\ j.step = "accountLeave" /\ j.type = "none"
  BY IdleOK DEF Job, Step
<1>2. Start(r, j) /\ UNCHANGED world
  BY DEF DeleteUserAccount
<1> HIDE DEF j
<1> QED
  BY <1>1, <1>2 DEF Ready, Holds, Fresh

LEMMA Starts ==
  ASSUME RowsOK, NEW r \in Request, Arrive(r)
  PROVE  (\E j \in Job : Start(r, j) /\ Ready(j)) /\ CirclesOK' /\ UNCHANGED circles
<1>1. accounts \subseteq User
  BY DEF RowsOK, CirclesOK
<1>2. UNCHANGED world => CirclesOK'
  BY DEF RowsOK, CirclesOK
<1> QED
  BY <1>1, <1>2, CreateStarts, ChangeStarts, ContactStarts, CircleStarts, AccountStarts DEF Arrive

-----------------------------------------------------------------------------
(* Statements *)

Drawing == \A p \in Prayer : Drawn(p) => Drawn(p)'

\* A statement of r leaves the rows as they should be, and its job with what the
\* next statement needs.
Keeps(r) ==
    /\ RowsOK' /\ Drawing /\ UNCHANGED calm
    /\ \E j \in Job : /\ job' = [job EXCEPT ![r] = j]
                      /\ Holds(j)' /\ (TablesCalm /\ Fresh(job[r]) => Fresh(j)')

LEMMA IdleFresh == Fresh(Idle)' /\ Holds(Idle)'
  BY IdleOK DEF Fresh, Holds

\* A contact of u's, with any other fields.
LEMMA NewContact ==
  ASSUME ContactsOK, NEW s \in Contact, contact[s].state = "undrawn", NEW row \in ContactRow,
         row.state = "there", row.owner \in User, LinkOK(row),
         row.circle \in circles \cup {None}, UNCHANGED circles,
         contact' = [contact EXCEPT ![s] = row]
  PROVE  ContactsOK' /\ There' = There \cup {s}
<1>1. contact' \in [Contact -> ContactRow]
      /\ \A t \in Contact : contact'[t] = IF t = s THEN row ELSE contact[t]
  BY DEF ContactsOK
<1>2. There' = There \cup {s}
  BY <1>1 DEF There
<1> QED
  BY <1>1, <1>2 DEF ContactsOK, There

\* Some columns of a contact that is there, or of none.
LEMMA ContactsWritten ==
  ASSUME ContactsOK, contact' \in [Contact -> ContactRow],
         \A s \in Contact : /\ contact'[s].state = contact[s].state
                            /\ contact'[s].owner = contact[s].owner,
         \A s \in There : /\ LinkOK(contact'[s])
                          /\ contact'[s].circle \in circles' \cup {None}
  PROVE  ContactsOK' /\ There' = There
<1>1. There' = There
  BY DEF There
<1> QED
  BY <1>1 DEF ContactsOK, There

LEMMA SelfKeeps ==
  ASSUME Inv, NEW r \in Request, NEW s \in Contact, GetOrCreateSelfPrayerSubject(r, s)
  PROVE  Keeps(r)
<1> DEFINE i == job[r]
<1>1. /\ i \in Job /\ i.step = "self" /\ Holds(i) /\ i.user \in User
      /\ i.then \in {"insert", "reassign"}
  BY DEF GetOrCreateSelfPrayerSubject, At, Inv, JobsOK, Holds
<1>2. contact[s].state = "undrawn"
  BY DEF GetOrCreateSelfPrayerSubject, NextId
<1>3. ContactsOK' /\ There' = There \cup {s}
  <2> DEFINE row == [state |-> "there", owner |-> i.user, user |-> i.user, linked |-> TRUE,
                     kind |-> "other", circle |-> None]
  <2>1. contact' = [contact EXCEPT ![s] = row] /\ UNCHANGED circles
    BY DEF GetOrCreateSelfPrayerSubject
  <2> HIDE DEF i
  <2>2. row \in ContactRow /\ row.state = "there" /\ row.owner \in User /\ LinkOK(row)
        /\ row.circle = None
    BY <1>1 DEF ContactRow, LinkOK
  <2> HIDE DEF row
  <2> QED
    BY <1>2, <2>1, <2>2, NewContact DEF Inv, RowsOK
<1>4. UNCHANGED <<prayer, access, world, history, calm>>
  BY DEF GetOrCreateSelfPrayerSubject, Become
<1>5. RowsOK' /\ Drawing
  BY <1>3, <1>4, SamePrayers, SameAccess DEF Inv, RowsOK, Kept, CirclesOK, HistoryOK, Drawing
<1>6. \E j \in Job : /\ job' = [job EXCEPT ![r] = j]
                     /\ j.user = i.user /\ j.type = i.type /\ j.who = i.who
                     /\ \/ i.then = "insert" /\ j.step = "insert"
                        \/ /\ i.then = "reassign" /\ j.step = "reassign"
                           /\ j.contact = i.contact /\ j.other = s
  <2> HIDE DEF i
  <2>1. CASE i.then = "insert"
    <3> DEFINE j == [i EXCEPT !.step = "insert", !.contact = s]
    <3>1. j \in Job /\ j.step = "insert" /\ j.user = i.user /\ j.type = i.type /\ j.who = i.who
      BY <1>1 DEF Job, Step
    <3>2. job' = [job EXCEPT ![r] = j]
      BY <2>1 DEF i, GetOrCreateSelfPrayerSubject, Become
    <3> HIDE DEF j
    <3> QED
      BY <2>1, <3>1, <3>2
  <2>2. CASE i.then = "reassign"
    <3> DEFINE j == [i EXCEPT !.step = i.then, !.other = s]
    <3>1. /\ j \in Job /\ j.step = "reassign" /\ j.user = i.user /\ j.type = i.type
          /\ j.who = i.who /\ j.contact = i.contact /\ j.other = s
      BY <1>1, <2>2 DEF Job, Step
    <3>2. job' = [job EXCEPT ![r] = j]
      BY <2>2 DEF i, GetOrCreateSelfPrayerSubject, Become
    <3> HIDE DEF j
    <3> QED
      BY <2>2, <3>1, <3>2
  <2> QED
    BY <1>1, <2>1, <2>2
<1>7. PICK j \in Job :
          /\ job' = [job EXCEPT ![r] = j]
          /\ j.user = i.user /\ j.type = i.type /\ j.who = i.who
          /\ \/ i.then = "insert" /\ j.step = "insert"
             \/ /\ i.then = "reassign" /\ j.step = "reassign"
                /\ j.contact = i.contact /\ j.other = s
  BY <1>6
<1>8. Holds(j)'
  BY <1>1, <1>7 DEF Holds
<1>9. ASSUME Fresh(i) PROVE Fresh(j)'
  <2>1. j.type = "group" => j.who \in circles' \/ j.user \in Admin
    BY <1>4, <1>7, <1>9 DEF Fresh
  <2>2. j.step = "reassign" => j.contact \in There' /\ j.other # j.contact
    BY <1>1, <1>2, <1>3, <1>7, <1>9 DEF Fresh, There
  <2> QED
    BY <1>7, <2>1, <2>2 DEF Fresh
<1> QED
  BY <1>4, <1>5, <1>7, <1>8, <1>9 DEF Keeps

LEMMA InsertPrayerKeeps ==
  ASSUME Inv, NEW r \in Request, NEW p \in Prayer, InsertPrayer(r, p)
  PROVE  Keeps(r)
<1> DEFINE i == job[r]
           k == [i EXCEPT !.step = "grant", !.prayer = p]
           row == [state |-> "live", creator |-> i.user, contact |-> i.contact, body |-> i.body]
<1>1. /\ i \in Job /\ i.step = "insert" /\ Holds(i) /\ i.user \in User
      /\ i.type \in {"user", "group", "subject"} /\ i.who \in Target(i.type)
  BY DEF InsertPrayer, At, Inv, JobsOK, Holds
<1>2. prayer[p].state = "undrawn" /\ i.contact \in There
  BY DEF InsertPrayer, NextId
<1>3. prayer' = [prayer EXCEPT ![p] = row] /\ job' = [job EXCEPT ![r] = k]
      /\ UNCHANGED <<contact, access, world, history, calm>>
  BY DEF InsertPrayer, Become
<1>4. row \in PrayerRow /\ row.state = "live" /\ row.creator = i.user /\ row.contact = i.contact
  <2> HIDE DEF i
  <2> QED
    BY <1>1, <1>2 DEF There, PrayerRow, Job
<1>5. PICK j \in Job : /\ job' = [job EXCEPT ![r] = j] /\ j.step = "grant" /\ j.prayer = p
                       /\ j.user = i.user /\ j.type = i.type /\ j.who = i.who
  <2>1. /\ k \in Job /\ k.step = "grant" /\ k.prayer = p
        /\ k.user = i.user /\ k.type = i.type /\ k.who = i.who
    <3> HIDE DEF i
    <3> QED
      BY <1>1 DEF Job, Step
  <2> HIDE DEF k
  <2> QED
    BY <1>3, <2>1
<1> HIDE DEF row, k
<1>6. prayer' \in [Prayer -> PrayerRow]
      /\ \A q \in Prayer : prayer'[q] = IF q = p THEN row ELSE prayer[q]
  BY <1>3, <1>4 DEF Inv, RowsOK, PrayersOK
<1>7. PrayersOK' /\ Drawing /\ Drawn(p)' /\ Kept \subseteq Kept'
  <2>1. Kept' = Kept \cup {p} /\ Drawing /\ Drawn(p)'
    BY <1>2, <1>4, <1>6 DEF Kept, Drawing, Drawn
  <2>2. PrayersOK'
    BY <1>1, <1>2, <1>3, <1>4, <1>6, <2>1 DEF Inv, RowsOK, PrayersOK, There
  <2> QED
    BY <2>1, <2>2
<1>8. RowsOK'
  BY <1>3, <1>7, SameAccess DEF Inv, RowsOK, ContactsOK, There, CirclesOK, HistoryOK
<1>9. Holds(j)'
  BY <1>1, <1>5, <1>7 DEF Holds
<1>10. ASSUME Fresh(i) PROVE Fresh(j)'
  <2>1. p \in Live'
    BY <1>4, <1>6 DEF Live
  <2>2. \A t, w : ~Granted(p, t, w)'
    BY <1>2, <1>3 DEF Granted, RowsOf, Rows, Inv, RowsOK, AccessOK, Kept
  <2>3. j.type = "group" => j.who \in circles' \/ j.user \in Admin
    BY <1>3, <1>5, <1>10 DEF Fresh
  <2> QED
    BY <1>5, <2>1, <2>2, <2>3 DEF Fresh
<1> QED
  BY <1>3, <1>5, <1>7, <1>8, <1>9, <1>10 DEF Keeps

LEMMA InsertAccessKeeps ==
  ASSUME Inv, NEW r \in Request, NEW a \in Access, InsertAccess(r, a)
  PROVE  Keeps(r)
<1> DEFINE i == job[r]
           k == [i EXCEPT !.step = "shareSelf"]
           row == [state |-> "there", prayer |-> i.prayer, type |-> i.type, who |-> i.who,
                   by |-> i.user]
<1>1. /\ i \in Job /\ i.step = "grant" /\ Holds(i) /\ i.user \in User /\ Drawn(i.prayer)
      /\ i.type \in {"user", "group", "subject"} /\ i.who \in Target(i.type)
  BY DEF InsertAccess, At, Inv, JobsOK, Holds
<1>2. access' = [access EXCEPT ![a] = row] /\ job' = [job EXCEPT ![r] = IF i.then = "shareSelf" THEN k ELSE Idle]
      /\ UNCHANGED <<contact, prayer, world, history, calm>>
  BY DEF InsertAccess, Become
<1>3. row \in AccessRow /\ row.state = "there" /\ row.prayer = i.prayer /\ row.type = i.type
      /\ row.who = i.who /\ row.by = i.user
  <2> HIDE DEF i
  <2> QED
    BY <1>1 DEF AccessRow, Job
<1>4. k \in Job /\ k.step = "shareSelf" /\ k.prayer = i.prayer /\ k.user = i.user
      /\ k.type = i.type /\ k.who = i.who
  <2> HIDE DEF i
  <2> QED
    BY <1>1 DEF Job, Step
<1> HIDE DEF row, k
<1>5. access' \in [Access -> AccessRow]
      /\ \A b \in Access : access'[b] = IF b = a THEN row ELSE access[b]
  BY <1>2, <1>3 DEF Inv, RowsOK, AccessOK
<1>6. AccessOK'
  <2>1. Kept' = Kept /\ i.prayer \in Kept
    BY <1>2 DEF InsertAccess, Kept
  <2> HIDE DEF i
  <2> QED
    BY <1>1, <1>3, <1>5, <2>1 DEF Inv, RowsOK, AccessOK, Rows
<1>7. RowsOK' /\ Drawing
  BY <1>2, <1>6, SamePrayers DEF Inv, RowsOK, ContactsOK, There, CirclesOK, HistoryOK, Drawing
<1>8. PICK j \in Job : /\ job' = [job EXCEPT ![r] = j]
                       /\ \/ j = Idle
                          \/ /\ j.step = "shareSelf" /\ j.prayer = i.prayer
                             /\ j.user = i.user /\ j.type = i.type /\ j.who = i.who
  BY <1>2, <1>4, IdleOK
<1>9. Holds(j)' /\ (Fresh(i) => Fresh(j)')
  BY <1>1, <1>2, <1>8, IdleOK, IdleFresh DEF Holds, Fresh, Drawn, Live
<1> QED
  BY <1>2, <1>7, <1>8, <1>9 DEF Keeps

LEMMA ShareKeeps ==
  ASSUME Inv, NEW r \in Request, ShareWithSelf(r)
  PROVE  Keeps(r)
<1> DEFINE i == job[r]
           k == [i EXCEPT !.step = "grant", !.type = "user", !.who = i.user, !.then = "idle"]
<1>1. i \in Job /\ i.step = "shareSelf" /\ i.user \in User /\ Drawn(i.prayer)
  BY DEF ShareWithSelf, At, Inv, JobsOK, Holds
<1>2. /\ UNCHANGED <<contact, prayer, access, world, swept, stranded, calm>>
      /\ sharers' = sharers \cup {<<i.prayer, i.user>>}
      /\ job' = [job EXCEPT ![r] = IF Granted(i.prayer, "user", i.user) THEN Idle ELSE k]
  BY DEF ShareWithSelf, Become
<1>3. k \in Job /\ k.step = "grant" /\ k.prayer = i.prayer /\ k.user = i.user
      /\ k.type = "user" /\ k.who = i.user
  <2> HIDE DEF i
  <2> QED
    BY <1>1 DEF Job, Step
<1> HIDE DEF k
<1>4. RowsOK' /\ Drawing
  BY <1>1, <1>2, SamePrayers, SameAccess
  DEF Inv, RowsOK, ContactsOK, There, Kept, CirclesOK, HistoryOK, Drawing, Drawn
<1>5. PICK j \in Job :
          /\ job' = [job EXCEPT ![r] = j]
          /\ \/ j = Idle
             \/ /\ ~Granted(i.prayer, "user", i.user) /\ j.step = "grant" /\ j.prayer = i.prayer
                /\ j.user = i.user /\ j.type = "user" /\ j.who = i.user
  BY <1>2, <1>3, IdleOK
<1>6. Holds(j)'
  BY <1>1, <1>2, <1>5, IdleFresh DEF Holds, Drawn, Target
<1>7. Fresh(i) => Fresh(j)'
  BY <1>1, <1>2, <1>5, IdleFresh DEF Fresh, Live, Granted, RowsOf, Rows
<1> QED
  BY <1>2, <1>4, <1>5, <1>6, <1>7 DEF Keeps

LEMMA GotoJob ==
  ASSUME JobsOK, NEW r \in Request, NEW x \in Step, Goto(r, x)
  PROVE  /\ UNCHANGED calm
         /\ \E j \in Job : /\ job' = [job EXCEPT ![r] = j] /\ j.step = x
                           /\ j.prayer = job[r].prayer /\ j.contact = job[r].contact
                           /\ j.type = job[r].type /\ j.who = job[r].who /\ j.user = job[r].user
<1> DEFINE i == job[r]
           j == [i EXCEPT !.step = x]
<1>1. i \in Job
  BY DEF JobsOK
<1>2. /\ j \in Job /\ j.step = x /\ j.prayer = i.prayer /\ j.contact = i.contact
      /\ j.type = i.type /\ j.who = i.who /\ j.user = i.user
  <2> HIDE DEF i
  <2> QED
    BY <1>1 DEF Job
<1>3. job' = [job EXCEPT ![r] = j] /\ UNCHANGED calm
  BY DEF Goto, Become
<1> HIDE DEF j
<1> QED
  BY <1>2, <1>3

\* Back to idle.
LEMMA EndKeeps ==
  ASSUME RowsOK', Drawing, NEW r \in Request, Become(r, Idle)
  PROVE  Keeps(r)
  BY IdleOK, IdleFresh DEF Become, Keeps

LEMMA RowsDeleted ==
  ASSUME RowsOK, NEW A, DeleteRows(A)
  PROVE  /\ Rows' = Rows \ A /\ \A a \in Rows' : a \in Rows /\ access'[a] = access[a]
         /\ (\A a \in Rows \ A : access[a].prayer \in Kept') => AccessOK'
         /\ sharers' \subseteq sharers
<1>1. access' = [a \in Access |-> IF a \in A \cap Rows THEN [NoAccessRow EXCEPT !.state = "gone"]
                                                       ELSE access[a]]
      /\ sharers' \subseteq sharers
  BY DEF DeleteRows
<1> DEFINE gone == [NoAccessRow EXCEPT !.state = "gone"]
<1>2. gone \in AccessRow /\ gone.state = "gone"
  BY DEF NoAccessRow, AccessRow
<1> HIDE DEF gone
<1>3. access' \in [Access -> AccessRow]
      /\ \A a \in Access : access'[a] = IF a \in A \cap Rows THEN gone ELSE access[a]
  BY <1>1, <1>2 DEF RowsOK, AccessOK, gone
<1>4. Rows' = Rows \ A /\ \A a \in Rows' : access'[a] = access[a]
  BY <1>2, <1>3 DEF Rows
<1>5. \A a \in Rows' : a \in Rows \ A /\ access'[a] = access[a]
  BY <1>4
<1> QED
  BY <1>1, <1>3, <1>4, <1>5 DEF RowsOK, AccessOK

\* Of the rows of anything but the access table nothing is changed.
LEMMA OnlyRowsDeleted ==
  ASSUME RowsOK, NEW A, DeleteRows(A), UNCHANGED <<contact, prayer, world, swept, stranded, calm>>
  PROVE  RowsOK' /\ Drawing
<1>1. AccessOK'
  <2>1. \A a \in Rows \ A : access[a].prayer \in Kept'
    BY DEF RowsOK, AccessOK, Kept
  <2> QED
    BY <2>1, RowsDeleted
<1>2. sharers' \subseteq sharers
  BY RowsDeleted
<1> QED
  BY <1>1, <1>2 DEF RowsOK, ContactsOK, PrayersOK, There, Kept, CirclesOK, HistoryOK, Drawing, Drawn

LEMMA DropAllKeeps ==
  ASSUME Inv, NEW r \in Request, DropAll(r)
  PROVE  Keeps(r)
<1> DEFINE i == job[r]
<1>1. i \in Job /\ i.step = "dropAll" /\ Drawn(i.prayer)
  BY DEF DropAll, At, Inv, JobsOK, Holds
<1>2. DeleteRows(RowsOf(i.prayer)) /\ Goto(r, "delete")
      /\ UNCHANGED <<contact, prayer, world, swept, stranded>>
  BY DEF DropAll
<1>3. PICK j \in Job : /\ job' = [job EXCEPT ![r] = j] /\ j.step = "delete"
                       /\ j.prayer = i.prayer /\ j.type = i.type /\ j.who = i.who
                       /\ j.user = i.user
  BY <1>2, GotoJob DEF Inv, Step
<1>4. RowsOK' /\ Drawing /\ UNCHANGED calm
  BY <1>2, OnlyRowsDeleted DEF Inv, Goto, Become
<1>5. Holds(j)'
  BY <1>1, <1>3, <1>4 DEF Holds, Drawing, Drawn
<1>6. Rows' = Rows \ RowsOf(i.prayer) /\ \A a \in Rows' : access'[a] = access[a]
  BY <1>2, RowsDeleted DEF Inv
<1>7. RowsOf(j.prayer)' = {}
  BY <1>3, <1>6 DEF RowsOf
<1>8. Fresh(i) => Fresh(j)'
  BY <1>1, <1>2, <1>3, <1>7 DEF Fresh, Live
<1> QED
  BY <1>3, <1>4, <1>5, <1>8 DEF Keeps

LEMMA DropOneKeeps ==
  ASSUME Inv, NEW r \in Request, DropOne(r)
  PROVE  Keeps(r)
<1>1. DeleteRows({job[r].access}) /\ Become(r, Idle)
      /\ UNCHANGED <<contact, prayer, world, swept, stranded>>
  BY DEF DropOne
<1> QED
  BY <1>1, OnlyRowsDeleted, EndKeeps DEF Inv, Become

LEMMA UnshareKeeps ==
  ASSUME Inv, NEW r \in Request, Unshare(r)
  PROVE  Keeps(r)
<1> DEFINE i == job[r]
           A == {a \in Rows : access[a].type = "group" /\ access[a].who = i.who}
<1>1. i \in Job /\ i.step = "unshare"
  BY DEF Unshare, At, Inv, JobsOK
<1>2. DeleteRows(A) /\ Goto(r, "dropCards")
      /\ UNCHANGED <<contact, prayer, world, swept, stranded>>
  BY DEF Unshare
<1>3. PICK j \in Job : /\ job' = [job EXCEPT ![r] = j] /\ j.step = "dropCards"
                       /\ j.prayer = i.prayer /\ j.type = i.type /\ j.who = i.who
                       /\ j.user = i.user
  BY <1>2, GotoJob DEF Inv, Step
<1>4. RowsOK' /\ Drawing /\ UNCHANGED calm
  BY <1>2, OnlyRowsDeleted DEF Inv, Goto, Become
<1>5. Holds(j)'
  BY <1>3 DEF Holds
<1>6. Rows' = Rows \ A /\ \A a \in Rows' : access'[a] = access[a]
  BY <1>2, RowsDeleted DEF Inv
<1>7. \A a \in Rows' : ~(access'[a].type = "group" /\ access'[a].who = j.who)
  BY <1>3, <1>6
<1>8. Fresh(i) => Fresh(j)'
  BY <1>1, <1>2, <1>3, <1>7 DEF Fresh
<1> QED
  BY <1>3, <1>4, <1>5, <1>8 DEF Keeps

\* A table of prayers is written, drawn ids staying drawn, others left alone.
LEMMA PrayersWritten ==
  ASSUME RowsOK, PrayersOK', Kept \subseteq Kept', UNCHANGED <<contact, access, world, sharers, calm>>,
         swept' \subseteq Prayer, stranded' \subseteq Prayer
  PROVE  RowsOK'
  BY SameAccess DEF RowsOK, ContactsOK, There, CirclesOK, HistoryOK

\* The columns a statement writes, of every prayer.
LEMMA UpdateWrites ==
  ASSUME Inv, NEW r \in Request, Update(r)
  PROVE  /\ job[r] \in Job /\ job[r].prayer \in Prayer /\ job[r].contact \in There \cup {None}
         /\ prayer' \in [Prayer -> PrayerRow]
         /\ \A q \in Prayer : /\ prayer'[q].state = prayer[q].state
                              /\ prayer'[q].creator = prayer[q].creator
                              /\ prayer'[q].contact = IF q \in Kept /\ q = job[r].prayer
                                                      THEN job[r].contact ELSE prayer[q].contact
<1> DEFINE i == job[r]
<1>1. i \in Job /\ i.step = "update" /\ i.prayer \in Prayer /\ i.contact \in There \cup {None}
  BY DEF Update, At, Inv, JobsOK, Holds, Drawn
<1>2. prayer' = [p \in Prayer |-> IF p \in Kept \cap {i.prayer}
                                 THEN [prayer[p] EXCEPT !.body = i.body, !.contact = i.contact]
                                 ELSE prayer[p]]
  BY DEF Update
<1> HIDE DEF i
<1>3. i.body \in Body /\ i.contact \in Contact \cup {None}
  BY <1>1 DEF Job
<1>4. \A row \in PrayerRow : LET m == [row EXCEPT !.body = i.body, !.contact = i.contact] IN
          /\ m \in PrayerRow /\ m.state = row.state /\ m.creator = row.creator
          /\ m.contact = i.contact
  BY <1>3 DEF PrayerRow
<1>5. /\ prayer' \in [Prayer -> PrayerRow]
      /\ \A q \in Prayer : /\ prayer'[q].state = prayer[q].state
                           /\ prayer'[q].creator = prayer[q].creator
                           /\ prayer'[q].contact = IF q \in Kept /\ q = i.prayer
                                                   THEN i.contact ELSE prayer[q].contact
  BY <1>2, <1>4 DEF Inv, RowsOK, PrayersOK
<1> QED
  BY <1>1, <1>5 DEF i

\* A statement that changes no prayer's state but from live to deleted.
LEMMA SameStates ==
  ASSUME \A p \in Prayer : \/ prayer'[p].state = prayer[p].state
                           \/ p \in Kept /\ prayer'[p].state = "deleted"
  PROVE  Kept' = Kept /\ Drawing
  BY DEF Kept, Drawing, Drawn

LEMMA UpdateKeeps ==
  ASSUME Inv, NEW r \in Request, Update(r)
  PROVE  Keeps(r)
<1>1. /\ Become(r, Idle) /\ UNCHANGED <<contact, access, world, swept, sharers>>
      /\ stranded' \subseteq stranded
  BY DEF Update
<1>2. Kept' = Kept /\ Drawing
  BY UpdateWrites, SameStates
<1>3. PrayersOK'
  BY <1>1, <1>2, UpdateWrites DEF Inv, RowsOK, PrayersOK, There
<1> QED
  BY <1>1, <1>2, <1>3, PrayersWritten, EndKeeps DEF Inv, RowsOK, HistoryOK, Become

LEMMA MarkWrites ==
  ASSUME Inv, NEW r \in Request, MarkDeleted(r)
  PROVE  /\ job[r].step = "delete" /\ prayer' \in [Prayer -> PrayerRow]
         /\ \A q \in Prayer :
                /\ prayer'[q].state = IF q \in Kept /\ q = job[r].prayer THEN "deleted"
                                      ELSE prayer[q].state
                /\ prayer'[q].creator = prayer[q].creator /\ prayer'[q].contact = prayer[q].contact
<1> DEFINE x == job[r].prayer
<1>1. prayer' = [p \in Prayer |-> IF p \in Kept \cap {x} THEN [prayer[p] EXCEPT !.state = "deleted"]
                                                        ELSE prayer[p]]
      /\ job[r].step = "delete"
  BY DEF MarkDeleted, At
<1> HIDE DEF x
<1>2. \A row \in PrayerRow : LET m == [row EXCEPT !.state = "deleted"] IN
          /\ m \in PrayerRow /\ m.state = "deleted" /\ m.creator = row.creator
          /\ m.contact = row.contact
  BY DEF PrayerRow
<1>3. /\ prayer' \in [Prayer -> PrayerRow]
      /\ \A q \in Prayer :
             /\ prayer'[q].state = IF q \in Kept /\ q = x THEN "deleted" ELSE prayer[q].state
             /\ prayer'[q].creator = prayer[q].creator /\ prayer'[q].contact = prayer[q].contact
  BY <1>1, <1>2 DEF Inv, RowsOK, PrayersOK
<1> QED
  BY <1>1, <1>3 DEF x

LEMMA MarkKeeps ==
  ASSUME Inv, NEW r \in Request, MarkDeleted(r)
  PROVE  Keeps(r)
<1>1. Become(r, Idle) /\ UNCHANGED <<contact, access, world, history>>
  BY DEF MarkDeleted
<1>2. Kept' = Kept /\ Drawing
  BY MarkWrites, SameStates
<1>3. PrayersOK'
  BY <1>1, <1>2, MarkWrites DEF Inv, RowsOK, PrayersOK, There
<1> QED
  BY <1>1, <1>2, <1>3, PrayersWritten, EndKeeps DEF Inv, RowsOK, HistoryOK, Become

\* The prayers of a contact are kept.
LEMMA OfKept ==
  ASSUME RowsOK, NEW s \in Contact
  PROVE  \A p \in Of(s) : p \in Kept
  BY DEF RowsOK, PrayersOK, Of

LEMMA ReassignWrites ==
  ASSUME Inv, NEW r \in Request, Reassign(r)
  PROVE  /\ job[r].contact \in Contact /\ job[r].other \in There /\ job[r].step = "reassign"
         /\ prayer' \in [Prayer -> PrayerRow]
         /\ \A p \in Prayer :
                /\ prayer'[p].state = prayer[p].state /\ prayer'[p].creator = prayer[p].creator
                /\ prayer'[p].contact = IF p \in Of(job[r].contact) THEN job[r].other
                                        ELSE prayer[p].contact
<1> DEFINE o == job[r].other
           s == job[r].contact
<1>1. job[r].step = "reassign" /\ s \in Contact /\ o \in There
  BY DEF Reassign, At, Inv, JobsOK, Holds
<1>2. prayer' = [p \in Prayer |-> IF p \in Of(s) THEN [prayer[p] EXCEPT !.contact = o]
                                  ELSE prayer[p]]
  BY DEF Reassign
<1> HIDE DEF o, s
<1>3. \A row \in PrayerRow : LET m == [row EXCEPT !.contact = o] IN
          m \in PrayerRow /\ m.state = row.state /\ m.creator = row.creator /\ m.contact = o
  BY <1>1 DEF PrayerRow, There
<1>4. prayer' \in [Prayer -> PrayerRow]
      /\ \A p \in Prayer : /\ prayer'[p].state = prayer[p].state
                           /\ prayer'[p].creator = prayer[p].creator
                           /\ prayer'[p].contact = IF p \in Of(s) THEN o ELSE prayer[p].contact
  BY <1>2, <1>3 DEF Inv, RowsOK, PrayersOK
<1> QED
  BY <1>1, <1>4 DEF o, s

LEMMA ReassignKeeps ==
  ASSUME Inv, NEW r \in Request, Reassign(r)
  PROVE  Keeps(r)
<1> DEFINE i == job[r]
<1>1. Goto(r, "deleteContact") /\ UNCHANGED <<contact, access, world, history>>
  BY DEF Reassign
<1>2. PICK j \in Job : /\ job' = [job EXCEPT ![r] = j] /\ j.step = "deleteContact"
                       /\ j.contact = i.contact /\ j.type = i.type /\ j.who = i.who
                       /\ j.user = i.user
  BY <1>1, GotoJob DEF Inv, Step
<1>3. PrayersOK' /\ Kept' = Kept /\ Drawing
  <2>1. Kept' = Kept /\ Drawing
    BY ReassignWrites, SameStates, OfKept DEF Inv
  <2>2. PrayersOK'
    BY <1>1, <2>1, ReassignWrites, OfKept DEF Inv, RowsOK, PrayersOK, There
  <2> QED
    BY <2>1, <2>2
<1>4. RowsOK' /\ UNCHANGED calm
  BY <1>1, <1>3, PrayersWritten DEF Inv, RowsOK, HistoryOK, Goto, Become
<1>5. Holds(j)'
  BY <1>2, ReassignWrites DEF Holds
<1>6. Fresh(i) => Fresh(j)'
  <2>1. i.other # i.contact => Of(j.contact)' = {}
    BY <1>2, ReassignWrites DEF Of
  <2> QED
    BY <1>1, <1>2, <2>1, ReassignWrites DEF Fresh
<1> QED
  BY <1>2, <1>3, <1>4, <1>5, <1>6 DEF Keeps

LEMMA SweepWrites ==
  ASSUME Inv, NEW r \in Request, Sweep(r)
  PROVE  /\ job[r].contact \in Contact /\ job[r].step = "sweep"
         /\ swept' = swept \cup Of(job[r].contact)
         /\ prayer' \in [Prayer -> PrayerRow]
         /\ \A p \in Prayer :
                /\ prayer'[p].state = IF p \in Of(job[r].contact) THEN "deleted"
                                      ELSE prayer[p].state
                /\ prayer'[p].creator = prayer[p].creator /\ prayer'[p].contact = prayer[p].contact
<1> DEFINE s == job[r].contact
<1>1. s \in Contact /\ job[r].step = "sweep"
  BY DEF Sweep, At, Inv, JobsOK, Holds
<1>2. /\ prayer' = [p \in Prayer |-> IF p \in Of(s) THEN [prayer[p] EXCEPT !.state = "deleted"]
                                     ELSE prayer[p]]
      /\ swept' = swept \cup Of(s)
  BY DEF Sweep
<1> HIDE DEF s
<1>3. \A row \in PrayerRow : LET m == [row EXCEPT !.state = "deleted"] IN
          /\ m \in PrayerRow /\ m.state = "deleted" /\ m.creator = row.creator
          /\ m.contact = row.contact
  BY DEF PrayerRow
<1>4. prayer' \in [Prayer -> PrayerRow]
      /\ \A p \in Prayer : /\ prayer'[p].state = IF p \in Of(s) THEN "deleted" ELSE prayer[p].state
                           /\ prayer'[p].creator = prayer[p].creator
                           /\ prayer'[p].contact = prayer[p].contact
  BY <1>2, <1>3 DEF Inv, RowsOK, PrayersOK
<1> QED
  BY <1>1, <1>2, <1>4 DEF s

LEMMA SweepKeeps ==
  ASSUME Inv, NEW r \in Request, Sweep(r)
  PROVE  Keeps(r)
<1> DEFINE i == job[r]
<1>1. Goto(r, "deleteContact") /\ UNCHANGED <<contact, access, world, sharers, stranded>>
  BY DEF Sweep
<1>2. PICK j \in Job : /\ job' = [job EXCEPT ![r] = j] /\ j.step = "deleteContact"
                       /\ j.contact = i.contact /\ j.type = i.type /\ j.who = i.who
                       /\ j.user = i.user
  BY <1>1, GotoJob DEF Inv, Step
<1>3. PrayersOK' /\ Kept' = Kept /\ Drawing
  <2>1. Kept' = Kept /\ Drawing
    BY SweepWrites, SameStates, OfKept DEF Inv
  <2>2. PrayersOK'
    BY <1>1, <2>1, SweepWrites DEF Inv, RowsOK, PrayersOK, There
  <2> QED
    BY <2>1, <2>2
<1>4. RowsOK' /\ UNCHANGED calm
  BY <1>1, <1>3, SweepWrites, PrayersWritten DEF Inv, RowsOK, HistoryOK, Goto, Become, Of
<1>5. Holds(j)'
  BY <1>2, SweepWrites DEF Holds
<1>6. Fresh(i) => Fresh(j)'
  <2>1. (Of(j.contact) \cap Live)' = {}
    <3>1. \A p \in Prayer : prayer'[p].contact = i.contact => prayer'[p].state = "deleted"
      BY SweepWrites DEF Of
    <3> QED
      BY <1>2, <3>1 DEF Of, Live
  <2> QED
    BY <1>1, <1>2, <2>1 DEF Fresh
<1> QED
  BY <1>2, <1>3, <1>4, <1>5, <1>6 DEF Keeps

\* What goes with contacts: no prayer is for them any more.
LEMMA ContactsRemoved ==
  ASSUME RowsOK, NEW S, RemoveContacts(S), UNCHANGED circles
  PROVE  /\ ContactsOK' /\ PrayersOK' /\ There' = There \ S
         /\ Kept' = Kept /\ Live' = Live /\ Drawing
         /\ \A p \in Prayer : prayer'[p].contact = IF prayer[p].contact \in S THEN None
                                                   ELSE prayer[p].contact
<1> DEFINE gone == [NoContactRow EXCEPT !.state = "gone"]
<1>1. gone \in ContactRow /\ gone.state = "gone"
  BY DEF NoContactRow, ContactRow
<1>2. contact' = [s \in Contact |-> IF s \in S THEN gone ELSE contact[s]]
  BY DEF RemoveContacts
<1> HIDE DEF gone
<1>3. contact' \in [Contact -> ContactRow]
      /\ \A t \in Contact : contact'[t] = IF t \in S THEN gone ELSE contact[t]
  BY <1>1, <1>2 DEF RowsOK, ContactsOK
<1>4. There' = There \ S
  BY <1>1, <1>3 DEF There
<1>5. ContactsOK'
  BY <1>3, <1>4 DEF RowsOK, ContactsOK, There
<1>6. \A row \in PrayerRow : LET m == [row EXCEPT !.contact = None] IN
          m \in PrayerRow /\ m.state = row.state /\ m.creator = row.creator /\ m.contact = None
  BY DEF PrayerRow
<1>7. /\ prayer' \in [Prayer -> PrayerRow]
      /\ \A p \in Prayer : /\ prayer'[p].state = prayer[p].state
                           /\ prayer'[p].creator = prayer[p].creator
                           /\ prayer'[p].contact = IF prayer[p].contact \in S THEN None
                                                   ELSE prayer[p].contact
  BY <1>6 DEF RemoveContacts, RowsOK, PrayersOK
<1>8. Kept' = Kept /\ Live' = Live /\ Drawing
  BY <1>7 DEF Kept, Live, Drawing, Drawn
<1>9. PrayersOK'
  BY <1>4, <1>7, <1>8 DEF RowsOK, PrayersOK
<1> QED
  BY <1>4, <1>5, <1>7, <1>8, <1>9

LEMMA DeleteContactKeeps ==
  ASSUME Inv, NEW r \in Request, DeleteContact(r)
  PROVE  Keeps(r)
<1>1. /\ RemoveContacts({job[r].contact}) /\ Become(r, Idle)
      /\ UNCHANGED <<access, world, history>>
  BY DEF DeleteContact
<1>2. ContactsOK' /\ PrayersOK' /\ Kept' = Kept /\ Drawing
  BY <1>1, ContactsRemoved DEF Inv
<1>3. RowsOK'
  BY <1>1, <1>2, SameAccess DEF Inv, RowsOK, CirclesOK, HistoryOK, Become
<1> QED
  BY <1>1, <1>2, <1>3, EndKeeps

-----------------------------------------------------------------------------
(* Circles, cards and accounts *)

LEMMA EnsureCardKeeps ==
  ASSUME Inv, NEW r \in Request, NEW s \in Contact, EnsureCard(r, s)
  PROVE  Keeps(r) /\ There \subseteq There'
<1> DEFINE u == job[r].user
           c == job[r].who
           row == [state |-> "there", owner |-> u, user |-> None, linked |-> FALSE,
                   kind |-> "group", circle |-> c]
<1>1. u \in User
  BY DEF EnsureCard, At, Inv, JobsOK, Holds
<1>2. /\ \/ UNCHANGED contact
         \/ c \in circles /\ s \in There /\ contact' = [contact EXCEPT ![s].circle = c]
         \/ c \in circles /\ contact[s].state = "undrawn" /\ contact' = [contact EXCEPT ![s] = row]
      /\ Become(r, Idle) /\ UNCHANGED <<prayer, access, world, history>>
  BY DEF EnsureCard, NextId
<1> HIDE DEF u, c
<1>3. ContactsOK' /\ There \subseteq There'
  <2>1. CASE UNCHANGED contact
    BY <1>2, <2>1 DEF Inv, RowsOK, ContactsOK, There
  <2>2. CASE c \in circles /\ s \in There /\ contact' = [contact EXCEPT ![s].circle = c]
    <3> DEFINE new == [contact[s] EXCEPT !.circle = c]
    <3>1. contact[s] \in ContactRow /\ c \in Circle
      BY <2>2 DEF Inv, RowsOK, ContactsOK, CirclesOK
    <3>2. /\ new \in ContactRow /\ new.state = contact[s].state /\ new.owner = contact[s].owner
          /\ LinkOK(contact[s]) => LinkOK(new) /\ new.circle = c
      BY <3>1 DEF ContactRow, LinkOK
    <3>3. contact' \in [Contact -> ContactRow]
          /\ \A t \in Contact : contact'[t] = IF t = s THEN new ELSE contact[t]
      BY <2>2, <3>2 DEF Inv, RowsOK, ContactsOK
    <3> HIDE DEF new
    <3>4. \A t \in Contact : /\ contact'[t].state = contact[t].state
                             /\ contact'[t].owner = contact[t].owner
      BY <3>2, <3>3
    <3>5. \A t \in There : /\ LinkOK(contact'[t])
                           /\ contact'[t].circle \in circles' \cup {None}
      BY <1>2, <2>2, <3>2, <3>3 DEF Inv, RowsOK, ContactsOK, There
    <3> QED
      BY <3>3, <3>4, <3>5, ContactsWritten DEF Inv, RowsOK
  <2>3. CASE /\ c \in circles /\ contact[s].state = "undrawn"
             /\ contact' = [contact EXCEPT ![s] = row]
    <3>1. /\ row \in ContactRow /\ row.state = "there" /\ row.owner \in User /\ LinkOK(row)
          /\ row.circle \in circles
      BY <1>1, <2>3 DEF ContactRow, LinkOK, Inv, RowsOK, CirclesOK
    <3> HIDE DEF row
    <3> QED
      BY <1>2, <2>3, <3>1, NewContact DEF Inv, RowsOK
  <2> QED
    BY <1>2, <2>1, <2>2, <2>3
<1>4. PrayersOK' /\ Kept' = Kept /\ Drawing
  BY <1>2, <1>3, SamePrayers DEF Inv, RowsOK, Kept, Drawing
<1>5. RowsOK'
  BY <1>2, <1>3, <1>4, SameAccess DEF Inv, RowsOK, CirclesOK, HistoryOK, Become
<1> QED
  BY <1>2, <1>3, <1>4, <1>5, EndKeeps

LEMMA TornDown ==
  ASSUME RowsOK, NEW S, TearDown(S), UNCHANGED <<access, world, swept, sharers, calm>>
  PROVE  RowsOK' /\ Drawing
<1>1. ContactsOK' /\ PrayersOK' /\ Kept' = Kept /\ Drawing
  BY ContactsRemoved DEF TearDown
<1>2. stranded' \subseteq Prayer
  BY DEF TearDown, RowsOK, HistoryOK
<1> QED
  BY <1>1, <1>2, SameAccess DEF RowsOK, CirclesOK, HistoryOK

LEMMA DropCardKeeps ==
  ASSUME Inv, NEW r \in Request, DropCard(r)
  PROVE  Keeps(r)
<1>1. /\ UNCHANGED <<contact, prayer, stranded>> \/ \E s \in Contact : TearDown({s})
      /\ Become(r, Idle) /\ UNCHANGED <<access, world, swept, sharers>>
  BY DEF DropCard, Cards, WiredTo, There
<1>2. RowsOK' /\ Drawing
  <2>1. CASE UNCHANGED <<contact, prayer, stranded>>
    BY <1>1, <2>1, SamePrayers, SameAccess
    DEF Become, Inv, RowsOK, ContactsOK, There, Kept, CirclesOK, HistoryOK, Drawing
  <2> QED
    BY <1>1, <2>1, TornDown DEF Inv, Become
<1> QED
  BY <1>1, <1>2, EndKeeps

LEMMA DropCardsKeeps ==
  ASSUME Inv, NEW r \in Request, DropCards(r)
  PROVE  Keeps(r)
<1> DEFINE i == job[r]
<1>1. /\ i.step = "dropCards" /\ TearDown(Cards(i.who)) /\ Goto(r, "dropCircle")
      /\ UNCHANGED <<access, world, swept, sharers>>
  BY DEF DropCards, At
<1>2. PICK j \in Job : /\ job' = [job EXCEPT ![r] = j] /\ j.step = "dropCircle"
                       /\ j.type = i.type /\ j.who = i.who /\ j.user = i.user
  BY <1>1, GotoJob DEF Inv, Step
<1>3. RowsOK' /\ Drawing /\ UNCHANGED calm
  BY <1>1, TornDown DEF Inv, Goto, Become
<1>4. Holds(j)'
  BY <1>2 DEF Holds
<1>5. Fresh(i) => Fresh(j)'
  BY <1>1, <1>2 DEF Fresh, Rows
<1> QED
  BY <1>2, <1>3, <1>4, <1>5 DEF Keeps

LEMMA DropCircleKeeps ==
  ASSUME Inv, NEW r \in Request, DropCircle(r)
  PROVE  Keeps(r) /\ There' = There
<1> DEFINE c == job[r].who
<1>1. /\ circles' = circles \ {c}
      /\ members' = {m \in members : m[1] # c}
      /\ contact' = [s \in Contact |-> IF s \in WiredTo(c) THEN [contact[s] EXCEPT !.circle = None]
                                       ELSE contact[s]]
      /\ Become(r, Idle) /\ UNCHANGED <<prayer, access, accounts, history>>
  BY DEF DropCircle
<1> HIDE DEF c
<1>2. CirclesOK'
  BY <1>1 DEF Inv, RowsOK, CirclesOK
<1>3. \A row \in ContactRow : LET m == [row EXCEPT !.circle = None] IN
          /\ m \in ContactRow /\ m.state = row.state /\ m.owner = row.owner
          /\ (LinkOK(row) => LinkOK(m)) /\ m.circle = None
  BY DEF ContactRow, LinkOK
<1>4. /\ contact' \in [Contact -> ContactRow]
      /\ \A s \in Contact :
             /\ contact'[s].state = contact[s].state /\ contact'[s].owner = contact[s].owner
             /\ LinkOK(contact[s]) => LinkOK(contact'[s])
             /\ contact'[s].circle = IF s \in WiredTo(c) THEN None ELSE contact[s].circle
  BY <1>1, <1>3 DEF Inv, RowsOK, ContactsOK
<1>5. \A s \in There : /\ LinkOK(contact'[s])
                       /\ contact'[s].circle \in circles' \cup {None}
  BY <1>1, <1>4 DEF Inv, RowsOK, ContactsOK, WiredTo, There
<1>6. ContactsOK' /\ There' = There
  BY <1>4, <1>5, ContactsWritten DEF Inv, RowsOK
<1>7. PrayersOK' /\ Kept' = Kept /\ Drawing
  BY <1>1, <1>6, SamePrayers DEF Inv, RowsOK, Kept, Drawing
<1>8. RowsOK'
  BY <1>1, <1>2, <1>6, <1>7, SameAccess DEF Inv, RowsOK, HistoryOK, Become
<1> QED
  BY <1>1, <1>6, <1>7, <1>8, EndKeeps

\* The steps of an account's deletion leave what the next one needs: nothing.
LEMMA AccountGoesOn ==
  ASSUME Inv, RowsOK', Drawing, UNCHANGED circles, NEW r \in Request,
         NEW x \in {"accountAccess", "accountPrayers", "accountRow"}, Goto(r, x)
  PROVE  Keeps(r)
<1>1. PICK j \in Job : /\ job' = [job EXCEPT ![r] = j] /\ j.step = x
                       /\ j.type = job[r].type /\ j.who = job[r].who /\ j.user = job[r].user
  BY GotoJob DEF Inv, Step
<1>2. Holds(j)' /\ (Fresh(job[r]) => Fresh(j)')
  BY <1>1 DEF Holds, Fresh
<1> QED
  BY <1>1, <1>2 DEF Keeps, Goto, Become

LEMMA AccountLeaveKeeps ==
  ASSUME Inv, NEW r \in Request, AccountLeave(r)
  PROVE  Keeps(r)
<1>1. /\ members' \subseteq members /\ Goto(r, "accountAccess")
      /\ UNCHANGED <<contact, prayer, access, circles, accounts, history>>
  BY DEF AccountLeave
<1>2. RowsOK' /\ Drawing
  BY <1>1, SamePrayers, SameAccess
  DEF Goto, Become, Inv, RowsOK, ContactsOK, There, Kept, CirclesOK, HistoryOK, Drawing
<1> QED
  BY <1>1, <1>2, AccountGoesOn

LEMMA AccountAccessKeeps ==
  ASSUME Inv, NEW r \in Request, AccountAccess(r)
  PROVE  Keeps(r)
<1>1. /\ DeleteRows({a \in Rows : access[a].type = "user" /\ access[a].who = job[r].user})
      /\ Goto(r, "accountPrayers") /\ UNCHANGED <<contact, prayer, world, swept, stranded>>
  BY DEF AccountAccess
<1> QED
  BY <1>1, OnlyRowsDeleted, AccountGoesOn DEF Inv, Goto, Become

LEMMA AccountPrayersWrites ==
  ASSUME RowsOK, NEW r \in Request, AccountPrayers(r)
  PROVE  \E P \in SUBSET Kept :
             /\ Kept' = Kept \ P /\ Live' = Live \ P /\ Drawing
             /\ DeleteRows({a \in Rows : access[a].prayer \in P})
             /\ PrayersOK' /\ \A p \in Kept' : prayer'[p] = prayer[p]
<1> DEFINE P == {p \in Kept : prayer[p].creator = job[r].user}
           gone == [NoPrayerRow EXCEPT !.state = "gone"]
<1>1. /\ prayer' = [p \in Prayer |-> IF p \in P THEN gone ELSE prayer[p]]
      /\ DeleteRows({a \in Rows : access[a].prayer \in P}) /\ UNCHANGED contact
  BY DEF AccountPrayers
<1>2. gone \in PrayerRow /\ gone.state = "gone" /\ gone.contact = None
  BY DEF NoPrayerRow, PrayerRow, Blank, Body
<1>3. P \subseteq Kept
  OBVIOUS
<1> HIDE DEF P, gone
<1>4. prayer' \in [Prayer -> PrayerRow]
      /\ \A p \in Prayer : prayer'[p] = IF p \in P THEN gone ELSE prayer[p]
  BY <1>1, <1>2 DEF RowsOK, PrayersOK
<1>5. Kept' = Kept \ P /\ Live' = Live \ P /\ Drawing
  BY <1>2, <1>4 DEF Kept, Live, Drawing, Drawn
<1>6. \A p \in Kept' : prayer'[p] = prayer[p]
  BY <1>4, <1>5 DEF Kept
<1>7. PrayersOK'
  BY <1>1, <1>2, <1>4, <1>5 DEF RowsOK, PrayersOK, There
<1> QED
  BY <1>1, <1>3, <1>5, <1>6, <1>7

LEMMA AccountPrayersKeeps ==
  ASSUME Inv, NEW r \in Request, AccountPrayers(r)
  PROVE  Keeps(r)
<1>1. PICK P \in SUBSET Kept :
          /\ Kept' = Kept \ P /\ Drawing /\ PrayersOK'
          /\ DeleteRows({a \in Rows : access[a].prayer \in P})
  BY AccountPrayersWrites DEF Inv
<1>2. Goto(r, "accountRow") /\ UNCHANGED <<contact, world, swept, stranded>>
  BY DEF AccountPrayers
<1>3. AccessOK' /\ sharers' \subseteq sharers
  BY <1>1, RowsDeleted DEF Inv, RowsOK, AccessOK
<1>4. RowsOK'
  BY <1>1, <1>2, <1>3 DEF Goto, Become, Inv, RowsOK, ContactsOK, There, CirclesOK, HistoryOK
<1> QED
  BY <1>1, <1>2, <1>4, AccountGoesOn

LEMMA AccountRowKeeps ==
  ASSUME Inv, NEW r \in Request, AccountRow(r)
  PROVE  Keeps(r)
<1>1. /\ accounts' \subseteq accounts /\ Become(r, Idle)
      /\ UNCHANGED <<contact, prayer, access, members, circles, history>>
  BY DEF AccountRow
<1>2. RowsOK' /\ Drawing
  BY <1>1, SamePrayers, SameAccess
  DEF Become, Inv, RowsOK, ContactsOK, There, Kept, CirclesOK, HistoryOK, Drawing
<1> QED
  BY <1>1, <1>2, EndKeeps

LEMMA StatementKeeps ==
  ASSUME Inv, NEW r \in Request, Statement(r)
  PROVE  Keeps(r)
  BY SelfKeeps, InsertPrayerKeeps, InsertAccessKeeps, ShareKeeps, DropAllKeeps, DropOneKeeps,
     UpdateKeeps, MarkKeeps, ReassignKeeps, SweepKeeps, DeleteContactKeeps, UnshareKeeps,
     DropCircleKeeps, EnsureCardKeeps, DropCardKeeps, DropCardsKeeps, AccountLeaveKeeps,
     AccountAccessKeeps, AccountPrayersKeeps, AccountRowKeeps
  DEF Statement

-----------------------------------------------------------------------------
(* Every step *)

LEMMA ElsewhereKeeps ==
  ASSUME Inv, Elsewhere
  PROVE  /\ Inv' /\ UNCHANGED <<prayer, access, world, history, job>>
         /\ There \subseteq There' /\ (calm' => calm /\ \A q \in Request : job[q] = Idle)
<1>1. UNCHANGED <<prayer, access, world, history, job>> /\ AtOnce
  BY DEF Elsewhere, CreateContact, Relink, Retype, AtOnce
<1>2. calm' \in BOOLEAN /\ (calm' => calm /\ \A q \in Request : job[q] = Idle)
  <2>1. calm' = (calm /\ \A q \in Request : job[q] = Idle)
    BY <1>1, Zenon DEF AtOnce
  <2> QED
    BY <2>1, Zenon DEF Inv, RowsOK, HistoryOK
<1>3. ContactsOK' /\ There \subseteq There'
  <2>1. ASSUME NEW s \in Contact, NEW u \in accounts, NEW v \in User \cup {None},
               NEW kind \in {"group", "other"}, CreateContact(s, u, v, kind)
        PROVE  ContactsOK' /\ There \subseteq There'
    <3> DEFINE row == [state |-> "there", owner |-> u, user |-> v, linked |-> v # None,
                       kind |-> kind, circle |-> None]
    <3>1. contact[s].state = "undrawn" /\ contact' = [contact EXCEPT ![s] = row]
      BY <2>1 DEF CreateContact, NextId
    <3>2. (v # None) \in BOOLEAN /\ u \in User
      BY DEF Inv, RowsOK, CirclesOK
    <3>3. row \in ContactRow /\ row.state = "there" /\ row.owner \in User
          /\ LinkOK(row) /\ row.circle = None
      BY <3>2 DEF ContactRow, LinkOK
    <3> HIDE DEF row
    <3> QED
      BY <1>1, <3>1, <3>3, NewContact DEF Inv, RowsOK
  <2>2. ASSUME NEW s \in There, NEW row \in ContactRow, contact' = [contact EXCEPT ![s] = row],
               row.state = contact[s].state, row.owner = contact[s].owner,
               LinkOK(row), row.circle = contact[s].circle
        PROVE  ContactsOK' /\ There \subseteq There'
    <3>1. contact' \in [Contact -> ContactRow]
          /\ \A t \in Contact : contact'[t] = IF t = s THEN row ELSE contact[t]
      BY <2>2 DEF Inv, RowsOK, ContactsOK, There
    <3>2. \A t \in Contact : /\ contact'[t].state = contact[t].state
                             /\ contact'[t].owner = contact[t].owner
      BY <2>2, <3>1
    <3>3. \A t \in There : /\ LinkOK(contact'[t])
                           /\ contact'[t].circle \in circles' \cup {None}
      BY <1>1, <2>2, <3>1 DEF Inv, RowsOK, ContactsOK, There
    <3> QED
      BY <3>1, <3>2, <3>3, ContactsWritten DEF Inv, RowsOK
  <2>3. ASSUME NEW s \in Contact, NEW v \in User \cup {None}, NEW b \in BOOLEAN, Relink(s, v, b)
        PROVE  ContactsOK' /\ There \subseteq There'
    <3>1. /\ s \in There /\ (b => v # None)
          /\ contact' = [contact EXCEPT ![s].user = v, ![s].linked = b]
      BY <2>3 DEF Relink
    <3> DEFINE row == [contact[s] EXCEPT !.user = v, !.linked = b]
    <3>2. contact[s] \in ContactRow
      BY DEF Inv, RowsOK, ContactsOK
    <3>3. /\ row \in ContactRow /\ row.state = contact[s].state /\ row.owner = contact[s].owner
          /\ LinkOK(row) /\ row.circle = contact[s].circle
      BY <3>1, <3>2 DEF ContactRow, LinkOK
    <3>4. contact' = [contact EXCEPT ![s] = row]
      BY <3>1
    <3> HIDE DEF row
    <3> QED
      BY <2>2, <3>1, <3>3, <3>4
  <2>4. ASSUME NEW s \in Contact, NEW kind \in {"group", "other"}, Retype(s, kind)
        PROVE  ContactsOK' /\ There \subseteq There'
    <3>1. s \in There /\ contact' = [contact EXCEPT ![s].kind = kind]
      BY <2>4 DEF Retype
    <3> DEFINE row == [contact[s] EXCEPT !.kind = kind]
    <3>2. contact[s] \in ContactRow /\ LinkOK(contact[s])
      BY <3>1 DEF Inv, RowsOK, ContactsOK
    <3>3. /\ row \in ContactRow /\ row.state = contact[s].state /\ row.owner = contact[s].owner
          /\ LinkOK(row) /\ row.circle = contact[s].circle
      BY <3>2 DEF ContactRow, LinkOK
    <3>4. contact' = [contact EXCEPT ![s] = row]
      BY <3>1
    <3> HIDE DEF row
    <3> QED
      BY <2>2, <3>1, <3>2, <3>3, <3>4
  <2> QED
    BY <2>1, <2>3, <2>4 DEF Elsewhere
<1> QED
  BY <1>1, <1>2, <1>3, SamePrayers, SameAccess, KeepJobs DEF Inv, RowsOK, Kept, CirclesOK, HistoryOK

LEMMA StartsKeep ==
  ASSUME Inv, NEW r \in Request, Arrive(r)
  PROVE  /\ Inv' /\ UNCHANGED <<contact, prayer, access, circles, history>>
         /\ calm' => calm /\ \A q \in Request : job[q] = Idle
         /\ \E j \in Job : job' = [job EXCEPT ![r] = j] /\ (TablesCalm => Fresh(j))
<1>1. PICK j \in Job : Start(r, j) /\ Ready(j)
  BY Starts DEF Inv
<1>2. CirclesOK' /\ UNCHANGED circles
  BY Starts DEF Inv
<1>3. /\ job' = [job EXCEPT ![r] = j] /\ job[r] = Idle
      /\ UNCHANGED <<contact, prayer, access, history>>
  BY <1>1 DEF Start
<1>4. calm' \in BOOLEAN /\ (calm' => calm /\ \A q \in Request : job[q] = Idle)
  <2>1. calm' = (calm /\ \A q \in Request \ {r} : job[q] = Idle)
    BY <1>1, Zenon DEF Start
  <2> QED
    BY <1>3, <2>1, Zenon DEF Inv, RowsOK, HistoryOK
<1>5. RowsOK'
  BY <1>2, <1>3, <1>4, SamePrayers, SameAccess
  DEF Inv, RowsOK, ContactsOK, There, Kept, HistoryOK
<1>6. Holds(j)' /\ \A p \in Prayer : Drawn(p) => Drawn(p)'
  BY <1>1, <1>3 DEF Ready, Holds, Drawn
<1>7. JobsOK'
  BY <1>3, <1>6, PutJob DEF Inv
<1> QED
  BY <1>1, <1>2, <1>3, <1>4, <1>5, <1>7 DEF Inv, Ready

LEMMA InvInit == Init => Inv
<1> SUFFICES ASSUME Init PROVE Inv
  OBVIOUS
<1>1. NoContactRow \in ContactRow /\ NoContactRow.state = "undrawn"
  BY DEF NoContactRow, ContactRow
<1>2. NoPrayerRow \in PrayerRow /\ NoPrayerRow.state = "undrawn" /\ NoPrayerRow.contact = None
  BY DEF NoPrayerRow, PrayerRow, Blank, Body
<1>3. NoAccessRow \in AccessRow /\ NoAccessRow.state = "undrawn"
  BY DEF NoAccessRow, AccessRow
<1>4. ContactsOK
  BY <1>1 DEF Init, ContactsOK, There
<1>5. PrayersOK
  BY <1>2 DEF Init, PrayersOK, Kept
<1>6. AccessOK
  BY <1>3 DEF Init, AccessOK, Rows
<1>7. CirclesOK
  BY DEF Init, CirclesOK
<1>8. HistoryOK /\ JobsOK
  BY IdleOK DEF Init, HistoryOK, JobsOK
<1> QED
  BY <1>4, <1>5, <1>6, <1>7, <1>8 DEF Inv, RowsOK

LEMMA InvNext == Inv /\ [Next]_vars => Inv'
<1> SUFFICES ASSUME Inv, [Next]_vars PROVE Inv'
  OBVIOUS
<1>1. ASSUME NEW r \in Request, Statement(r) PROVE Inv'
  <2>1. Keeps(r)
    BY <1>1, StatementKeeps
  <2>2. PICK j \in Job : job' = [job EXCEPT ![r] = j] /\ Holds(j)'
    BY <2>1 DEF Keeps
  <2> QED
    BY <2>1, <2>2, PutJob DEF Inv, Keeps, Drawing
<1>2. ASSUME NEW r \in Request, Abandon(r) \/ GoOn(r) PROVE Inv'
  <2>1. calm' = FALSE /\ UNCHANGED <<contact, prayer, access, world, history>>
    BY <1>2 DEF Abandon, GoOn
  <2>2. \E j \in Job : job' = [job EXCEPT ![r] = j] /\ Holds(j)
    <3>1. CASE Abandon(r)
      BY <3>1, IdleOK DEF Abandon
    <3>2. CASE GoOn(r)
      <4> DEFINE i == job[r]
                 j == [i EXCEPT !.step = "dropCircle"]
      <4>1. i \in Job
        BY DEF Inv, JobsOK
      <4>2. j \in Job /\ j.step = "dropCircle"
        <5> HIDE DEF i
        <5> QED
          BY <4>1 DEF Job, Step
      <4>3. job' = [job EXCEPT ![r] = j]
        BY <3>2 DEF GoOn
      <4> HIDE DEF j
      <4> QED
        BY <4>2, <4>3 DEF Holds
    <3> QED
      BY <1>2, <3>1, <3>2
  <2>3. PICK j \in Job : job' = [job EXCEPT ![r] = j] /\ Holds(j)
    BY <2>2
  <2>4. Holds(j)' /\ \A p \in Prayer : Drawn(p) => Drawn(p)'
    BY <2>1, <2>3, HoldsGrow DEF Drawn
  <2>5. JobsOK'
    BY <2>3, <2>4, PutJob DEF Inv
  <2>6. RowsOK'
    BY <2>1, SamePrayers, SameAccess DEF Inv, RowsOK, ContactsOK, There, Kept, CirclesOK, HistoryOK
  <2> QED
    BY <2>5, <2>6 DEF Inv
<1>3. ASSUME UNCHANGED vars PROVE Inv'
  BY <1>3, SamePrayers, SameAccess, KeepJobs
  DEF vars, Inv, RowsOK, ContactsOK, There, Kept, CirclesOK, HistoryOK
<1> QED
  BY <1>1, <1>2, <1>3, Kinds, StartsKeep, ElsewhereKeeps

LEMMA InvAlways == Spec => []Inv
  BY InvInit, InvNext, PTL DEF Spec

\* Whatever the requests overlap or leave undone: the contact of a prayer is there,
\* and an access row is of a prayer that was created, names a user, a circle or a
\* contact as its type says, and was added by a user.
THEOREM TypeCorrect == Spec => []TypeOK
<1>1. Inv => TypeOK
  <2>1. Inv => \A s \in There : contact[s].linked => contact[s].user \in User
    BY Zenon DEF Inv, RowsOK, ContactsOK, LinkOK
  <2>2. Inv => \A p \in Kept : prayer[p].creator \in User /\ prayer[p].contact \in There \cup {None}
    BY DEF Inv, RowsOK, PrayersOK, Kept
  <2> QED
    BY <2>1, <2>2 DEF Inv, RowsOK, ContactsOK, PrayersOK, AccessOK, CirclesOK, HistoryOK, JobsOK, TypeOK
<1> QED
  BY <1>1, InvAlways, PTL

-----------------------------------------------------------------------------
(* Rows while requests do not overlap *)

LEMMA Tables ==
  ASSUME Inv, NEW r \in Request, Statement(r), TablesCalm, Fresh(job[r])
  PROVE  TablesCalm'
<1> DEFINE i == job[r]
<1>1. ASSUME NEW s \in Contact, GetOrCreateSelfPrayerSubject(r, s) PROVE TablesCalm'
  <2>1. \E row : row.state = "there" /\ contact' = [contact EXCEPT ![s] = row]
    BY <1>1 DEF GetOrCreateSelfPrayerSubject
  <2>2. There \subseteq There'
    BY <2>1 DEF There, Inv, RowsOK, ContactsOK
  <2>3. UNCHANGED <<prayer, access, circles, swept, stranded>>
    BY <1>1 DEF GetOrCreateSelfPrayerSubject
  <2> QED
    BY <2>2, <2>3 DEF TablesCalm, Unique, RowsFollow, PrayersFollow, Rows, Live
<1>2. ASSUME NEW p \in Prayer, InsertPrayer(r, p) PROVE TablesCalm'
  <2> DEFINE row == [state |-> "live", creator |-> i.user, contact |-> i.contact, body |-> i.body]
  <2>1. /\ prayer' = [prayer EXCEPT ![p] = row] /\ i.contact \in There
        /\ UNCHANGED <<contact, access, circles, swept, stranded>>
    BY <1>2 DEF InsertPrayer
  <2>2. row.state = "live" /\ row.contact = i.contact
    OBVIOUS
  <2> HIDE DEF row
  <2>3. \A q \in Prayer : prayer'[q] = IF q = p THEN row ELSE prayer[q]
    BY <2>1 DEF Inv, RowsOK, PrayersOK
  <2> QED
    BY <2>1, <2>2, <2>3 DEF TablesCalm, Unique, RowsFollow, PrayersFollow, Rows, Live, There
<1>3. ASSUME NEW a \in Access, InsertAccess(r, a) PROVE TablesCalm'
  <2> DEFINE row == [state |-> "there", prayer |-> i.prayer, type |-> i.type, who |-> i.who,
                     by |-> i.user]
  <2>1. /\ access' = [access EXCEPT ![a] = row] /\ i.step = "grant" /\ access[a].state = "undrawn"
        /\ UNCHANGED <<contact, prayer, circles, swept, stranded>>
    BY <1>3 DEF InsertAccess, At, NextId
  <2>2. row.state = "there" /\ row.prayer = i.prayer /\ row.type = i.type /\ row.who = i.who
        /\ row.by = i.user
    OBVIOUS
  <2> HIDE DEF row
  <2>3. \A b \in Access : access'[b] = IF b = a THEN row ELSE access[b]
    BY <2>1 DEF Inv, RowsOK, AccessOK
  <2>4. /\ i.prayer \in Live
        /\ \A b \in Rows : ~(access[b].prayer = i.prayer /\ access[b].type = i.type
                                                         /\ access[b].who = i.who)
        /\ i.type = "group" => i.who \in circles \/ i.user \in Admin
    BY <2>1 DEF Fresh, Granted, RowsOf
  <2> HIDE DEF i
  <2>5. a \notin Rows /\ Rows' = Rows \cup {a}
    BY <2>1, <2>2, <2>3 DEF Rows
  <2>6. Unique'
    BY <2>2, <2>3, <2>4, <2>5 DEF TablesCalm, Unique, Rows
  <2>7. RowsFollow'
    <3>1. Live' = Live /\ swept' = swept /\ circles' = circles
      BY <2>1 DEF Live
    <3>2. \A b \in Rows : access'[b] = access[b]
      BY <2>3, <2>5 DEF Rows
    <3>3. access'[a] = row
      BY <2>3
    <3> QED
      BY <2>2, <2>4, <2>5, <3>1, <3>2, <3>3 DEF TablesCalm, RowsFollow
  <2> QED
    BY <2>1, <2>6, <2>7 DEF TablesCalm, PrayersFollow, Live, There
<1>4. ASSUME ShareWithSelf(r) PROVE TablesCalm'
  BY <1>4 DEF ShareWithSelf, TablesCalm, Unique, RowsFollow, PrayersFollow, Rows, Live, There
<1>5. ASSUME NEW A, DeleteRows(A), UNCHANGED <<contact, prayer, circles, swept, stranded>>
      PROVE  TablesCalm'
  <2>1. \A a \in Rows' : a \in Rows /\ access'[a] = access[a]
    BY <1>5, RowsDeleted DEF Inv
  <2> QED
    BY <1>5, <2>1 DEF TablesCalm, Unique, RowsFollow, PrayersFollow, Live, There
<1>6. ASSUME DropAll(r) \/ DropOne(r) \/ Unshare(r) \/ AccountAccess(r) PROVE TablesCalm'
  BY <1>5, <1>6 DEF DropAll, DropOne, Unshare, AccountAccess
<1>7. ASSUME Update(r) PROVE TablesCalm'
  <2>1. /\ i.step = "update" /\ UNCHANGED <<contact, access, circles, swept>>
        /\ stranded' = IF i.contact = None THEN stranded ELSE stranded \ {i.prayer}
    BY <1>7 DEF Update, At
  <2>2. i.contact = None /\ i.prayer \in Live => i.prayer \in stranded
    BY <2>1 DEF Fresh
  <2>3. /\ i.contact \in There \cup {None}
        /\ \A q \in Prayer : /\ prayer'[q].state = prayer[q].state
                             /\ prayer'[q].contact = IF q \in Kept /\ q = i.prayer
                                                     THEN i.contact ELSE prayer[q].contact
    BY <1>7, UpdateWrites
  <2> HIDE DEF i
  <2>4. Live' = Live /\ There' = There
    BY <2>1, <2>3 DEF Live, There
  <2>5. PrayersFollow'
    BY <2>1, <2>2, <2>3, <2>4 DEF TablesCalm, PrayersFollow, Live, Kept
  <2> QED
    BY <2>1, <2>4, <2>5 DEF TablesCalm, Unique, RowsFollow, Rows
<1>8. ASSUME MarkDeleted(r) PROVE TablesCalm'
  <2>1. UNCHANGED <<contact, access, circles, swept, stranded>>
    BY <1>8 DEF MarkDeleted
  <2>2. RowsOf(i.prayer) = {}
    BY <1>8, MarkWrites DEF Fresh
  <2>3. Live' = Live \ {i.prayer}
    BY <1>8, MarkWrites DEF Live, Kept
  <2>4. \A a \in Rows : access[a].prayer # i.prayer
    BY <2>2 DEF RowsOf
  <2> QED
    BY <1>8, <2>1, <2>3, <2>4, MarkWrites
    DEF TablesCalm, Unique, RowsFollow, PrayersFollow, Rows, There, Live
<1>9. ASSUME Reassign(r) PROVE TablesCalm'
  <2>1. UNCHANGED <<contact, access, circles, swept, stranded>>
    BY <1>9 DEF Reassign
  <2> QED
    BY <1>9, <2>1, ReassignWrites
    DEF TablesCalm, Unique, RowsFollow, PrayersFollow, Rows, There, Live
<1>10. ASSUME Sweep(r) PROVE TablesCalm'
  <2>1. UNCHANGED <<contact, access, circles>>
    BY <1>10 DEF Sweep
  <2>2. Live' = Live \ Of(i.contact) /\ swept' = swept \cup Of(i.contact) /\ UNCHANGED stranded
    BY <1>10, SweepWrites DEF Live, Sweep
  <2>3. \A p \in Live' : p \in Live /\ prayer'[p].contact = prayer[p].contact
    BY <1>10, <2>2, SweepWrites DEF Live
  <2>4. PrayersFollow'
    BY <2>1, <2>2, <2>3 DEF TablesCalm, PrayersFollow, There
  <2>5. RowsFollow'
    BY <2>1, <2>2 DEF TablesCalm, RowsFollow, Rows
  <2> QED
    BY <2>1, <2>4, <2>5 DEF TablesCalm, Unique, Rows
<1>11. ASSUME NEW S, RemoveContacts(S), UNCHANGED <<access, circles, swept>>,
             \A p \in Live : p \in stranded \/ prayer[p].contact \in S => p \in stranded'
       PROVE  TablesCalm'
  <2>1. /\ There' = There \ S /\ Live' = Live
        /\ \A p \in Prayer : prayer'[p].contact = IF prayer[p].contact \in S THEN None
                                                  ELSE prayer[p].contact
    BY <1>11, ContactsRemoved DEF Inv
  <2>2. PrayersFollow'
    BY <1>11, <2>1 DEF TablesCalm, PrayersFollow, Live
  <2> QED
    BY <1>11, <2>1, <2>2 DEF TablesCalm, Unique, RowsFollow, Rows
<1>12. ASSUME DeleteContact(r) PROVE TablesCalm'
  <2>1. /\ RemoveContacts({i.contact}) /\ i.step = "deleteContact"
        /\ UNCHANGED <<access, circles, swept, stranded>>
    BY <1>12 DEF DeleteContact, At
  <2>2. Of(i.contact) \cap Live = {}
    BY <2>1 DEF Fresh
  <2>3. \A p \in Live : prayer[p].contact # i.contact
    BY <2>2 DEF Of, Live
  <2> QED
    BY <1>11, <2>1, <2>3
<1>13. ASSUME NEW S, TearDown(S), UNCHANGED <<access, circles, swept>> PROVE TablesCalm'
  BY <1>11, <1>13 DEF TearDown, Live
<1>14. ASSUME DropCard(r) \/ DropCards(r) PROVE TablesCalm'
  <2>1. UNCHANGED <<access, circles, swept>>
    BY <1>14 DEF DropCard, DropCards
  <2>2. ASSUME UNCHANGED <<contact, prayer, stranded>> PROVE TablesCalm'
    BY <2>1, <2>2 DEF TablesCalm, Unique, RowsFollow, PrayersFollow, Rows, Live, There
  <2> QED
    BY <1>13, <1>14, <2>1, <2>2 DEF DropCard, DropCards
<1>15. ASSUME DropCircle(r) PROVE TablesCalm'
  <2>1. /\ i.step = "dropCircle" /\ circles' = circles \ {i.who}
        /\ UNCHANGED <<prayer, access, swept, stranded>>
    BY <1>15 DEF DropCircle, At
  <2>2. \A a \in Rows : ~(access[a].type = "group" /\ access[a].who = i.who)
    BY <2>1 DEF Fresh
  <2>3. There' = There
    BY <1>15, DropCircleKeeps
  <2> QED
    BY <2>1, <2>2, <2>3 DEF TablesCalm, Unique, RowsFollow, PrayersFollow, Rows, Live
<1>16. ASSUME NEW s \in Contact, EnsureCard(r, s) PROVE TablesCalm'
  <2>1. There \subseteq There'
    BY <1>16, EnsureCardKeeps
  <2>2. UNCHANGED <<prayer, access, circles, swept, stranded>>
    BY <1>16 DEF EnsureCard
  <2> QED
    BY <2>1, <2>2 DEF TablesCalm, Unique, RowsFollow, PrayersFollow, Rows, Live
<1>17. ASSUME AccountLeave(r) \/ AccountRow(r) PROVE TablesCalm'
  BY <1>17
  DEF AccountLeave, AccountRow, TablesCalm, Unique, RowsFollow, PrayersFollow, Rows, Live, There
<1>18. ASSUME AccountPrayers(r) PROVE TablesCalm'
  <2>1. PICK P \in SUBSET Kept :
            /\ Kept' = Kept \ P /\ Live' = Live \ P
            /\ DeleteRows({a \in Rows : access[a].prayer \in P})
            /\ \A p \in Kept' : prayer'[p] = prayer[p]
    BY <1>18, AccountPrayersWrites DEF Inv, RowsOK
  <2>2. UNCHANGED <<contact, circles, swept, stranded>>
    BY <1>18 DEF AccountPrayers
  <2>3. \A a \in Rows' : /\ a \in Rows /\ access'[a] = access[a]
                         /\ access[a].prayer \notin P
    BY <2>1, RowsDeleted DEF Inv
  <2>4. Unique' /\ RowsFollow'
    BY <2>1, <2>2, <2>3 DEF TablesCalm, Unique, RowsFollow
  <2>5. \A p \in Live' : p \in Live /\ prayer'[p] = prayer[p]
    BY <2>1 DEF Live, Kept
  <2>6. PrayersFollow'
    BY <2>2, <2>5 DEF TablesCalm, PrayersFollow, There
  <2> QED
    BY <2>4, <2>6 DEF TablesCalm
<1> QED
  BY <1>1, <1>2, <1>3, <1>4, <1>6, <1>7, <1>8, <1>9, <1>10, <1>12, <1>14, <1>15, <1>16, <1>17, <1>18
  DEF Statement

\* A slot's next step takes the row that was missing from its list to the table.
LEMMA Sharers ==
  ASSUME Inv, NEW r \in Request, Statement(r), \A q \in Request : q # r => job[q] = Idle,
         SharersSeen
  PROVE  SharersSeen'
<1> DEFINE i == job[r]
<1>1. Keeps(r)
  BY StatementKeeps
<1>2. \A q \in Request : job[q].step = "grant" => q = r
  BY IdleOK
<1>3. \A s \in sharers : \/ Granted(s[1], "user", s[2])
                         \/ /\ i.step = "grant" /\ i.prayer = s[1]
                            /\ i.type = "user" /\ i.who = s[2]
  BY <1>2 DEF SharersSeen
<1>4. ASSUME i.step # "grant", UNCHANGED <<access, sharers>> PROVE SharersSeen'
  BY <1>3, <1>4 DEF SharersSeen, Granted, RowsOf, Rows
<1>5. ASSUME \/ \E s \in Contact : GetOrCreateSelfPrayerSubject(r, s)
             \/ \E p \in Prayer : InsertPrayer(r, p)
             \/ Update(r) \/ MarkDeleted(r) \/ Reassign(r) \/ Sweep(r) \/ DeleteContact(r)
             \/ DropCircle(r) \/ DropCard(r) \/ DropCards(r) \/ AccountLeave(r) \/ AccountRow(r)
             \/ \E s \in Contact : EnsureCard(r, s)
      PROVE  SharersSeen'
  BY <1>4, <1>5 DEF GetOrCreateSelfPrayerSubject, InsertPrayer, Update, MarkDeleted, Reassign,
                    Sweep, DeleteContact, DropCircle, DropCard, DropCards, AccountLeave,
                    AccountRow, EnsureCard, At
<1>6. ASSUME NEW a \in Access, InsertAccess(r, a) PROVE SharersSeen'
  <2> DEFINE row == [state |-> "there", prayer |-> i.prayer, type |-> i.type, who |-> i.who,
                     by |-> i.user]
  <2>1. /\ access' = [access EXCEPT ![a] = row] /\ access[a].state = "undrawn"
        /\ UNCHANGED sharers
    BY <1>6 DEF InsertAccess, NextId
  <2>2. row.state = "there" /\ row.prayer = i.prayer /\ row.type = i.type /\ row.who = i.who
    OBVIOUS
  <2> HIDE DEF row
  <2>3. \A b \in Access : access'[b] = IF b = a THEN row ELSE access[b]
    BY <2>1 DEF Inv, RowsOK, AccessOK
  <2> HIDE DEF i
  <2>4. \A p, u : Granted(p, "user", u) => Granted(p, "user", u)'
    BY <2>1, <2>3 DEF Granted, RowsOf, Rows
  <2>5. \A s \in sharers : i.prayer = s[1] /\ i.type = "user" /\ i.who = s[2]
                          => Granted(s[1], "user", s[2])'
    BY <2>2, <2>3 DEF Granted, RowsOf, Rows
  <2> QED
    BY <1>3, <2>1, <2>4, <2>5 DEF SharersSeen
<1>7. ASSUME ShareWithSelf(r) PROVE SharersSeen'
  <2> DEFINE k == [i EXCEPT !.step = "grant", !.type = "user", !.who = i.user, !.then = "idle"]
  <2>1. /\ i \in Job /\ i.step = "shareSelf" /\ i.user \in User
        /\ sharers' = sharers \cup {<<i.prayer, i.user>>} /\ UNCHANGED access
        /\ job' = [job EXCEPT ![r] = IF Granted(i.prayer, "user", i.user) THEN Idle ELSE k]
    BY <1>7 DEF ShareWithSelf, Become, At, Inv, JobsOK, Holds
  <2>2. k.step = "grant" /\ k.prayer = i.prayer /\ k.type = "user" /\ k.who = i.user
    <3> HIDE DEF i
    <3> QED
      BY <2>1 DEF Job, Step
  <2> HIDE DEF k
  <2>3. /\ \A s \in sharers : Granted(s[1], "user", s[2])
        /\ \A p, u : Granted(p, "user", u)' = Granted(p, "user", u)
    BY <1>3, <2>1 DEF Granted, RowsOf, Rows
  <2>4. ~Granted(i.prayer, "user", i.user) => job'[r] = k
    BY <2>1 DEF Inv, JobsOK
  <2> QED
    BY <2>1, <2>2, <2>3, <2>4 DEF SharersSeen
<1>8. ASSUME NEW A, DeleteRows(A), i.step # "grant" PROVE SharersSeen'
  <2>1. Rows' = Rows \ A /\ \A a \in Rows' : access'[a] = access[a]
    BY <1>8, RowsDeleted DEF Inv
  <2>2. sharers' = {s \in sharers : \A a \in A \cap Rows :
                       ~(access[a].prayer = s[1] /\ access[a].type = "user" /\ access[a].who = s[2])}
    BY <1>8 DEF DeleteRows
  <2>3. ASSUME NEW s \in sharers' PROVE Granted(s[1], "user", s[2])'
    <3>1. s \in sharers
      BY <2>2, <2>3
    <3>2. PICK a \in Rows : access[a].prayer = s[1] /\ access[a].type = "user"
                            /\ access[a].who = s[2]
      BY <1>3, <1>8, <3>1 DEF Granted, RowsOf
    <3>3. a \in Rows' /\ access'[a] = access[a]
      BY <2>1, <2>2, <2>3, <3>2
    <3> QED
      BY <3>2, <3>3 DEF Granted, RowsOf
  <2> QED
    BY <2>3 DEF SharersSeen
<1>9. ASSUME DropAll(r) \/ DropOne(r) \/ Unshare(r) \/ AccountAccess(r) \/ AccountPrayers(r)
      PROVE  SharersSeen'
  BY <1>8, <1>9 DEF DropAll, DropOne, Unshare, AccountAccess, AccountPrayers, At
<1> QED
  BY <1>5, <1>6, <1>7, <1>9 DEF Statement

-----------------------------------------------------------------------------
(* The promises *)

\* A job of the only slot that is not idle, before the step or after it.
LEMMA OnlyJob ==
  ASSUME JobsOK, NEW r \in Request, NEW j \in Job, job' = [job EXCEPT ![r] = j],
         \A q \in Request : q # r => job[q] = Idle, Fresh(j)'
  PROVE  Alone' /\ \A q \in Request : Fresh(job[q])'
<1>1. \A q \in Request : job'[q] = IF q = r THEN j ELSE Idle
  BY DEF JobsOK
<1>2. \A q \in Request : Fresh(job[q])'
  BY <1>1, IdleFresh DEF Fresh
<1> QED
  BY <1>1, <1>2 DEF Alone

LEMMA CalmInit == Init => CalmInv
  BY IdleOK
  DEF Init, CalmInv, Undisturbed, Alone, Fresh, TablesCalm, Unique, RowsFollow, PrayersFollow,
      SharersSeen, Rows, Live, NoAccessRow, NoPrayerRow

LEMMA CalmNext == Inv /\ CalmInv /\ [Next]_vars => CalmInv'
<1> SUFFICES ASSUME Inv, CalmInv, [Next]_vars, calm' PROVE Undisturbed'
  BY DEF CalmInv
<1>1. ASSUME NEW r \in Request, Statement(r) PROVE Undisturbed'
  <2>1. Keeps(r)
    BY <1>1, StatementKeeps
  <2>2. Undisturbed
    BY <2>1 DEF Keeps, CalmInv
  <2>3. job[r] # Idle
    BY <1>1, IdleOK
    DEF Statement, GetOrCreateSelfPrayerSubject, InsertPrayer, InsertAccess, ShareWithSelf, DropAll,
        DropOne, Update, MarkDeleted, Reassign, Sweep, DeleteContact, Unshare, DropCircle,
        EnsureCard, DropCard, DropCards, AccountLeave, AccountAccess, AccountPrayers, AccountRow, At
  <2>4. \A q \in Request : q # r => job[q] = Idle
    BY <2>2, <2>3 DEF Undisturbed, Alone
  <2>5. Fresh(job[r]) /\ TablesCalm
    BY <2>2 DEF Undisturbed
  <2>6. PICK j \in Job : job' = [job EXCEPT ![r] = j] /\ Fresh(j)'
    BY <2>1, <2>5 DEF Keeps
  <2>7. Alone' /\ \A q \in Request : Fresh(job[q])'
    BY <2>4, <2>6, OnlyJob DEF Inv
  <2> QED
    BY <1>1, <2>2, <2>4, <2>5, <2>7, Tables, Sharers DEF Undisturbed
<1>2. ASSUME NEW r \in Request, Arrive(r) PROVE Undisturbed'
  <2>1. /\ UNCHANGED <<contact, prayer, access, circles, history>>
        /\ calm /\ \A q \in Request : job[q] = Idle
    BY <1>2, StartsKeep
  <2>2. Undisturbed
    BY <2>1 DEF CalmInv
  <2>3. PICK j \in Job : job' = [job EXCEPT ![r] = j] /\ Fresh(j)
    BY <1>2, <2>2, StartsKeep DEF Undisturbed
  <2>4. Fresh(j)'
    BY <2>1, <2>3 DEF Fresh, Live, Granted, RowsOf, Rows, There, Of
  <2>5. Alone' /\ \A q \in Request : Fresh(job[q])'
    BY <2>1, <2>3, <2>4, OnlyJob DEF Inv
  <2>6. TablesCalm'
    BY <2>1, <2>2 DEF Undisturbed, TablesCalm, Unique, RowsFollow, PrayersFollow, Rows, Live, There
  <2>7. \A s \in sharers : Granted(s[1], "user", s[2])
    BY <2>1, <2>2, IdleOK DEF Undisturbed, SharersSeen
  <2>8. SharersSeen'
    BY <2>1, <2>7 DEF SharersSeen, Granted, RowsOf, Rows
  <2> QED
    BY <2>5, <2>6, <2>8 DEF Undisturbed
<1>3. ASSUME NEW r \in Request, Abandon(r) \/ GoOn(r) PROVE FALSE
  BY <1>3 DEF Abandon, GoOn
<1>4. ASSUME Elsewhere PROVE Undisturbed'
  <2>1. /\ UNCHANGED <<prayer, access, world, history, job>>
        /\ There \subseteq There' /\ calm /\ \A q \in Request : job[q] = Idle
    BY <1>4, ElsewhereKeeps
  <2>2. Undisturbed
    BY <2>1 DEF CalmInv
  <2>3. Alone' /\ \A q \in Request : Fresh(job[q])'
    BY <2>1, IdleFresh DEF Alone, Fresh
  <2>4. TablesCalm'
    BY <2>1, <2>2 DEF Undisturbed, TablesCalm, Unique, RowsFollow, PrayersFollow, Rows, Live
  <2>5. SharersSeen'
    BY <2>1, <2>2 DEF Undisturbed, SharersSeen, Granted, RowsOf, Rows
  <2> QED
    BY <2>3, <2>4, <2>5 DEF Undisturbed
<1>5. ASSUME UNCHANGED vars PROVE Undisturbed'
  <2>1. Undisturbed
    BY <1>5 DEF vars, CalmInv
  <2> QED
    BY <1>5, <2>1
    DEF vars, Undisturbed, Alone, Fresh, TablesCalm, Unique, RowsFollow, PrayersFollow, SharersSeen,
        Granted, RowsOf, Rows, Live, There, Of
<1> QED
  BY <1>1, <1>2, <1>3, <1>4, <1>5, Kinds

LEMMA CalmAlways == Spec => [](Inv /\ CalmInv)
  BY InvInit, InvNext, CalmInit, CalmNext, PTL DEF Spec

\* "Access already granted": requests that do not overlap never list a prayer twice
\* for the same user, circle or contact, whichever handler adds the row.
THEOREM AccessIsGrantedOnce == Spec => []NoDoubleAccess
<1>1. CalmInv => NoDoubleAccess
  BY DEF CalmInv, Undisturbed, TablesCalm, Unique, NoDoubleAccess
<1> QED
  BY <1>1, CalmAlways, PTL

\* Between requests that neither overlapped nor failed, nothing is left over: a row
\* of access is of a prayer that is not deleted, unless it went with its contact, and
\* names a circle that is there, unless an admin added it; and a prayer that is not
\* deleted is for a contact that is there, unless its contact was torn down with a
\* membership or a circle.
THEOREM NothingIsOrphaned == Spec => []NoOrphans
<1>1. ASSUME CalmInv, Settled PROVE NoOrphans
  <2>1. RowsFollow /\ PrayersFollow
    BY <1>1 DEF CalmInv, Undisturbed, TablesCalm, Settled
  <2> QED
    BY <2>1 DEF RowsFollow, PrayersFollow, NoOrphans, RowsKeepPrayers, PrayersKeepContacts
<1>2. ~Settled => NoOrphans
  BY DEF NoOrphans, RowsKeepPrayers, PrayersKeepContacts
<1> QED
  BY <1>1, <1>2, CalmAlways, PTL

\* Between such requests, who shared a prayer with a circle has a row of their own,
\* until someone removes it.
THEOREM SharersAreListed == Spec => []SharersKeepAccess
<1>1. CalmInv => SharersKeepAccess
  BY IdleOK DEF CalmInv, Undisturbed, SharersSeen, SharersKeepAccess, Settled
<1> QED
  BY <1>1, CalmAlways, PTL
=============================================================================
