------------------------------- MODULE Prayers -------------------------------
(***************************************************************************)
(* Prayers, the contacts they are for, and the rows of prayer_access that  *)
(* say who may see them: a user, a circle, or (listing it under one of     *)
(* them) a contact.                                                        *)
(*                                                                         *)
(* One action is one SQL statement that writes; what a handler reads       *)
(* before it is one step.  Texts are words, positions are left to          *)
(* DisplayOrder, and the notices that follow a write to PrayerActivity.    *)
(* Of the circles, their members and cards are here, whoever leads them    *)
(* leads them on (see Circles); whether a circle keeps its card with a     *)
(* member who deletes it is left to Contacts.                              *)
(*                                                                         *)
(* The schema is not in the repository.  That a prayer loses its contact   *)
(* when the contact's row goes (SET NULL) is read from                     *)
(* DeletePrayerSubject, which deletes contacts of deleted prayers; that    *)
(* access rows go with their prayer's row (CASCADE), from                  *)
(* DeleteUserAccount, which deletes only the user's own rows before the    *)
(* prayers (userController.go:1543).  The contacts of a deleted account    *)
(* are taken to stay.                                                      *)
(***************************************************************************)

EXTENDS FiniteSets, Naturals

CONSTANTS
    User,
    Admin,          \* users with the admin role
    Circle,
    Leader,         \* group_profile.created_by of each circle
    Contact,        \* ids of prayer_subject, handed out in order
    Prayer,         \* ids of prayer, handed out in order
    Access,         \* ids of prayer_access, handed out in order
    Word,
    PrayerCreate,   \* the bodies of the create and update requests tried
    Request,        \* concurrent request slots
    Empty,          \* the empty string
    None

ASSUME IdAssumption == Contact \subseteq Nat /\ Prayer \subseteq Nat /\ Access \subseteq Nat
ASSUME RoleAssumption == Admin \subseteq User /\ Leader \in [Circle -> User]
ASSUME NoneAssumption == None \notin User \cup Circle \cup Contact \cup Prayer \cup Access

\* The fields of a body: "none" is JSON's null.
Body == [title : Word \cup {Empty}, text : Word \cup {Empty},
         answered : {"yes", "no", "none"}, dated : BOOLEAN]

ASSUME BodyAssumption == Empty \notin Word /\ PrayerCreate \subseteq Body

VARIABLES
    contact,    \* prayer_subject: owner, linked user, whether the link is confirmed,
                \* type, and the circle it is wired to (prayer_subject_group_profile)
    prayer,     \* prayer: state, creator, contact, the fields of a body
    access,     \* prayer_access: prayer, type, who it names, who added it
    members,    \* user_group, of the circles that are there
    circles,    \* circles with a row in group_profile
    accounts,   \* users with a row in user_profile
    job,        \* what each request slot is doing
    calm,       \* history: requests have not overlapped, nothing has failed
    swept,      \* history: prayers deleted together with their contact
    sharers,    \* history: <<prayer, user>>: shared it with a circle, and
                \* has not lost a row of their own since
    stranded    \* history: prayers whose contact was a card that went with a
                \* membership or a circle, and that got no other since

world == <<members, circles, accounts>>
history == <<swept, sharers, stranded>>
vars == <<contact, prayer, access, world, job, calm, history>>

Blank == [title |-> Empty, text |-> Empty, answered |-> "none", dated |-> FALSE]
NoContactRow == [state |-> "undrawn", owner |-> None, user |-> None, linked |-> FALSE,
                 kind |-> "other", circle |-> None]
NoPrayerRow == [state |-> "undrawn", creator |-> None, contact |-> None, body |-> Blank]
NoAccessRow == [state |-> "undrawn", prayer |-> None, type |-> "none", who |-> None, by |-> None]
Idle == [step |-> "idle", user |-> None, prayer |-> None, access |-> None, contact |-> None,
         other |-> None, type |-> "none", who |-> None, body |-> Blank, then |-> "idle"]

Step == {"idle", "self", "insert", "grant", "shareSelf", "dropAll", "dropOne", "update",
         "delete", "reassign", "sweep", "deleteContact", "unshare", "dropCards", "dropCircle",
         "card", "dropCard", "accountLeave", "accountAccess", "accountPrayers", "accountRow"}

There == {s \in Contact : contact[s].state = "there"}
Live == {p \in Prayer : prayer[p].state = "live"}
Kept == {p \in Prayer : prayer[p].state \in {"live", "deleted"}}
Rows == {a \in Access : access[a].state = "there"}
RowsOf(p) == {a \in Rows : access[a].prayer = p}
Granted(p, type, who) == \E a \in RowsOf(p) : access[a].type = type /\ access[a].who = who

\* Whom a row of each type names.
Target(type) == CASE type = "user" -> User [] type = "group" -> Circle
                  [] type = "subject" -> Contact [] OTHER -> {None}

ContactRow == [state : {"undrawn", "there", "gone"}, owner : User \cup {None},
               user : User \cup {None}, linked : BOOLEAN, kind : {"group", "other"},
               circle : Circle \cup {None}]

PrayerRow == [state : {"undrawn", "live", "deleted", "gone"}, creator : User \cup {None},
              contact : Contact \cup {None}, body : Body]

AccessRow == [state : {"undrawn", "there", "gone"}, prayer : Prayer \cup {None},
              type : {"user", "group", "subject", "none"},
              who : User \cup Circle \cup Contact \cup {None}, by : User \cup {None}]

Job == [step : Step, then : Step, user : User \cup {None}, prayer : Prayer \cup {None},
        access : Access \cup {None}, contact : Contact \cup {None}, other : Contact \cup {None},
        type : {"user", "group", "subject", "none"},
        who : User \cup Circle \cup Contact \cup {None}, body : Body]

TypeOK ==
    /\ contact \in [Contact -> ContactRow]
    /\ prayer \in [Prayer -> PrayerRow]
    /\ access \in [Access -> AccessRow]
    /\ members \subseteq circles \X User /\ circles \subseteq Circle /\ accounts \subseteq User
    /\ job \in [Request -> Job]
    /\ calm \in BOOLEAN
    /\ swept \subseteq Prayer
    /\ sharers \subseteq Prayer \X User
    /\ stranded \subseteq Prayer
    \* Foreign keys: a card's circle is there, a prayer's contact, an access row's prayer.
    /\ \A s \in There : /\ contact[s].owner \in User
                         /\ contact[s].linked => contact[s].user \in User
                         /\ contact[s].circle \in circles \cup {None}
    /\ \A p \in Kept : prayer[p].creator \in User /\ prayer[p].contact \in There \cup {None}
    /\ \A a \in Rows : /\ access[a].prayer \in Kept
                       /\ access[a].who \in Target(access[a].type)
                       /\ access[a].by \in User

\* The program starts with users and circles but no contacts and prayers.
Init ==
    /\ contact = [s \in Contact |-> NoContactRow]
    /\ prayer = [p \in Prayer |-> NoPrayerRow]
    /\ access = [a \in Access |-> NoAccessRow]
    /\ circles = Circle
    /\ accounts = User
    /\ members = {m \in Circle \X User : m[2] = Leader[m[1]]}
    /\ job = [r \in Request |-> Idle]
    /\ calm = TRUE
    /\ swept = {}
    /\ sharers = {}
    /\ stranded = {}

-----------------------------------------------------------------------------
(* Jobs *)

Start(r, j) ==
    /\ job[r] = Idle
    /\ job' = [job EXCEPT ![r] = j]
    /\ calm' = (calm /\ \A q \in Request \ {r} : job[q] = Idle)
    /\ UNCHANGED <<contact, prayer, access, history>>

At(r, step) == job[r].step = step

Become(r, j) == job' = [job EXCEPT ![r] = j] /\ UNCHANGED calm

Goto(r, step) == Become(r, [job[r] EXCEPT !.step = step])

\* A handler, modelled elsewhere, that is one statement here.
AtOnce == UNCHANGED <<job, history>> /\ calm' = (calm /\ \A q \in Request : job[q] = Idle)

\* Serial ids.
NextId(Id, row) == {i \in Id : row[i].state = "undrawn" /\
                              \A k \in Id : row[k].state = "undrawn" => i <= k}

(* Who may *)

SelfContacts(u) == {s \in There : contact[s].owner = u /\ contact[s].user = u}

\* userHasPrayerAccess: a row of the user's, or of a circle of theirs, archived
\* or not.
HasAccess(u, p) ==
    \/ Granted(p, "user", u)
    \/ \E c \in Circle : <<c, u>> \in members /\ Granted(p, "group", c)

IsLinkedSubject(u, p) ==
    LET s == prayer[p].contact IN s # None /\ contact[s].user = u /\ contact[s].linked

MayChange(u, p) == u \in Admin \/ prayer[p].creator = u \/ IsLinkedSubject(u, p)

-----------------------------------------------------------------------------
(* Creating *)

\* With the contact given, or the user's own, which is created when missing.
ResolveContact(r, owner, s, j) ==
    \/ s \in There /\ contact[s].owner = owner /\ Start(r, [j EXCEPT !.step = "insert", !.contact = s])
    \/ /\ s = None
       /\ \E o \in SelfContacts(j.user) : Start(r, [j EXCEPT !.step = "insert", !.contact = o])
    \/ /\ s = None
       /\ SelfContacts(j.user) = {}
       /\ Start(r, [j EXCEPT !.step = "self", !.then = "insert"])

\* An admin may create one for the user u.
CreateUserPrayer(r, v, u, s, e) ==
    /\ v = u \/ v \in Admin
    /\ ResolveContact(r, u, s, [Idle EXCEPT !.user = v, !.type = "user", !.who = u, !.body = e])
    /\ UNCHANGED world

CreateGroupPrayer(r, v, c, s, e) ==
    /\ c \in circles
    /\ <<c, v>> \in members \/ v \in Admin
    /\ ResolveContact(r, v, s, [Idle EXCEPT !.user = v, !.type = "group", !.who = c, !.body = e])
    /\ UNCHANGED world

GetOrCreateSelfPrayerSubject(r, s) ==
    LET j == job[r] IN
    /\ At(r, "self")
    /\ s \in NextId(Contact, contact)
    /\ contact' = [contact EXCEPT ![s] = [state |-> "there", owner |-> j.user, user |-> j.user,
                                          linked |-> TRUE, kind |-> "other", circle |-> None]]
    /\ Become(r, IF j.then = "insert" THEN [j EXCEPT !.step = "insert", !.contact = s]
                                      ELSE [j EXCEPT !.step = j.then, !.other = s])
    /\ UNCHANGED <<prayer, access, world, history>>

InsertPrayer(r, p) ==
    LET j == job[r] IN
    /\ At(r, "insert")
    /\ p \in NextId(Prayer, prayer)
    /\ j.contact \in There
    /\ prayer' = [prayer EXCEPT ![p] = [state |-> "live", creator |-> j.user,
                                        contact |-> j.contact, body |-> j.body]]
    /\ Become(r, [j EXCEPT !.step = "grant", !.prayer = p])
    /\ UNCHANGED <<contact, access, world, history>>

\* The INSERT of an access row, of whichever handler.
InsertAccess(r, a) ==
    LET j == job[r] IN
    /\ At(r, "grant")
    /\ a \in NextId(Access, access)
    /\ j.prayer \in Kept
    /\ access' = [access EXCEPT ![a] = [state |-> "there", prayer |-> j.prayer, type |-> j.type,
                                        who |-> j.who, by |-> j.user]]
    /\ Become(r, IF j.then = "shareSelf" THEN [j EXCEPT !.step = "shareSelf"] ELSE Idle)
    /\ UNCHANGED <<contact, prayer, world, history>>

-----------------------------------------------------------------------------
(* Sharing *)

\* Mutant of AddPrayerAccess: access already granted is no conflict.
AddPrayerAccessAgain(r, u, p, type, who) ==
    /\ p \in Live
    /\ who \in Target(type)
    /\ type = "subject" => who \in There /\ contact[who].owner = u
    /\ u \notin Admin => HasAccess(u, p) /\ (type = "group" => <<who, u>> \in members)
    /\ Start(r, [Idle EXCEPT !.step = "grant", !.user = u, !.prayer = p, !.type = type,
                             !.who = who, !.then = IF type = "group" THEN "shareSelf" ELSE "idle"])
    /\ UNCHANGED world

\* An admin's circle is not looked at.
AddPrayerAccess(r, u, p, type, who) ==
    /\ p \in Live
    /\ who \in Target(type)
    /\ type = "subject" => who \in There /\ contact[who].owner = u
    /\ ~Granted(p, type, who)
    /\ u \notin Admin => HasAccess(u, p) /\ (type = "group" => <<who, u>> \in members)
    /\ Start(r, [Idle EXCEPT !.step = "grant", !.user = u, !.prayer = p, !.type = type,
                             !.who = who, !.then = IF type = "group" THEN "shareSelf" ELSE "idle"])
    /\ UNCHANGED world

\* Mutant of ShareWithSelf: any user's row will do.
ShareWithSelfAny(r) ==
    LET j == job[r] IN
    /\ At(r, "shareSelf")
    /\ sharers' = sharers \cup {<<j.prayer, j.user>>}
    /\ Become(r, IF \E u \in User : Granted(j.prayer, "user", u) THEN Idle
                 ELSE [j EXCEPT !.step = "grant", !.type = "user", !.who = j.user, !.then = "idle"])
    /\ UNCHANGED <<contact, prayer, access, world, swept, stranded>>

\* Mutant of ShareWithSelf: the new row says "group".
ShareWithSelfAsGroup(r) ==
    LET j == job[r] IN
    /\ At(r, "shareSelf")
    /\ sharers' = sharers \cup {<<j.prayer, j.user>>}
    /\ Become(r, IF Granted(j.prayer, "user", j.user) THEN Idle
                 ELSE [j EXCEPT !.step = "grant", !.who = j.user, !.then = "idle"])
    /\ UNCHANGED <<contact, prayer, access, world, swept, stranded>>

\* After sharing with a circle: a row of the user's own, unless there is one.
ShareWithSelf(r) ==
    LET j == job[r] IN
    /\ At(r, "shareSelf")
    /\ sharers' = sharers \cup {<<j.prayer, j.user>>}
    /\ Become(r, IF Granted(j.prayer, "user", j.user) THEN Idle
                 ELSE [j EXCEPT !.step = "grant", !.type = "user", !.who = j.user, !.then = "idle"])
    /\ UNCHANGED <<contact, prayer, access, world, swept, stranded>>

MayRemove(u, p, a) ==
    CASE a.type = "group" -> /\ a.who \in circles /\ <<a.who, u>> \in members
                             /\ MayChange(u, p) \/ Leader[a.who] = u
      [] a.type = "user" -> MayChange(u, p) \/ a.who = u
      [] a.type = "subject" -> a.who \in There /\ (u \in Admin \/ contact[a.who].owner = u)
      [] OTHER -> FALSE

\* The row is read by its own id.
RemovePrayerAccess(r, u, p, a) ==
    LET row == access[a]
        all == row.type = "user" /\ row.who = u /\ prayer[p].creator = u IN
    /\ p \in Live /\ a \in Rows
    /\ MayRemove(u, p, row)
    /\ Start(r, [Idle EXCEPT !.step = IF all THEN "dropAll" ELSE "dropOne",
                             !.prayer = p, !.access = a])
    /\ UNCHANGED world

\* Deleting rows, and what the history forgets with them.
DeleteRows(A) ==
    /\ access' = [a \in Access |-> IF a \in A \cap Rows THEN [NoAccessRow EXCEPT !.state = "gone"]
                                                        ELSE access[a]]
    /\ sharers' = {s \in sharers : \A a \in A \cap Rows :
                      ~(access[a].prayer = s[1] /\ access[a].type = "user" /\ access[a].who = s[2])}

\* Their own row of their own prayer: all its rows go, then the prayer.
DropAll(r) ==
    /\ At(r, "dropAll")
    /\ DeleteRows(RowsOf(job[r].prayer))
    /\ Goto(r, "delete")
    /\ UNCHANGED <<contact, prayer, world, swept, stranded>>

DropOne(r) ==
    /\ At(r, "dropOne")
    /\ DeleteRows({job[r].access})
    /\ Become(r, Idle)
    /\ UNCHANGED <<contact, prayer, world, swept, stranded>>

-----------------------------------------------------------------------------
(* Editing and deleting *)

\* Omitted fields, taken from the field of the row at the same place in the
\* struct Prayer, if its type fits: the text gets the row's title, the others
\* stay omitted.  A prayer first marked as answered gets the date.
Merged(e, row) ==
    [title |-> e.title,
     text |-> IF e.text = Empty THEN row.title ELSE e.text,
     answered |-> e.answered,
     dated |-> e.dated \/ (e.answered = "yes" /\ row.answered # "yes")]

\* The prayer's contact s (None: omitted) is changed by its creator or an admin.
UpdatePrayer(r, u, p, e, s) ==
    /\ p \in Live
    /\ MayChange(u, p)
    /\ u \notin Admin /\ prayer[p].creator # u => s \in {None, prayer[p].contact}
    /\ Start(r, [Idle EXCEPT !.step = "update", !.prayer = p,
                             !.body = Merged(e, prayer[p].body),
                             !.contact = IF s = None THEN prayer[p].contact ELSE s])
    /\ UNCHANGED world

\* The UPDATE does not look at deleted, nor write it.
Update(r) ==
    LET j == job[r] IN
    /\ At(r, "update")
    /\ j.contact \in There \cup {None}
    /\ prayer' = [p \in Prayer |-> IF p \in Kept \cap {j.prayer}
                                   THEN [prayer[p] EXCEPT !.body = j.body, !.contact = j.contact]
                                   ELSE prayer[p]]
    /\ stranded' = IF j.contact = None THEN stranded ELSE stranded \ {j.prayer}
    /\ Become(r, Idle)
    /\ UNCHANGED <<contact, access, world, swept, sharers>>

DeletePrayer(r, u, p) ==
    /\ p \in Live
    /\ MayChange(u, p)
    /\ RowsOf(p) = {}
    /\ Start(r, [Idle EXCEPT !.step = "delete", !.prayer = p])
    /\ UNCHANGED world

MarkDeleted(r) ==
    /\ At(r, "delete")
    /\ prayer' = [p \in Prayer |-> IF p \in Kept \cap {job[r].prayer}
                                   THEN [prayer[p] EXCEPT !.state = "deleted"] ELSE prayer[p]]
    /\ Become(r, Idle)
    /\ UNCHANGED <<contact, access, world, history>>

-----------------------------------------------------------------------------
(* Deleting a contact *)

Of(s) == {p \in Prayer : prayer[p].contact = s}

\* For a contact with live prayers the user says what becomes of them.
DeletePrayerSubject(r, u, s, option) ==
    LET j == [Idle EXCEPT !.user = u, !.contact = s] IN
    /\ s \in There
    /\ contact[s].owner = u \/ u \in Admin
    /\ contact[s].user # contact[s].owner
    /\ \/ Of(s) \cap Live = {} /\ Start(r, [j EXCEPT !.step = "deleteContact"])
       \/ /\ Of(s) \cap Live # {}
          /\ \/ option = "deletePrayers" /\ Start(r, [j EXCEPT !.step = "sweep"])
             \/ /\ option = "reassignToSelf"
                /\ \/ \E o \in SelfContacts(u) :
                         Start(r, [j EXCEPT !.step = "reassign", !.other = o])
                   \/ /\ SelfContacts(u) = {}
                      /\ Start(r, [j EXCEPT !.step = "self", !.then = "reassign"])
    /\ UNCHANGED world

\* Mutant of Reassign: only the user's own prayers.
ReassignOwn(r) ==
    LET j == job[r] IN
    /\ At(r, "reassign")
    /\ j.other \in There
    /\ prayer' = [p \in Prayer |-> IF p \in Of(j.contact) /\ prayer[p].creator = j.user
                                   THEN [prayer[p] EXCEPT !.contact = j.other] ELSE prayer[p]]
    /\ Goto(r, "deleteContact")
    /\ UNCHANGED <<contact, access, world, history>>

\* Whoever created them.
Reassign(r) ==
    LET j == job[r] IN
    /\ At(r, "reassign")
    /\ j.other \in There
    /\ prayer' = [p \in Prayer |-> IF p \in Of(j.contact)
                                   THEN [prayer[p] EXCEPT !.contact = j.other] ELSE prayer[p]]
    /\ Goto(r, "deleteContact")
    /\ UNCHANGED <<contact, access, world, history>>

\* Their access rows are left.
Sweep(r) ==
    LET s == job[r].contact IN
    /\ At(r, "sweep")
    /\ prayer' = [p \in Prayer |-> IF p \in Of(s) THEN [prayer[p] EXCEPT !.state = "deleted"]
                                                  ELSE prayer[p]]
    /\ swept' = swept \cup Of(s)
    /\ Goto(r, "deleteContact")
    /\ UNCHANGED <<contact, access, world, sharers, stranded>>

\* Contacts go without a look at the prayers that are for them.
RemoveContacts(S) ==
    /\ contact' = [s \in Contact |-> IF s \in S THEN [NoContactRow EXCEPT !.state = "gone"]
                                     ELSE contact[s]]
    /\ prayer' = [p \in Prayer |-> IF prayer[p].contact \in S
                                   THEN [prayer[p] EXCEPT !.contact = None] ELSE prayer[p]]

DeleteContact(r) ==
    /\ At(r, "deleteContact")
    /\ RemoveContacts({job[r].contact})
    /\ Become(r, Idle)
    /\ UNCHANGED <<access, world, history>>

-----------------------------------------------------------------------------
(* Contacts, as Contacts models them *)

CreateContact(s, u, v, kind) ==
    /\ s \in NextId(Contact, contact)
    /\ contact' = [contact EXCEPT ![s] = [state |-> "there", owner |-> u, user |-> v,
                                          linked |-> v # None, kind |-> kind, circle |-> None]]
    /\ AtOnce
    /\ UNCHANGED <<prayer, access, world>>

\* A link is made, asked for, or taken back.
Relink(s, v, linked) ==
    /\ s \in There
    /\ linked => v # None
    /\ contact' = [contact EXCEPT ![s].user = v, ![s].linked = linked]
    /\ AtOnce
    /\ UNCHANGED <<prayer, access, world>>

\* A card that is retyped stays wired to its circle.
Retype(s, kind) ==
    /\ s \in There
    /\ contact' = [contact EXCEPT ![s].kind = kind]
    /\ AtOnce
    /\ UNCHANGED <<prayer, access, world>>

-----------------------------------------------------------------------------
(* Circles and the cards of their members *)

WiredTo(c) == {s \in There : contact[s].circle = c}
Cards(c) == {s \in WiredTo(c) : contact[s].kind = "group"}

Join(r, u, c) ==
    /\ c \in circles /\ <<c, u>> \notin members
    /\ members' = members \cup {<<c, u>>}
    /\ Start(r, [Idle EXCEPT !.step = "card", !.user = u, !.who = c])
    /\ UNCHANGED <<circles, accounts>>

\* A new member gets a card, unless one is wired: a group of theirs with the
\* circle's name, if they have one, or a new one.
EnsureCard(r, s) ==
    LET u == job[r].user  c == job[r].who
        mine == {t \in WiredTo(c) : contact[t].owner = u} IN
    /\ At(r, "card")
    /\ \/ mine # {} /\ UNCHANGED contact
       \/ /\ mine = {} /\ c \in circles
          /\ \/ /\ s \in There /\ contact[s].owner = u
                /\ contact[s].kind = "group" /\ contact[s].circle = None
                /\ contact' = [contact EXCEPT ![s].circle = c]
             \/ /\ s \in NextId(Contact, contact)
                /\ contact' = [contact EXCEPT ![s] =
                                  [state |-> "there", owner |-> u, user |-> None, linked |-> FALSE,
                                   kind |-> "group", circle |-> c]]
    /\ Become(r, Idle)
    /\ UNCHANGED <<prayer, access, world, history>>

\* v asks for u to go.
Leave(r, v, u, c) ==
    /\ <<c, u>> \in members
    /\ v = u \/ v \in Admin \/ Leader[c] = v
    /\ members' = members \ {<<c, u>>}
    /\ Start(r, [Idle EXCEPT !.step = "dropCard", !.user = u, !.who = c])
    /\ UNCHANGED <<circles, accounts>>

\* Cards go with their membership or circle, whatever prayers are on them.
TearDown(S) ==
    /\ RemoveContacts(S)
    /\ stranded' = stranded \cup {p \in Prayer : prayer[p].contact \in S}

DropCard(r) ==
    LET mine == {s \in Cards(job[r].who) : contact[s].owner = job[r].user} IN
    /\ At(r, "dropCard")
    /\ IF mine = {} THEN UNCHANGED <<contact, prayer, stranded>>
       ELSE \E s \in mine : TearDown({s})
    /\ Become(r, Idle)
    /\ UNCHANGED <<access, world, swept, sharers>>

DeleteGroup(r, u, c) ==
    /\ c \in circles
    /\ u \in Admin \/ Leader[c] = u
    /\ Start(r, [Idle EXCEPT !.step = "unshare", !.who = c])
    /\ members' = {m \in members : m[1] # c}
    /\ UNCHANGED <<circles, accounts>>

Unshare(r) ==
    /\ At(r, "unshare")
    /\ DeleteRows({a \in Rows : access[a].type = "group" /\ access[a].who = job[r].who})
    /\ Goto(r, "dropCards")
    /\ UNCHANGED <<contact, prayer, world, swept, stranded>>

DropCards(r) ==
    /\ At(r, "dropCards")
    /\ TearDown(Cards(job[r].who))
    /\ Goto(r, "dropCircle")
    /\ UNCHANGED <<access, world, swept, sharers>>

\* The cards could not be removed, which is logged.
GoOn(r) ==
    /\ At(r, "dropCards")
    /\ job' = [job EXCEPT ![r].step = "dropCircle"]
    /\ calm' = FALSE
    /\ UNCHANGED <<contact, prayer, access, world, history>>

\* With the rows that wire contacts to the circle (CASCADE).
DropCircle(r) ==
    LET c == job[r].who IN
    /\ At(r, "dropCircle")
    /\ circles' = circles \ {c}
    /\ members' = {m \in members : m[1] # c}
    /\ contact' = [s \in Contact |-> IF s \in WiredTo(c) THEN [contact[s] EXCEPT !.circle = None]
                                                         ELSE contact[s]]
    /\ Become(r, Idle)
    /\ UNCHANGED <<prayer, access, accounts, history>>

-----------------------------------------------------------------------------
(* Deleting an account *)

\* v asks, for themselves or as an admin.  Of the tables that are emptied first
\* none is here.
DeleteUserAccount(r, v, u) ==
    /\ u \in accounts
    /\ v = u \/ v \in Admin
    /\ Start(r, [Idle EXCEPT !.step = "accountLeave", !.user = u])
    /\ UNCHANGED world

\* Their cards are left.
AccountLeave(r) ==
    /\ At(r, "accountLeave")
    /\ members' = {m \in members : m[2] # job[r].user}
    /\ Goto(r, "accountAccess")
    /\ UNCHANGED <<contact, prayer, access, circles, accounts, history>>

AccountAccess(r) ==
    /\ At(r, "accountAccess")
    /\ DeleteRows({a \in Rows : access[a].type = "user" /\ access[a].who = job[r].user})
    /\ Goto(r, "accountPrayers")
    /\ UNCHANGED <<contact, prayer, world, swept, stranded>>

\* The prayers they created, with all their rows: those that are shared with a
\* circle of others too, whatever the comment at userController.go:1713 says.
AccountPrayers(r) ==
    LET theirs == {p \in Kept : prayer[p].creator = job[r].user} IN
    /\ At(r, "accountPrayers")
    /\ prayer' = [p \in Prayer |-> IF p \in theirs THEN [NoPrayerRow EXCEPT !.state = "gone"]
                                                    ELSE prayer[p]]
    /\ DeleteRows({a \in Rows : access[a].prayer \in theirs})
    /\ Goto(r, "accountRow")
    /\ UNCHANGED <<contact, world, swept, stranded>>

AccountRow(r) ==
    /\ At(r, "accountRow")
    /\ accounts' = accounts \ {job[r].user}
    /\ Become(r, Idle)
    /\ UNCHANGED <<contact, prayer, access, members, circles, history>>

\* A request ends before its next statement, or that statement fails.
Abandon(r) ==
    /\ job[r] # Idle
    /\ job' = [job EXCEPT ![r] = Idle]
    /\ calm' = FALSE
    /\ UNCHANGED <<contact, prayer, access, world, history>>

Create(r, u) ==
    \E s \in Contact \cup {None}, e \in PrayerCreate :
        \/ \E v \in User : CreateUserPrayer(r, u, v, s, e)
        \/ \E c \in Circle : CreateGroupPrayer(r, u, c, s, e)

Change(r, u, p) ==
    \/ \E type \in {"user", "group", "subject"} :
       \E who \in Target(type) : AddPrayerAccess(r, u, p, type, who)
    \/ \E a \in Access : RemovePrayerAccess(r, u, p, a)
    \/ \E e \in PrayerCreate, s \in Contact \cup {None} : UpdatePrayer(r, u, p, e, s)
    \/ DeletePrayer(r, u, p)

Statement(r) ==
    \/ \E s \in Contact : GetOrCreateSelfPrayerSubject(r, s) \/ EnsureCard(r, s)
    \/ \E p \in Prayer : InsertPrayer(r, p)
    \/ \E a \in Access : InsertAccess(r, a)
    \/ ShareWithSelf(r) \/ DropAll(r) \/ DropOne(r) \/ Update(r) \/ MarkDeleted(r)
    \/ Reassign(r) \/ Sweep(r) \/ DeleteContact(r)
    \/ DropCard(r) \/ Unshare(r) \/ DropCards(r) \/ DropCircle(r)
    \/ AccountLeave(r) \/ AccountAccess(r) \/ AccountPrayers(r) \/ AccountRow(r)

Membership(r, u, c) ==
    \/ Join(r, u, c) \/ DeleteGroup(r, u, c)
    \/ \E v \in User : Leave(r, u, v, c)

Elsewhere ==
    \/ \E s \in Contact, u \in accounts, v \in User \cup {None}, kind \in {"group", "other"} :
          CreateContact(s, u, v, kind)
    \/ \E s \in Contact, v \in User \cup {None}, linked \in BOOLEAN : Relink(s, v, linked)
    \/ \E s \in Contact, kind \in {"group", "other"} : Retype(s, kind)

\* Requests are of users that have an account.
Next ==
    \/ \E r \in Request :
          \/ Statement(r) \/ Abandon(r) \/ GoOn(r)
          \/ \E u \in accounts :
                \/ Create(r, u)
                \/ \E p \in Prayer : Change(r, u, p)
                \/ \E s \in Contact, option \in {"deletePrayers", "reassignToSelf"} :
                      DeletePrayerSubject(r, u, s, option)
                \/ \E c \in Circle : Membership(r, u, c)
                \/ \E v \in User : DeleteUserAccount(r, u, v)
    \/ Elsewhere

Spec == Init /\ [][Next]_vars

-----------------------------------------------------------------------------
(* Properties *)

Settled == calm /\ \A r \in Request : job[r] = Idle

\* "Access already granted": while requests do not overlap, a prayer has no two
\* rows for the same user, circle or contact, sharing with oneself included.
NoDoubleAccess ==
    calm => \A a, b \in Rows :
        /\ access[a].prayer = access[b].prayer
        /\ access[a].type = access[b].type /\ access[a].who = access[b].who
        => a = b

\* The rows of a deleted prayer are gone, unless it went with its contact, and
\* those of a deleted circle are, unless an admin added them, for whom the circle
\* is not looked up.
RowsKeepPrayers ==
    Settled => \A a \in Rows :
        /\ access[a].prayer \in Live \cup swept
        /\ access[a].type = "group" => access[a].who \in circles \/ access[a].by \in Admin

\* A prayer that is not deleted is for a contact that is there, whoever deletes
\* the contacts and whatever they ask to become of the prayers.  The prayers that
\* are on a circle's card when it is torn down with a membership or with the circle
\* are let go: nobody is asked what is to become of those
\* (groupContactHelpers.go:95, :134).
PrayersKeepContacts ==
    Settled => \A p \in Live \ stranded : prayer[p].contact \in There

\* While requests do not overlap or fail, in whatever order prayers, contacts,
\* memberships, circles and accounts go, what is left does not hang on what is
\* gone.
NoOrphans == RowsKeepPrayers /\ PrayersKeepContacts

\* "Share-to-self fix": who shared a prayer with a circle has a row of their own,
\* whether they stay in the circle or not, until someone removes that row.
SharersKeepAccess ==
    Settled => \A s \in sharers : Granted(s[1], "user", s[2])

\* "If any incoming field is nil, retain the existing value".
OmittedFieldsKept ==
    [][\A r \in Request, u \in User, p \in Prayer, e \in PrayerCreate :
           UpdatePrayer(r, u, p, e, None) =>
               LET new == job'[r].body  old == prayer[p].body IN
               /\ e.title = Empty => new.title = old.title
               /\ e.text = Empty => new.text = old.text
               /\ e.answered = "none" => new.answered = old.answered]_vars
=============================================================================
