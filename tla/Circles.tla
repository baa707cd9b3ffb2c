------------------------------- MODULE Circles -------------------------------
(***************************************************************************)
(* One prayer circle: its row in group_profile, its members' rows in       *)
(* user_group, its invites, and the handlers that change them.             *)
(*                                                                         *)
(* A handler is a sequence of SQL statements, each a transaction of its    *)
(* own, so the statements of concurrent requests interleave.  A request    *)
(* slot holds what its handler has read so far (a job); one action is one  *)
(* statement.  Circles do not share rows, so one circle is enough; what a  *)
(* user may hold over all circles is the subject of CircleAllowance, and a *)
(* request modelled here has passed that gate.                             *)
(*                                                                         *)
(* The schema lives in another repository.  The code relies on user_group  *)
(* having one row per user and circle, on its rows referring to an         *)
(* existing user and circle, and on group_invite cascading with its        *)
(* circle; created_by has no foreign key (groupOwnershipController.go).    *)
(***************************************************************************)

EXTENDS FiniteSets, Naturals

CONSTANTS
    User,
    Admin,      \* users whose token carries the admin role
    Invite,     \* rows of group_invite
    Request,    \* concurrent request slots
    MayFail,    \* whether a statement may fail or the server stop
    NoUser,
    NoInvite

ASSUME AdminAssumption == Admin \subseteq User
ASSUME RequestAssumption == IsFiniteSet(Request)
ASSUME NoneAssumption == NoUser \notin User /\ NoInvite \notin Invite

VARIABLES
    accounts,   \* users with a row in user_profile
    circle,     \* "none", "open" or "deleted"
    owner,      \* created_by
    members,    \* users with a row in user_group ...
    active,     \* ... whose is_active is set: they have not archived it
    senior,     \* pairs of members, the one who joined earlier first
    inviter,    \* created_by of each row of group_invite
    invite,     \* its state: usable means active and not expired
    job,        \* what each request slot is doing
    admitted,   \* history: users an invite let in
    unspent,    \* history: invites whose closing UPDATE never ran
    slipped,    \* history: requests about to hand the circle to an heir who
                \* left or archived it after they had looked
    adrift      \* history: a hand-off of the circle found no heir, or failed

rows == <<circle, owner, members, active, senior, slipped>>
invites == <<inviter, invite, admitted, unspent>>
vars == <<accounts, rows, invites, job, adrift>>

Idle == [step |-> "idle", user |-> NoUser, seen |-> NoUser,
         heir |-> NoUser, invite |-> NoInvite]

InviteState == {"undrawn", "usable", "closed", "deleted"}

Step == {"idle", "insertCreator", "joinMember", "joinInsert", "joinConsume",
         "addInsert", "inviteInsert", "removeDelete", "removeHeir",
         "removeOwner", "transferMember", "transferOwner", "dropMembers",
         "dropCircle", "archive", "restore", "accountInvites", "accountList",
         "accountHeir", "accountOwner", "accountLeave", "accountDelete"}

\* The steps of a handler that holds an invite.
InviteStep == {"inviteInsert", "joinMember", "joinInsert", "joinConsume"}

Job == [step : Step, user : User \cup {NoUser}, seen : User \cup {NoUser},
        heir : User \cup {NoUser}, invite : Invite \cup {NoInvite}]

TypeOK ==
    /\ accounts \subseteq User
    /\ circle \in {"none", "open", "deleted"}
    /\ owner \in User \cup {NoUser}
    /\ members \subseteq accounts
    /\ active \subseteq members
    /\ senior \subseteq members \X members
    /\ inviter \in [Invite -> User \cup {NoUser}]
    /\ invite \in [Invite -> InviteState]
    /\ job \in [Request -> Job]
    /\ \A r \in Request : job[r].step \in InviteStep => job[r].invite \in Invite
    /\ admitted \in [Invite -> SUBSET User]
    /\ unspent \subseteq Invite
    /\ slipped \subseteq Request
    /\ adrift \in BOOLEAN
    /\ circle # "open" => members = {} /\ \A i \in Invite : invite[i] # "usable"

Init ==
    /\ accounts = User
    /\ circle = "none"
    /\ owner = NoUser
    /\ members = {}
    /\ active = {}
    /\ senior = {}
    /\ inviter = [i \in Invite |-> NoUser]
    /\ invite = [i \in Invite |-> "undrawn"]
    /\ job = [r \in Request |-> Idle]
    /\ admitted = [i \in Invite |-> {}]
    /\ unspent = {}
    /\ slipped = {}
    /\ adrift = FALSE

-----------------------------------------------------------------------------
(* Jobs *)

Start(r, j) == job[r] = Idle /\ job' = [job EXCEPT ![r] = j]

At(r, step) == job[r].step = step

Goto(r, step) == job' = [job EXCEPT ![r].step = step]

Finish(r) == job' = [job EXCEPT ![r] = Idle]

For(step, u) == [Idle EXCEPT !.step = step, !.user = u]

OwnerOrAdmin(a) == a = owner \/ a \in Admin

(* Rows of user_group *)

\* The new row is the youngest.  The foreign keys and the key on user and
\* circle make the INSERT fail otherwise, and the handler answers 500.
CanInsert(u) == circle = "open" /\ u \in accounts /\ u \notin members

InsertMember(u) ==
    /\ members' = members \cup {u}
    /\ active' = active \cup {u}
    /\ senior' = senior \cup (members \X {u})
    /\ UNCHANGED <<circle, owner, slipped>>

\* The steps of a handler that has chosen an heir and not written it yet.
HandOverStep == {"removeOwner", "transferOwner", "accountOwner"}

\* What users who stop being active members do to the hand-overs under way.
Slip(S) == slipped' = slipped \cup
               {r \in Request : job[r].step \in HandOverStep /\ job[r].heir \in S}

DeleteMembers(S) ==
    /\ members' = members \ S
    /\ active' = active \ S
    /\ senior' = {p \in senior : p[1] \notin S /\ p[2] \notin S}
    /\ Slip(S)
    /\ UNCHANGED <<circle, owner>>

(* Rows of group_invite *)

InvitesBy(u) ==
    {i \in Invite : inviter[i] = u /\ invite[i] \in {"usable", "closed"}}

DeleteInvites(S) ==
    /\ invite' = [i \in Invite |-> IF i \in S /\ invite[i] # "undrawn"
                                  THEN "deleted" ELSE invite[i]]
    /\ UNCHANGED <<inviter, admitted, unspent>>

\* The INSERT at a step, its failure included.
TryInsert(r, u, next) ==
    IF CanInsert(u) THEN InsertMember(u) /\ next
                    ELSE Finish(r) /\ UNCHANGED <<rows, invites>>

-----------------------------------------------------------------------------
(* CreateGroup, AddUserToGroup *)

CreateGroup(r, u) ==
    /\ u \in accounts
    /\ circle = "none"
    /\ circle' = "open"
    /\ owner' = u
    /\ Start(r, For("insertCreator", u))
    /\ UNCHANGED <<accounts, members, active, senior, slipped, invites, adrift>>

CreateGroupMember(r) ==
    /\ At(r, "insertCreator")
    /\ TryInsert(r, job[r].user, Finish(r) /\ UNCHANGED invites)
    /\ UNCHANGED <<accounts, adrift>>

\* A user adds themselves, or an admin adds anyone; any existing row, archived
\* or not, is a conflict.  Whether the circle exists is not looked at.
AddUserToGroup(r, a, u) ==
    /\ a \in accounts
    /\ a = u \/ a \in Admin
    /\ u \notin members
    /\ Start(r, For("addInsert", u))
    /\ UNCHANGED <<accounts, rows, invites, adrift>>

AddUserInsert(r) ==
    /\ At(r, "addInsert")
    /\ TryInsert(r, job[r].user, Finish(r) /\ UNCHANGED invites)
    /\ UNCHANGED <<accounts, adrift>>

-----------------------------------------------------------------------------
(* CreateGroupInviteCode, JoinGroup *)

\* Members may invite, those who archived the circle included, and admins.
CreateInvite(r, a, i) ==
    /\ a \in accounts
    /\ circle = "open"
    /\ a \in members \cup Admin
    /\ Start(r, [For("inviteInsert", a) EXCEPT !.invite = i])
    /\ UNCHANGED <<accounts, rows, invites, adrift>>

CreateInviteInsert(r) ==
    /\ At(r, "inviteInsert")
    /\ LET i == job[r].invite IN
           IF circle = "open" /\ invite[i] = "undrawn"
           THEN /\ inviter' = [inviter EXCEPT ![i] = job[r].user]
                /\ invite' = [invite EXCEPT ![i] = "usable"]
                /\ UNCHANGED <<admitted, unspent>>
           ELSE UNCHANGED invites
    /\ Finish(r)
    /\ UNCHANGED <<accounts, rows, adrift>>

ExpireInvite(i) ==
    /\ invite[i] = "usable"
    /\ invite' = [invite EXCEPT ![i] = "closed"]
    /\ UNCHANGED <<accounts, rows, inviter, admitted, unspent, job, adrift>>

\* The circle exists and the invite is one of its own, active, not expired.
JoinGroup(r, u, i) ==
    /\ u \in accounts
    /\ invite[i] = "usable"
    /\ Start(r, [For("joinMember", u) EXCEPT !.invite = i])
    /\ UNCHANGED <<accounts, rows, invites, adrift>>

\* An archived membership counts as being in the circle.
JoinCheckMember(r) ==
    /\ At(r, "joinMember")
    /\ IF job[r].user \in members THEN Finish(r) ELSE Goto(r, "joinInsert")
    /\ UNCHANGED <<accounts, rows, invites, adrift>>

\* Mutant of JoinInsert: the invite is not consumed.
JoinInsertOnly(r) ==
    /\ At(r, "joinInsert")
    /\ LET u == job[r].user
           i == job[r].invite
       IN  TryInsert(r, u, /\ Finish(r)
                           /\ admitted' = [admitted EXCEPT ![i] = @ \cup {u}]
                           /\ UNCHANGED <<inviter, invite, unspent>>)
    /\ UNCHANGED <<accounts, adrift>>

JoinInsert(r) ==
    /\ At(r, "joinInsert")
    /\ LET u == job[r].user
           i == job[r].invite
       IN  TryInsert(r, u, /\ Goto(r, "joinConsume")
                           /\ admitted' = [admitted EXCEPT ![i] = @ \cup {u}]
                           /\ UNCHANGED <<inviter, invite, unspent>>)
    /\ UNCHANGED <<accounts, adrift>>

\* Mutant of JoinConsumeInvite: the UPDATE matches no row.
JoinConsumeNothing(r) ==
    /\ At(r, "joinConsume")
    /\ Finish(r)
    /\ UNCHANGED <<accounts, rows, invites, adrift>>

JoinConsumeInvite(r) ==
    /\ At(r, "joinConsume")
    /\ invite' = [i \in Invite |-> IF i = job[r].invite /\ invite[i] = "usable"
                                  THEN "closed" ELSE invite[i]]
    /\ Finish(r)
    /\ UNCHANGED <<accounts, rows, inviter, admitted, unspent, adrift>>

-----------------------------------------------------------------------------
(* RemoveUserFromGroup *)

\* created_by as the SELECT finds it: a missing circle scans to zero.
SeenOwner == IF circle = "open" THEN owner ELSE NoUser

\* A member leaves, or the owner or an admin removes one.
RemoveUser(r, a, u) ==
    /\ a \in accounts
    /\ a = u \/ a = SeenOwner \/ a \in Admin
    /\ Start(r, [For("removeDelete", u) EXCEPT !.seen = SeenOwner])
    /\ UNCHANGED <<accounts, rows, invites, adrift>>

\* The SELECT of the circle fails, which is only logged: created_by is zero.
RemoveUserUnread(r, a, u) ==
    /\ MayFail
    /\ a \in accounts
    /\ a = u \/ a \in Admin
    /\ Start(r, For("removeDelete", u))
    /\ UNCHANGED <<accounts, rows, invites, adrift>>

\* Mutant of RemoveDelete: ownership stays where it is.
RemoveDeleteOnly(r) ==
    /\ At(r, "removeDelete")
    /\ Finish(r)
    /\ DeleteMembers({job[r].user})
    /\ UNCHANGED <<accounts, invites, adrift>>

\* Whether ownership must move is decided by the owner read before the DELETE.
RemoveDelete(r) ==
    /\ At(r, "removeDelete")
    /\ LET u == job[r].user IN
           IF u \in members /\ job[r].seen = u THEN Goto(r, "removeHeir")
                                               ELSE Finish(r)
    /\ DeleteMembers({job[r].user})
    /\ UNCHANGED <<accounts, invites, adrift>>

\* LongestTenuredActiveMember.
Heirs(u) == {v \in active \ {u} : \A w \in active \ {u, v} : <<v, w>> \in senior}

\* reassignOwnershipOnDeparture: look for an heir, then write created_by.
PickHeir(r, from, to, out) ==
    /\ At(r, from)
    /\ \/ \E v \in Heirs(job[r].user) :
              /\ job' = [job EXCEPT ![r].step = to, ![r].heir = v]
              /\ UNCHANGED adrift
       \/ /\ Heirs(job[r].user) = {}
          /\ out
          /\ adrift' = (adrift \/ circle = "open")
    /\ UNCHANGED <<accounts, rows, invites>>

\* transferGroupOwnership: an UPDATE by key, without a condition on the owner.
WriteOwner(r, from, out) ==
    /\ At(r, from)
    /\ IF circle = "open" THEN owner' = job[r].heir /\ adrift' = FALSE
                          ELSE UNCHANGED <<owner, adrift>>
    /\ slipped' = slipped \ {r}
    /\ out
    /\ UNCHANGED <<accounts, circle, members, active, senior, invites>>

RemovePickHeir(r) == PickHeir(r, "removeHeir", "removeOwner", Finish(r))

RemoveWriteOwner(r) == WriteOwner(r, "removeOwner", Finish(r))

-----------------------------------------------------------------------------
(* TransferGroupOwnership *)

TransferOwnership(r, a, v) ==
    /\ a \in accounts
    /\ circle = "open"
    /\ OwnerOrAdmin(a)
    /\ v # owner
    /\ Start(r, [Idle EXCEPT !.step = "transferMember", !.heir = v])
    /\ UNCHANGED <<accounts, rows, invites, adrift>>

\* Mutant of TransferCheckMember: an archived membership will do.
TransferCheckAnyMember(r) ==
    /\ At(r, "transferMember")
    /\ IF job[r].heir \in members THEN Goto(r, "transferOwner") ELSE Finish(r)
    /\ UNCHANGED <<accounts, rows, invites, adrift>>

TransferCheckMember(r) ==
    /\ At(r, "transferMember")
    /\ IF job[r].heir \in active THEN Goto(r, "transferOwner") ELSE Finish(r)
    /\ UNCHANGED <<accounts, rows, invites, adrift>>

TransferWriteOwner(r) == WriteOwner(r, "transferOwner", Finish(r))

-----------------------------------------------------------------------------
(* DeleteGroup *)

DeleteGroup(r, a) ==
    /\ a \in accounts
    /\ circle = "open"
    /\ OwnerOrAdmin(a)
    /\ Start(r, For("dropMembers", NoUser))
    /\ UNCHANGED <<accounts, rows, invites, adrift>>

DeleteGroupMembers(r) ==
    /\ At(r, "dropMembers")
    /\ DeleteMembers(members)
    /\ Goto(r, "dropCircle")
    /\ UNCHANGED <<accounts, invites, adrift>>

\* Mutant of DeleteGroupRow: the invites are not deleted with the circle.
DeleteGroupRowOnly(r) ==
    /\ At(r, "dropCircle")
    /\ IF circle = "open" /\ members = {}
       THEN /\ circle' = "deleted"
            /\ owner' = NoUser
            /\ UNCHANGED <<members, active, senior, slipped>>
       ELSE UNCHANGED rows
    /\ Finish(r)
    /\ UNCHANGED <<accounts, invites, adrift>>

\* A row inserted meanwhile still refers to the circle: the DELETE then fails.
DeleteGroupRow(r) ==
    /\ At(r, "dropCircle")
    /\ IF circle = "open" /\ members = {}
       THEN /\ circle' = "deleted"
            /\ owner' = NoUser
            /\ DeleteInvites(Invite)
            /\ UNCHANGED <<members, active, senior, slipped>>
       ELSE UNCHANGED <<rows, invites>>
    /\ Finish(r)
    /\ UNCHANGED <<accounts, adrift>>

-----------------------------------------------------------------------------
(* ArchiveCircles, RestoreCircles: this circle's part of the bulk operation *)

ArchiveCircle(r, u) ==
    /\ u \in active
    /\ Start(r, For("archive", u))
    /\ UNCHANGED <<accounts, rows, invites, adrift>>

ArchiveCommit(r) ==
    /\ At(r, "archive")
    /\ active' = active \ {job[r].user}
    /\ Slip({job[r].user})
    /\ Finish(r)
    /\ UNCHANGED <<accounts, circle, owner, members, senior, invites, adrift>>

RestoreCircle(r, u) ==
    /\ u \in members \ active
    /\ Start(r, For("restore", u))
    /\ UNCHANGED <<accounts, rows, invites, adrift>>

RestoreCommit(r) ==
    /\ At(r, "restore")
    /\ active' = active \cup ({job[r].user} \cap members)
    /\ Finish(r)
    /\ UNCHANGED <<accounts, circle, owner, members, senior, slipped, invites, adrift>>

-----------------------------------------------------------------------------
(* DeleteUserAccount: the statements that touch the circle *)

DeleteAccount(r, a, u) ==
    /\ a \in accounts
    /\ u \in accounts
    /\ a = u \/ a \in Admin
    /\ Start(r, For("accountInvites", u))
    /\ UNCHANGED <<accounts, rows, invites, adrift>>

\* Mutant of DeleteAccountInvites: invites that were used are kept.
DeleteAccountOpenInvites(r) ==
    /\ At(r, "accountInvites")
    /\ DeleteInvites({i \in InvitesBy(job[r].user) : invite[i] = "usable"})
    /\ Goto(r, "accountList")
    /\ UNCHANGED <<accounts, rows, adrift>>

DeleteAccountInvites(r) ==
    /\ At(r, "accountInvites")
    /\ DeleteInvites(InvitesBy(job[r].user))
    /\ Goto(r, "accountList")
    /\ UNCHANGED <<accounts, rows, adrift>>

\* The circles the user created are listed before the memberships go.
DeleteAccountList(r) ==
    /\ At(r, "accountList")
    /\ IF circle = "open" /\ owner = job[r].user THEN Goto(r, "accountHeir")
                                                 ELSE Goto(r, "accountLeave")
    /\ UNCHANGED <<accounts, rows, invites, adrift>>

DeleteAccountPickHeir(r) ==
    PickHeir(r, "accountHeir", "accountOwner", Goto(r, "accountLeave"))

DeleteAccountWriteOwner(r) ==
    WriteOwner(r, "accountOwner", Goto(r, "accountLeave"))

DeleteAccountLeave(r) ==
    /\ At(r, "accountLeave")
    /\ DeleteMembers({job[r].user})
    /\ Goto(r, "accountDelete")
    /\ UNCHANGED <<accounts, invites, adrift>>

\* Fails while a membership or an invite still refers to the user.
DeleteAccountRow(r) ==
    /\ At(r, "accountDelete")
    /\ LET u == job[r].user IN
           IF u \in members \/ InvitesBy(u) # {}
           THEN UNCHANGED accounts
           ELSE accounts' = accounts \ {u}
    /\ Finish(r)
    /\ UNCHANGED <<rows, invites, adrift>>

-----------------------------------------------------------------------------
(* Failures *)

BestEffort == {"removeHeir", "removeOwner", "accountList", "accountHeir",
               "accountOwner"}

\* The next statement fails and the handler answers 500, or the server stops:
\* earlier statements stay committed.
Abandon(r) ==
    /\ MayFail
    /\ job[r] # Idle
    /\ Finish(r)
    /\ unspent' = IF At(r, "joinConsume") THEN unspent \cup {job[r].invite}
                                          ELSE unspent
    /\ adrift' = (adrift \/ (circle = "open" /\ job[r].step \in BestEffort))
    /\ slipped' = slipped \ {r}
    /\ UNCHANGED <<accounts, circle, owner, members, active, senior,
                   inviter, invite, admitted>>

\* Account deletion only logs a failed hand-off, and goes on.
HandOffFails(r) ==
    /\ MayFail
    /\ job[r].step \in {"accountList", "accountHeir", "accountOwner"}
    /\ Goto(r, "accountLeave")
    /\ adrift' = (adrift \/ circle = "open")
    /\ slipped' = slipped \ {r}
    /\ UNCHANGED <<accounts, circle, owner, members, active, senior, invites>>

-----------------------------------------------------------------------------

Arrive(r) ==
    \/ \E u \in User : CreateGroup(r, u) \/ ArchiveCircle(r, u) \/ RestoreCircle(r, u)
    \/ \E u \in User, i \in Invite : CreateInvite(r, u, i) \/ JoinGroup(r, u, i)
    \/ \E a \in User : DeleteGroup(r, a)
    \/ \E a, u \in User : \/ AddUserToGroup(r, a, u)
                          \/ RemoveUser(r, a, u)
                          \/ RemoveUserUnread(r, a, u)
                          \/ TransferOwnership(r, a, u)
                          \/ DeleteAccount(r, a, u)

Advance(r) ==
    \/ CreateGroupMember(r)
    \/ AddUserInsert(r)
    \/ CreateInviteInsert(r)
    \/ JoinCheckMember(r) \/ JoinInsert(r) \/ JoinConsumeInvite(r)
    \/ RemoveDelete(r) \/ RemovePickHeir(r) \/ RemoveWriteOwner(r)
    \/ TransferCheckMember(r) \/ TransferWriteOwner(r)
    \/ DeleteGroupMembers(r) \/ DeleteGroupRow(r)
    \/ ArchiveCommit(r) \/ RestoreCommit(r)
    \/ DeleteAccountInvites(r) \/ DeleteAccountList(r)
    \/ DeleteAccountPickHeir(r) \/ DeleteAccountWriteOwner(r)
    \/ DeleteAccountLeave(r) \/ DeleteAccountRow(r)

Next ==
    \/ \E r \in Request : Arrive(r) \/ Advance(r) \/ Abandon(r) \/ HandOffFails(r)
    \/ \E i \in Invite : ExpireInvite(i)

Spec == Init /\ [][Next]_vars

\* A handler that has started runs its statements one after the other.
FairSpec == Spec /\ \A r \in Request : WF_vars(Advance(r))

-----------------------------------------------------------------------------
(* Properties *)

Quiet == \A r \in Request : job[r] = Idle

\* The fix described in groupOwnershipController.go: whoever leads a circle is
\* in it.  A hand-off that finds no active member is the one exception, as
\* long as requests do not overlap and no statement fails.
OwnedUnlessAdrift ==
    Quiet /\ circle = "open" /\ owner \notin members => adrift

\* TransferGroupOwnership and the hand-off on departure check the new owner in
\* one statement and write them in a later one that has no condition
\* (groupOwnershipController.go:128 and :32).  Whatever overlaps and whatever
\* fails, ownership passes to an active member of the circle, or to one who was
\* and has left or archived it since the request that writes had looked (which
\* the comment at :125, "must be an ACTIVE member", does not reckon with).
NewOwnerWasActive ==
    [][circle = "open" /\ owner' \notin {owner, NoUser} =>
           \/ owner' \in active
           \/ \E r \in slipped : job[r].heir = owner' /\ job'[r] # job[r]]_vars

\* An invite that has let someone in is closed, or its join is about to close
\* it, unless that last UPDATE failed; whatever else runs meanwhile.
InviteSpent ==
    \A i \in Invite :
        admitted[i] # {} /\ invite[i] = "usable" =>
            i \in unspent \/ \E r \in Request : At(r, "joinConsume") /\ job[r].invite = i

\* JoinGroup reads the invite and closes it three statements later, so joins
\* that overlap can share one invite; but never more users than requests can
\* overlap, unless the UPDATE that closes it failed.
AdmissionsBounded ==
    \A i \in Invite : i \in unspent \/ Cardinality(admitted[i]) <= Cardinality(Request)

\* An account deletion that is neither disturbed nor interrupted gets to the
\* end: nothing of the circle still refers to the user when the row must go.
DeletionCompletes ==
    \A u \in User :
        (\E r \in Request : At(r, "accountInvites") /\ job[r].user = u)
            ~> u \notin accounts
=============================================================================
