---------------------------- MODULE CirclesProofs ----------------------------
(***************************************************************************)
(* What holds of a circle for any number of users, invites and overlapping *)
(* requests, and of its ownership when requests do not overlap.            *)
(***************************************************************************)
EXTENDS Circles, FiniteSetTheorems, TLAPS

USE NoneAssumption, AdminAssumption

\* The part of the type invariant that speaks of the tables.
RowsOK ==
    /\ accounts \subseteq User
    /\ circle \in {"none", "open", "deleted"}
    /\ owner \in User \cup {NoUser}
    /\ members \subseteq accounts
    /\ active \subseteq members
    /\ senior \subseteq members \X members
    /\ inviter \in [Invite -> User \cup {NoUser}]
    /\ invite \in [Invite -> InviteState]
    /\ admitted \in [Invite -> SUBSET User]
    /\ unspent \subseteq Invite
    /\ slipped \subseteq Request
    /\ adrift \in BOOLEAN
    /\ circle # "open" => members = {} /\ \A i \in Invite : invite[i] # "usable"

\* The part of the type invariant that speaks of the slots.
JobsOK ==
    /\ job \in [Request -> Job]
    /\ \A r \in Request : job[r].step \in InviteStep => job[r].invite \in Invite

\* A job that is well formed of itself may be put in any slot.
JobOK(j) == j \in Job /\ (j.step \in InviteStep => j.invite \in Invite)

LEMMA PutJob ==
  ASSUME JobsOK, NEW r \in Request, NEW j, JobOK(j), job' = [job EXCEPT ![r] = j]
  PROVE  JobsOK'
  BY DEF JobsOK, JobOK

\* The four ways a slot changes.
LEMMA FinishKeeps ==
  ASSUME JobsOK, NEW r \in Request, Finish(r)
  PROVE  JobsOK'
<1>1. JobOK(Idle)
  BY DEF JobOK, Idle, Job, Step, InviteStep
<1> QED
  BY <1>1, PutJob DEF Finish

LEMMA GotoKeeps ==
  ASSUME JobsOK, NEW r \in Request, NEW s \in Step, Goto(r, s),
         s \in InviteStep => job[r].invite \in Invite
  PROVE  JobsOK'
<1>1. JobOK([job[r] EXCEPT !.step = s])
  BY DEF JobsOK, JobOK, Job
<1> QED
  BY <1>1, PutJob DEF Goto

LEMMA HeirKeeps ==
  ASSUME JobsOK, NEW r \in Request, NEW s \in Step \ InviteStep, NEW v \in User,
         job' = [job EXCEPT ![r].step = s, ![r].heir = v]
  PROVE  JobsOK'
<1> DEFINE j == [[job[r] EXCEPT !.step = s] EXCEPT !.heir = v]
<1>1. JobOK(j)
  <2>1. [job[r] EXCEPT !.step = s] \in Job
    BY DEF JobsOK, Job
  <2>2. j \in Job /\ j.step = s
    BY <2>1 DEF Job
  <2> QED
    BY <2>2 DEF JobOK
<1>2. job' = [job EXCEPT ![r] = j]
  BY DEF JobsOK, Job
<1> QED
  BY <1>1, <1>2, PutJob

LEMMA StartKeeps ==
  ASSUME JobsOK, NEW r \in Request, NEW j, JobOK(j), Start(r, j)
  PROVE  JobsOK'
  BY PutJob DEF Start

\* A job built from Idle is well formed.
LEMMA NewJobs ==
  ASSUME NEW s \in Step, NEW u \in User \cup {NoUser}
  PROVE  /\ s \notin InviteStep => JobOK(For(s, u))
         /\ \A i \in Invite : JobOK([For(s, u) EXCEPT !.invite = i])
         /\ \A v \in User \cup {NoUser} :
               s \notin InviteStep => JobOK([For(s, u) EXCEPT !.seen = v])
         /\ \A v \in User :
               s \notin InviteStep => JobOK([Idle EXCEPT !.step = s, !.heir = v])
  BY DEF JobOK, For, Idle, Job

LEMMA ArriveKeepsJobs ==
  ASSUME RowsOK, JobsOK, NEW r \in Request, Arrive(r)
  PROVE  JobsOK'
<1> SUFFICES \E j : JobOK(j) /\ Start(r, j)
  BY StartKeeps
<1>1. ASSUME NEW s \in Step \ InviteStep, NEW u \in User \cup {NoUser}, Start(r, For(s, u))
      PROVE  \E j : JobOK(j) /\ Start(r, j)
  BY <1>1, NewJobs
<1>2. ASSUME NEW s \in Step, NEW u \in User, NEW i \in Invite,
             Start(r, [For(s, u) EXCEPT !.invite = i])
      PROVE  \E j : JobOK(j) /\ Start(r, j)
  <2>1. JobOK([For(s, u) EXCEPT !.invite = i])
    BY NewJobs
  <2> QED
    BY <1>2, <2>1
<1>3. ASSUME NEW u \in User, Start(r, [For("removeDelete", u) EXCEPT !.seen = SeenOwner])
      PROVE  \E j : JobOK(j) /\ Start(r, j)
  <2>1. SeenOwner \in User \cup {NoUser}
    BY DEF SeenOwner, RowsOK
  <2>2. JobOK([For("removeDelete", u) EXCEPT !.seen = SeenOwner])
    BY <2>1, NewJobs DEF Step, InviteStep
  <2> QED
    BY <1>3, <2>2
<1>4. ASSUME NEW v \in User, Start(r, [Idle EXCEPT !.step = "transferMember", !.heir = v])
      PROVE  \E j : JobOK(j) /\ Start(r, j)
  <2>1. JobOK([Idle EXCEPT !.step = "transferMember", !.heir = v])
    BY NewJobs DEF Step, InviteStep
  <2> QED
    BY <1>4, <2>1
<1>5. \/ \E u \in User \cup {NoUser}, s \in Step \ InviteStep : Start(r, For(s, u))
      \/ \E u \in User, i \in Invite, s \in Step : Start(r, [For(s, u) EXCEPT !.invite = i])
      \/ \E u \in User : Start(r, [For("removeDelete", u) EXCEPT !.seen = SeenOwner])
      \/ \E v \in User : Start(r, [Idle EXCEPT !.step = "transferMember", !.heir = v])
  <2>1. /\ {"insertCreator", "addInsert", "dropMembers", "archive", "restore",
            "accountInvites", "removeDelete"} \subseteq Step \ InviteStep
        /\ {"inviteInsert", "joinMember"} \subseteq Step
    BY DEF Step, InviteStep
  <2> QED
    BY <2>1 DEF Arrive, CreateGroup, ArchiveCircle, RestoreCircle, CreateInvite,
       JoinGroup, DeleteGroup, AddUserToGroup, RemoveUser, RemoveUserUnread,
         TransferOwnership,
       DeleteAccount
<1> QED
  BY <1>1, <1>2, <1>3, <1>4, <1>5

LEMMA AdvanceKeepsJobs ==
  ASSUME RowsOK, JobsOK, NEW r \in Request,
         Advance(r) \/ Abandon(r) \/ HandOffFails(r)
  PROVE  JobsOK'
<1> USE DEF InviteStep, Step
<1>1. CASE Finish(r)
  BY <1>1, FinishKeeps
<1>2. CASE \E s \in Step \ InviteStep : Goto(r, s)
  BY <1>2, GotoKeeps
<1>3. CASE JoinCheckMember(r) \/ JoinInsert(r)
  <2>1. job[r].invite \in Invite
    BY <1>3 DEF JobsOK, JoinCheckMember, JoinInsert, At
  <2> QED
    BY <1>3, <2>1, FinishKeeps, GotoKeeps DEF JoinCheckMember, JoinInsert, TryInsert
<1>4. CASE RemovePickHeir(r) \/ DeleteAccountPickHeir(r)
  <2>1. Heirs(job[r].user) \subseteq User
    BY DEF Heirs, RowsOK
  <2> QED
    BY <1>4, <2>1, HeirKeeps, FinishKeeps, GotoKeeps
       DEF RemovePickHeir, DeleteAccountPickHeir, PickHeir
<1>5. \/ Finish(r)
      \/ \E s \in Step \ InviteStep : Goto(r, s)
      \/ JoinCheckMember(r) \/ JoinInsert(r)
      \/ RemovePickHeir(r) \/ DeleteAccountPickHeir(r)
  BY DEF Advance, Abandon, HandOffFails, CreateGroupMember, AddUserInsert,
         TryInsert, CreateInviteInsert, JoinConsumeInvite, RemoveDelete,
         RemoveWriteOwner, TransferCheckMember, TransferWriteOwner, WriteOwner,
         DeleteGroupMembers, DeleteGroupRow, ArchiveCommit, RestoreCommit,
         DeleteAccountInvites, DeleteAccountList, DeleteAccountWriteOwner,
         DeleteAccountLeave, DeleteAccountRow
<1> QED
  BY <1>1, <1>2, <1>3, <1>4, <1>5

\* A member's row is inserted only where it may be.
LEMMA InsertKeepsRows ==
  ASSUME RowsOK, NEW u, CanInsert(u), InsertMember(u),
         UNCHANGED <<accounts, inviter, invite, unspent, adrift>>,
         admitted' \in [Invite -> SUBSET User]
  PROVE  RowsOK'
  BY DEF RowsOK, CanInsert, InsertMember

LEMMA ArriveKeepsRows ==
  ASSUME RowsOK, NEW r \in Request, Arrive(r)
  PROVE  RowsOK'
<1>1. CASE \E u \in User : CreateGroup(r, u)
  BY <1>1 DEF CreateGroup, RowsOK, invites
<1>2. CASE UNCHANGED <<accounts, rows, invites, adrift>>
  BY <1>2 DEF RowsOK, rows, invites
<1> QED
  BY <1>1, <1>2 DEF Arrive, ArchiveCircle, RestoreCircle, CreateInvite, JoinGroup,
     DeleteGroup, AddUserToGroup, RemoveUser, RemoveUserUnread,
         TransferOwnership, DeleteAccount

LEMMA AdvanceKeepsRows ==
  ASSUME RowsOK, JobsOK, NEW r \in Request, Advance(r)
  PROVE  RowsOK'
<1> DEFINE u == job[r].user
<1>1. job[r] \in Job
  BY DEF JobsOK
<1>2. CASE CreateGroupMember(r) \/ AddUserInsert(r)
  BY <1>2, InsertKeepsRows
     DEF CreateGroupMember, AddUserInsert, TryInsert, RowsOK, rows, invites
<1>3. CASE CreateInviteInsert(r)
  BY <1>1, <1>3 DEF CreateInviteInsert, RowsOK, rows, invites, Job, InviteState
<1>4. CASE JoinInsert(r)
  <2>1. CASE CanInsert(u)
    <3>1. u \in User
      BY <2>1 DEF CanInsert, RowsOK
    <3>2. admitted' \in [Invite -> SUBSET User]
      BY <1>4, <2>1, <3>1 DEF JoinInsert, TryInsert, RowsOK
    <3> QED
      BY <1>4, <2>1, <3>2, InsertKeepsRows DEF JoinInsert, TryInsert
  <2>2. CASE ~CanInsert(u)
    BY <1>4, <2>2 DEF JoinInsert, TryInsert, RowsOK, rows, invites
  <2> QED
    BY <2>1, <2>2
<1>5. CASE JoinConsumeInvite(r)
  BY <1>5 DEF JoinConsumeInvite, RowsOK, rows, InviteState
<1>6. CASE RemoveDelete(r) \/ DeleteGroupMembers(r) \/ DeleteAccountLeave(r)
  BY <1>6 DEF RemoveDelete, DeleteGroupMembers, DeleteAccountLeave, DeleteMembers,
              Slip, RowsOK, invites
<1>7. CASE RemoveWriteOwner(r) \/ TransferWriteOwner(r) \/ DeleteAccountWriteOwner(r)
  BY <1>1, <1>7 DEF RemoveWriteOwner, TransferWriteOwner, DeleteAccountWriteOwner,
                    WriteOwner, RowsOK, invites, Job
<1>8. CASE DeleteGroupRow(r)
  BY <1>8 DEF DeleteGroupRow, DeleteInvites, RowsOK, rows, invites, InviteState
<1>9. CASE ArchiveCommit(r) \/ RestoreCommit(r)
  BY <1>9 DEF ArchiveCommit, RestoreCommit, Slip, RowsOK, invites
<1>10. CASE DeleteAccountInvites(r)
  BY <1>10 DEF DeleteAccountInvites, DeleteInvites, RowsOK, rows, InviteState
<1>11. CASE DeleteAccountRow(r)
  BY <1>11 DEF DeleteAccountRow, RowsOK, rows, invites
<1>12. CASE RemovePickHeir(r) \/ DeleteAccountPickHeir(r)
  BY <1>12 DEF RemovePickHeir, DeleteAccountPickHeir, PickHeir, RowsOK, rows, invites
<1>13. CASE JoinCheckMember(r) \/ TransferCheckMember(r) \/ DeleteAccountList(r)
  BY <1>13 DEF JoinCheckMember, TransferCheckMember, DeleteAccountList, RowsOK,
               rows, invites
<1> QED
  BY <1>2, <1>3, <1>4, <1>5, <1>6, <1>7, <1>8, <1>9, <1>10, <1>11, <1>12, <1>13
     DEF Advance

LEMMA FailureKeepsRows ==
  ASSUME RowsOK, JobsOK, NEW r \in Request, Abandon(r) \/ HandOffFails(r)
  PROVE  RowsOK'
<1>1. CASE Abandon(r)
  <2>1. unspent' \subseteq Invite
    BY <1>1 DEF Abandon, RowsOK, JobsOK, At, InviteStep
  <2> QED
    BY <1>1, <2>1 DEF Abandon, RowsOK, rows
<1>2. CASE HandOffFails(r)
  BY <1>2 DEF HandOffFails, RowsOK, rows, invites
<1> QED
  BY <1>1, <1>2

LEMMA ExpiryKeepsTypes ==
  ASSUME RowsOK, JobsOK, NEW i \in Invite, ExpireInvite(i)
  PROVE  RowsOK' /\ JobsOK'
  BY DEF ExpireInvite, RowsOK, JobsOK, rows, InviteState

\* The tables and the jobs stay well formed: no member without an account, no
\* active or ranked user without a membership, and neither members nor usable
\* invites where there is no circle.
THEOREM TypeCorrect == Spec => []TypeOK
<1> USE DEF TypeOK, RowsOK, JobsOK
<1>1. Init => TypeOK
  <2> HAVE Init
  <2>1. Idle \in Job /\ Idle.step \notin InviteStep
    BY DEF Idle, Job, Step, InviteStep
  <2> QED
    BY <2>1 DEF Init, InviteState
<1>2. TypeOK /\ [Next]_vars => TypeOK'
  <2> SUFFICES ASSUME RowsOK, JobsOK, [Next]_vars
               PROVE  RowsOK' /\ JobsOK'
    OBVIOUS
  <2>1. ASSUME NEW r \in Request, Arrive(r) \/ Advance(r) \/ Abandon(r) \/ HandOffFails(r)
        PROVE  RowsOK' /\ JobsOK'
    BY ONLY <2>1, RowsOK, JobsOK, ArriveKeepsJobs, AdvanceKeepsJobs, ArriveKeepsRows,
            AdvanceKeepsRows, FailureKeepsRows
  <2>2. CASE UNCHANGED vars
    BY <2>2 DEF vars, rows, invites
  <2> QED
    BY <2>1, <2>2, ExpiryKeepsTypes DEF Next
<1> QED
  BY <1>1, <1>2, PTL DEF Spec

-----------------------------------------------------------------------------
(* Invites, whatever overlaps and whatever fails *)

JoinStep == {"joinMember", "joinInsert", "joinConsume"}

\* An invite not inserted yet has let nobody in, and no join holds it.
UndrawnIsUnused ==
    \A i \in Invite : invite[i] = "undrawn" =>
        /\ admitted[i] = {}
        /\ \A r \in Request : job[r].step \in JoinStep => job[r].invite # i

InviteInv == UndrawnIsUnused /\ InviteSpent

\* The steps that touch neither the invites nor a slot that holds one.
LEMMA InviteFrame ==
  ASSUME JobsOK, InviteInv, NEW r \in Request, UNCHANGED invites,
         job[r].step \notin JoinStep \ {"joinMember"},
         job' \in [Request -> Job],
         \A q \in Request \ {r} : job'[q] = job[q],
         job'[r].step \notin JoinStep
  PROVE  InviteInv'
<1>1. UndrawnIsUnused'
  BY DEF InviteInv, UndrawnIsUnused, invites
<1>2. InviteSpent'
  <2> SUFFICES ASSUME NEW i \in Invite, admitted[i] # {}, invite[i] = "usable",
                      i \notin unspent
               PROVE  \E q \in Request : job'[q].step = "joinConsume" /\ job'[q].invite = i
    BY DEF InviteSpent, invites, At
  <2>1. PICK q \in Request : job[q].step = "joinConsume" /\ job[q].invite = i
    BY DEF InviteInv, InviteSpent, At
  <2>2. q # r
    BY <2>1 DEF JoinStep
  <2> QED
    BY <2>1, <2>2
<1> QED
  BY <1>1, <1>2 DEF InviteInv

\* A step about the invites, or one that touches neither them nor a slot that
\* holds one.
LEMMA InviteSteps ==
  ASSUME TypeOK, NEW r \in Request,
         Arrive(r) \/ Advance(r) \/ Abandon(r) \/ HandOffFails(r)
  PROVE  \/ \E u \in User, n \in Invite : JoinGroup(r, u, n)
         \/ JoinCheckMember(r) \/ JoinInsert(r) \/ JoinConsumeInvite(r)
         \/ Abandon(r) \/ CreateInviteInsert(r)
         \/ DeleteGroupRow(r) \/ DeleteAccountInvites(r)
         \/ /\ UNCHANGED invites
            /\ job[r].step \notin JoinStep
            /\ \A q \in Request \ {r} : job'[q] = job[q]
            /\ job'[r].step \notin JoinStep
<1> USE DEF TypeOK, JoinStep
<1>1. ASSUME Arrive(r), \A u \in User, n \in Invite : ~JoinGroup(r, u, n)
      PROVE  /\ UNCHANGED invites
             /\ job[r].step \notin JoinStep
             /\ \A q \in Request \ {r} : job'[q] = job[q]
             /\ job'[r].step \notin JoinStep
  <2>1. \E j : Start(r, j) /\ j.step \notin JoinStep /\ UNCHANGED invites
    BY <1>1 DEF Arrive, CreateGroup, ArchiveCircle, RestoreCircle, CreateInvite,
       DeleteGroup, AddUserToGroup, RemoveUser, RemoveUserUnread,
       TransferOwnership, DeleteAccount,
       For, Idle
  <2> QED
    BY <2>1 DEF Start, Idle
<1>2. ASSUME RemovePickHeir(r) \/ DeleteAccountPickHeir(r)
      PROVE  /\ UNCHANGED invites
             /\ job[r].step \notin JoinStep
             /\ \A q \in Request \ {r} : job'[q] = job[q]
             /\ job'[r].step \notin JoinStep
  BY <1>2 DEF RemovePickHeir, DeleteAccountPickHeir, PickHeir, Finish, Goto,
     Idle, At, Job
<1>3. ASSUME Advance(r) \/ HandOffFails(r),
             ~JoinCheckMember(r), ~JoinInsert(r), ~JoinConsumeInvite(r),
             ~CreateInviteInsert(r), ~DeleteGroupRow(r), ~DeleteAccountInvites(r),
             ~RemovePickHeir(r), ~DeleteAccountPickHeir(r)
      PROVE  /\ UNCHANGED invites
             /\ job[r].step \notin JoinStep
             /\ \A q \in Request \ {r} : job'[q] = job[q]
             /\ job'[r].step \notin JoinStep
  BY <1>3 DEF Advance, HandOffFails, CreateGroupMember, AddUserInsert, TryInsert,
     RemoveDelete, RemoveWriteOwner, TransferCheckMember, TransferWriteOwner,
     WriteOwner, DeleteGroupMembers, ArchiveCommit, RestoreCommit,
     DeleteAccountList, DeleteAccountWriteOwner, DeleteAccountLeave,
     DeleteAccountRow, Finish, Goto, Idle, At, Job
<1> QED
  BY <1>1, <1>2, <1>3

LEMMA InviteStepKeeps ==
  ASSUME TypeOK, TypeOK', InviteInv, NEW r \in Request,
         Arrive(r) \/ Advance(r) \/ Abandon(r) \/ HandOffFails(r)
  PROVE  InviteInv'
<1> USE DEF TypeOK, JoinStep
<1> DEFINE i == job[r].invite
<1>1. CASE \E u \in User, n \in Invite : JoinGroup(r, u, n)
  BY <1>1 DEF JoinGroup, Start, For, Idle, InviteInv, UndrawnIsUnused,
              InviteSpent, At, invites
<1>2. CASE JoinCheckMember(r) \/ JoinInsert(r)
  <2>1. i \in Invite /\ invite[i] # "undrawn"
    BY <1>2 DEF JoinCheckMember, JoinInsert, At, InviteStep, InviteInv, UndrawnIsUnused
  <2>2. CASE Goto(r, "joinInsert") /\ UNCHANGED invites /\ At(r, "joinMember")
    <3>1. /\ job[r].step = "joinMember" /\ job'[r].step = "joinInsert"
          /\ \A q \in Request : job'[q].invite = job[q].invite
          /\ \A q \in Request \ {r} : job'[q] = job[q]
      BY <2>2 DEF Goto, At, Job
    <3>2. UndrawnIsUnused'
      BY <2>2, <3>1 DEF InviteInv, UndrawnIsUnused, invites
    <3>3. InviteSpent'
      BY <2>2, <3>1 DEF InviteInv, InviteSpent, At, invites
    <3> QED
      BY <3>2, <3>3 DEF InviteInv
  <2>3. CASE Finish(r) /\ UNCHANGED invites
    BY <1>2, <2>3 DEF Finish, Idle, JoinCheckMember, JoinInsert, InviteInv,
                UndrawnIsUnused, InviteSpent, At, invites
  <2>4. CASE Goto(r, "joinConsume") /\ JoinInsert(r)
    BY <2>1, <2>4 DEF Goto, JoinInsert, TryInsert, Finish, InviteInv,
                UndrawnIsUnused, InviteSpent, At, invites, Job
  <2> QED
    BY <1>2, <2>2, <2>3, <2>4 DEF JoinCheckMember, JoinInsert, TryInsert
<1>3. CASE JoinConsumeInvite(r)
  BY <1>3 DEF JoinConsumeInvite, Finish, Idle, InviteInv, UndrawnIsUnused,
              InviteSpent, At
<1>4. CASE Abandon(r)
  BY <1>4 DEF Abandon, Finish, Idle, InviteInv, UndrawnIsUnused, InviteSpent, At
<1>5. CASE CreateInviteInsert(r)
  <2>1. job' = [job EXCEPT ![r] = Idle] /\ Idle.step = "idle" /\ At(r, "inviteInsert")
    BY <1>5 DEF CreateInviteInsert, Finish, Idle
  <2> QED
    BY <1>5, <2>1 DEF CreateInviteInsert, InviteInv, UndrawnIsUnused, InviteSpent,
                At, invites
<1>6. CASE DeleteGroupRow(r) \/ DeleteAccountInvites(r)
  <2>1. /\ job[r].step \notin JoinStep /\ job'[r].step \notin JoinStep
        /\ \A q \in Request \ {r} : job'[q] = job[q]
    BY <1>6 DEF DeleteGroupRow, DeleteAccountInvites, Finish, Goto, Idle, At, Job
  <2>2. /\ UNCHANGED <<admitted, unspent>>
        /\ \A n \in Invite : invite'[n] = invite[n] \/ invite'[n] = "deleted"
    BY <1>6 DEF DeleteGroupRow, DeleteAccountInvites, DeleteInvites, invites
  <2>3. UndrawnIsUnused'
    BY <2>1, <2>2 DEF InviteInv, UndrawnIsUnused
  <2>4. InviteSpent'
    BY <2>1, <2>2 DEF InviteInv, InviteSpent, At
  <2> QED
    BY <2>3, <2>4 DEF InviteInv
<1>7. CASE /\ UNCHANGED invites
           /\ job[r].step \notin JoinStep
           /\ \A q \in Request \ {r} : job'[q] = job[q]
           /\ job'[r].step \notin JoinStep
  BY <1>7, InviteFrame DEF JobsOK
<1> QED
  BY <1>1, <1>2, <1>3, <1>4, <1>5, <1>6, <1>7, InviteSteps

LEMMA InvitesAlways == Spec => []InviteInv
<1>1. Init => InviteInv
  BY DEF Init, InviteInv, UndrawnIsUnused, InviteSpent, JoinStep, Idle
<1>2. TypeOK /\ TypeOK' /\ InviteInv /\ [Next]_vars => InviteInv'
  <2> SUFFICES ASSUME TypeOK, TypeOK', InviteInv, [Next]_vars
               PROVE  InviteInv'
    OBVIOUS
  <2>1. ASSUME NEW i \in Invite, ExpireInvite(i)
        PROVE  InviteInv'
    BY <2>1 DEF ExpireInvite, TypeOK, InviteInv, UndrawnIsUnused, InviteSpent, At
  <2>2. CASE UNCHANGED vars
    BY <2>2 DEF vars, invites, InviteInv, UndrawnIsUnused, InviteSpent, At
  <2> QED
    BY <2>1, <2>2, InviteStepKeeps DEF Next
<1> QED
  BY <1>1, <1>2, TypeCorrect, PTL DEF Spec

\* However joins overlap with each other and with everything else, an invite
\* that let someone in is usable only until its join has closed it.
THEOREM InvitesAreSpent == Spec => []InviteSpent
<1>1. InviteInv => InviteSpent
  BY DEF InviteInv
<1> QED
  BY <1>1, InvitesAlways, PTL

-----------------------------------------------------------------------------
(* How many an invite admits, whatever overlaps *)

Holding(i, steps) == {q \in Request : job[q].step \in steps /\ job[q].invite = i}

\* Joins that read the invite, and joins that were let in and will close it.
Joining(i) == Holding(i, {"joinMember", "joinInsert"})

Consuming(i) == Holding(i, {"joinConsume"})

\* Whoever is let in, while the invite is usable, is let in by a request that is
\* still to close it; and those about to be let in have a request of their own.
Counted(i) ==
    /\ IsFiniteSet(admitted[i])
    /\ i \notin unspent =>
           /\ invite[i] = "usable" => Cardinality(admitted[i]) <= Cardinality(Consuming(i))
           /\ Cardinality(admitted[i]) + Cardinality(Joining(i)) <= Cardinality(Request)

CountInv == \A i \in Invite : Counted(i)

LEMMA HoldingFinite ==
  ASSUME NEW S \in SUBSET Request
  PROVE  IsFiniteSet(S) /\ Cardinality(S) \in Nat
  BY RequestAssumption, FS_Subset, FS_CardinalityType

LEMMA OneMore ==
  ASSUME NEW S, IsFiniteSet(S), NEW x
  PROVE  /\ IsFiniteSet(S \cup {x})
         /\ Cardinality(S \cup {x}) \in Nat
         /\ Cardinality(S \cup {x}) <= Cardinality(S) + 1
<1>1. Cardinality(S) \in Nat
  BY FS_CardinalityType
<1> QED
  BY <1>1, FS_AddElement

\* The slots that join and those that consume are different ones.
LEMMA SlotsBounded ==
  ASSUME NEW S \in SUBSET Request, NEW T \in SUBSET Request, S \cap T = {}
  PROVE  Cardinality(S) + Cardinality(T) <= Cardinality(Request)
<1>1. IsFiniteSet(S) /\ IsFiniteSet(T) /\ S \cup T \in SUBSET Request
  BY HoldingFinite
<1>2. Cardinality(S \cup T) <= Cardinality(Request)
  BY <1>1, RequestAssumption, FS_Subset
<1>3. Cardinality(S \cup T) = Cardinality(S) + Cardinality(T) - Cardinality({})
  BY <1>1, FS_Union
<1> QED
  BY <1>1, <1>2, <1>3, FS_EmptySet, FS_CardinalityType

\* A step that lets nobody in and starts no join keeps the count.
LEMMA CountFrame ==
  ASSUME NEW i \in Invite, Counted(i), admitted'[i] = admitted[i],
         i \notin unspent' => i \notin unspent,
         i \notin unspent' /\ invite'[i] = "usable" =>
             invite[i] = "usable" /\ Consuming(i)' = Consuming(i),
         Joining(i)' \subseteq Joining(i)
  PROVE  Counted(i)'
<1>1. Cardinality(Joining(i)') <= Cardinality(Joining(i))
  <2>1. Joining(i) \subseteq Request
    BY DEF Joining, Holding
  <2> QED
    BY <2>1, HoldingFinite, FS_Subset
<1>2. /\ Cardinality(Joining(i)) \in Nat /\ Cardinality(Joining(i)') \in Nat
      /\ Cardinality(admitted[i]) \in Nat /\ Cardinality(Request) \in Nat
  <2>1. Joining(i) \subseteq Request /\ Joining(i)' \subseteq Request
    BY DEF Joining, Holding
  <2> QED
    BY <2>1, HoldingFinite, FS_CardinalityType DEF Counted
<1> QED
  BY <1>1, <1>2 DEF Counted
LEMMA CountStepKeeps ==
  ASSUME TypeOK, TypeOK', UndrawnIsUnused, CountInv, NEW r \in Request,
         Arrive(r) \/ Advance(r) \/ Abandon(r) \/ HandOffFails(r)
  PROVE  CountInv'
<1> SUFFICES ASSUME NEW i \in Invite PROVE Counted(i)'
  BY DEF CountInv
<1> USE DEF TypeOK, Joining, Consuming, Holding
<1> HIDE DEF Counted
<1>1. Counted(i)
  BY DEF CountInv
<1>2. ASSUME NEW u \in User, NEW n \in Invite, JoinGroup(r, u, n)
      PROVE  Counted(i)'
  <2>1. /\ job[r].step = "idle" /\ job'[r].step = "joinMember" /\ job'[r].invite = n
        /\ \A q \in Request \ {r} : job'[q] = job[q]
        /\ invite[n] = "usable" /\ UNCHANGED invites
    BY <1>2 DEF JoinGroup, Start, For, Idle
  <2>2. CASE i = n
    <3>1. Joining(i)' = Joining(i) \cup {r} /\ r \notin Joining(i)
      BY <2>1, <2>2
    <3>2. Consuming(i)' = Consuming(i) /\ r \notin Consuming(i)
      BY <2>1
    <3>3. Cardinality(Joining(i)') + Cardinality(Consuming(i)) <= Cardinality(Request)
      <4>1. Joining(i)' \in SUBSET Request /\ Consuming(i) \in SUBSET Request
        OBVIOUS
      <4>2. Joining(i)' \cap Consuming(i) = {}
        BY <3>1, <3>2
      <4> QED
        BY <4>1, <4>2, SlotsBounded
    <3>4. /\ Cardinality(Joining(i)') \in Nat /\ Cardinality(Consuming(i)) \in Nat
          /\ Cardinality(admitted[i]) \in Nat /\ Cardinality(Request) \in Nat
      BY <1>1, HoldingFinite, FS_CardinalityType DEF Counted
    <3> HIDE DEF Joining, Consuming, Holding
    <3> QED
      BY <1>1, <2>1, <2>2, <3>2, <3>3, <3>4 DEF Counted, invites
  <2>3. CASE i # n
    <3>1. Joining(i)' = Joining(i) /\ Consuming(i)' = Consuming(i)
      BY <2>1, <2>3
    <3> HIDE DEF Joining, Consuming, Holding
    <3> QED
      BY <1>1, <2>1, <3>1, CountFrame DEF invites
  <2> QED
    BY <2>2, <2>3
<1>3. CASE JoinCheckMember(r)
  <2>1. CASE Goto(r, "joinInsert")
    <3>1. /\ job[r].step = "joinMember" /\ job'[r].step = "joinInsert"
          /\ \A q \in Request : job'[q].invite = job[q].invite
          /\ \A q \in Request \ {r} : job'[q] = job[q]
      BY <1>3, <2>1 DEF JoinCheckMember, Goto, At, Job
    <3>2. Joining(i)' = Joining(i) /\ Consuming(i)' = Consuming(i)
      BY <3>1
    <3> HIDE DEF Joining, Consuming, Holding
    <3> QED
      BY <1>1, <1>3, <3>2, CountFrame DEF JoinCheckMember, invites
  <2>2. CASE Finish(r)
    <3>1. /\ job[r].step = "joinMember" /\ job'[r].step = "idle"
          /\ \A q \in Request \ {r} : job'[q] = job[q]
      BY <1>3, <2>2 DEF JoinCheckMember, Finish, At, Idle
    <3>2. Joining(i)' \subseteq Joining(i) /\ Consuming(i)' = Consuming(i)
      BY <3>1
    <3> HIDE DEF Joining, Consuming, Holding
    <3> QED
      BY <1>1, <1>3, <3>2, CountFrame DEF JoinCheckMember, invites
  <2> QED
    BY <1>3, <2>1, <2>2 DEF JoinCheckMember
<1>4. CASE JoinInsert(r)
  <2>1. CASE CanInsert(job[r].user)
    <3>1. /\ job[r].step = "joinInsert" /\ job'[r].step = "joinConsume"
          /\ \A q \in Request : job'[q].invite = job[q].invite
          /\ \A q \in Request \ {r} : job'[q] = job[q]
      BY <1>4, <2>1 DEF JoinInsert, TryInsert, Goto, At, Job
    <3>2. /\ UNCHANGED <<invite, unspent>>
          /\ admitted'[i] = IF i = job[r].invite THEN admitted[i] \cup {job[r].user}
                                                 ELSE admitted[i]
      BY <1>4, <2>1 DEF JoinInsert, TryInsert
    <3>3. CASE i = job[r].invite
      <4>1. Joining(i)' = Joining(i) \ {r} /\ r \in Joining(i)
        BY <3>1, <3>3
      <4>2. Consuming(i)' = Consuming(i) \cup {r} /\ r \notin Consuming(i)
        BY <3>1, <3>3
      <4>3. /\ Joining(i) \in SUBSET Request /\ Consuming(i) \in SUBSET Request
            /\ IsFiniteSet(admitted[i])
        BY <1>1 DEF Counted
      <4> HIDE DEF Joining, Consuming, Holding
      <4>4. Cardinality(Joining(i)') = Cardinality(Joining(i)) - 1
        BY <4>1, <4>3, HoldingFinite, FS_RemoveElement
      <4>5. Cardinality(Consuming(i)') = Cardinality(Consuming(i)) + 1
        BY <4>2, <4>3, HoldingFinite, FS_AddElement
      <4>6. /\ IsFiniteSet(admitted'[i])
            /\ Cardinality(admitted'[i]) <= Cardinality(admitted[i]) + 1
            /\ Cardinality(admitted'[i]) \in Nat
        <5>1. admitted'[i] = admitted[i] \cup {job[r].user}
          BY <3>2, <3>3
        <5>2. /\ IsFiniteSet(admitted[i] \cup {job[r].user})
              /\ Cardinality(admitted[i] \cup {job[r].user}) \in Nat
              /\ Cardinality(admitted[i] \cup {job[r].user}) <= Cardinality(admitted[i]) + 1
          BY <4>3, OneMore
        <5> QED
          BY <5>1, <5>2
      <4>7. /\ Cardinality(Joining(i)) \in Nat /\ Cardinality(Consuming(i)) \in Nat
            /\ Cardinality(admitted[i]) \in Nat /\ Cardinality(Request) \in Nat
        BY <4>3, HoldingFinite, FS_CardinalityType
      <4> QED
        BY <1>1, <3>2, <4>4, <4>5, <4>6, <4>7 DEF Counted
    <3>4. CASE i # job[r].invite
      <4>1. Joining(i)' = Joining(i) /\ Consuming(i)' = Consuming(i)
        BY <3>1, <3>4
      <4> HIDE DEF Joining, Consuming, Holding
      <4> QED
        BY <1>1, <3>2, <3>4, <4>1, CountFrame
    <3> QED
      BY <3>3, <3>4
  <2>2. CASE ~CanInsert(job[r].user)
    <3>1. /\ job[r].step = "joinInsert" /\ job'[r].step = "idle" /\ UNCHANGED invites
          /\ \A q \in Request \ {r} : job'[q] = job[q]
      BY <1>4, <2>2 DEF JoinInsert, TryInsert, Finish, At, Idle
    <3>2. Joining(i)' \subseteq Joining(i) /\ Consuming(i)' = Consuming(i)
      BY <3>1
    <3> HIDE DEF Joining, Consuming, Holding
    <3> QED
      BY <1>1, <3>1, <3>2, CountFrame DEF invites
  <2> QED
    BY <2>1, <2>2
<1>5. CASE JoinConsumeInvite(r) \/ Abandon(r)
  <2>1. /\ job'[r].step = "idle" /\ UNCHANGED admitted
        /\ \A q \in Request \ {r} : job'[q] = job[q]
        /\ \A n \in Invite : invite'[n] = "usable" => invite[n] = "usable"
        /\ unspent \subseteq unspent'
        /\ job[r].step = "joinConsume" =>
               LET n == job[r].invite IN n \in unspent' \/ invite'[n] # "usable"
    BY <1>5 DEF JoinConsumeInvite, Abandon, Finish, Idle, At, InviteStep
  <2>2. Joining(i)' \subseteq Joining(i)
    BY <2>1
  <2>3. i \notin unspent' /\ invite'[i] = "usable" => Consuming(i)' = Consuming(i)
    BY <2>1
  <2> HIDE DEF Joining, Consuming, Holding
  <2> QED
    BY <1>1, <2>1, <2>2, <2>3, CountFrame
<1>6. CASE CreateInviteInsert(r)
  <2>1. /\ job[r].step = "inviteInsert" /\ job'[r].step = "idle"
        /\ \A q \in Request \ {r} : job'[q] = job[q]
        /\ UNCHANGED <<admitted, unspent>>
    BY <1>6 DEF CreateInviteInsert, Finish, At, Idle, invites
  <2>2. Joining(i)' = Joining(i) /\ Consuming(i)' = Consuming(i)
    BY <2>1
  <2>3. CASE invite'[i] = invite[i]
    <3> HIDE DEF Joining, Consuming, Holding
    <3> QED
      BY <1>1, <2>1, <2>2, <2>3, CountFrame
  <2>4. CASE invite[i] = "undrawn"
    <3>1. admitted[i] = {}
      BY <2>4 DEF UndrawnIsUnused
    <3>2. Cardinality(Consuming(i)) \in Nat
      BY HoldingFinite
    <3> HIDE DEF Joining, Consuming, Holding
    <3> QED
      BY <1>1, <2>1, <2>2, <3>1, <3>2, FS_EmptySet DEF Counted
  <2> QED
    BY <1>6, <2>3, <2>4 DEF CreateInviteInsert, invites
<1>7. CASE DeleteGroupRow(r) \/ DeleteAccountInvites(r)
  <2>1. /\ job[r].step \notin JoinStep /\ job'[r].step \notin JoinStep
        /\ \A q \in Request \ {r} : job'[q] = job[q]
    BY <1>7 DEF DeleteGroupRow, DeleteAccountInvites, Finish, Goto, Idle, At, Job, JoinStep
  <2>2. /\ UNCHANGED <<admitted, unspent>>
        /\ \A n \in Invite : invite'[n] = invite[n] \/ invite'[n] = "deleted"
    BY <1>7 DEF DeleteGroupRow, DeleteAccountInvites, DeleteInvites, invites
  <2>3. Joining(i)' = Joining(i) /\ Consuming(i)' = Consuming(i)
    BY <2>1 DEF JoinStep
  <2> HIDE DEF Joining, Consuming, Holding
  <2> QED
    BY <1>1, <2>2, <2>3, CountFrame
<1>8. CASE /\ UNCHANGED invites
           /\ job[r].step \notin JoinStep
           /\ \A q \in Request \ {r} : job'[q] = job[q]
           /\ job'[r].step \notin JoinStep
  <2>1. Joining(i)' = Joining(i) /\ Consuming(i)' = Consuming(i)
    BY <1>8 DEF JoinStep
  <2> HIDE DEF Joining, Consuming, Holding
  <2> QED
    BY <1>1, <1>8, <2>1, CountFrame DEF invites
<1> QED
  BY <1>2, <1>3, <1>4, <1>5, <1>6, <1>7, <1>8, InviteSteps

\* JoinGroup reads the invite and closes it three statements later: joins that
\* overlap share it, but however they do, no more users get in than requests can
\* overlap, unless the UPDATE that closes the invite failed.
THEOREM AdmissionsAreBounded == Spec => []AdmissionsBounded
<1>1. Init => CountInv
  <2> SUFFICES ASSUME Init, NEW i \in Invite PROVE Counted(i)
    BY DEF CountInv
  <2>1. Joining(i) = {} /\ admitted[i] = {} /\ invite[i] # "usable"
    BY DEF Init, Joining, Holding, Idle
  <2>2. Cardinality(Request) \in Nat
    BY RequestAssumption, FS_CardinalityType
  <2> QED
    BY <2>1, <2>2, FS_EmptySet DEF Counted
<1>2. TypeOK /\ TypeOK' /\ InviteInv /\ CountInv /\ [Next]_vars => CountInv'
  <2> SUFFICES ASSUME TypeOK, TypeOK', InviteInv, CountInv, [Next]_vars
               PROVE  CountInv'
    OBVIOUS
  <2>1. ASSUME NEW r \in Request,
               Arrive(r) \/ Advance(r) \/ Abandon(r) \/ HandOffFails(r)
        PROVE  CountInv'
    BY <2>1, CountStepKeeps DEF InviteInv
  <2>2. ASSUME UNCHANGED <<job, admitted, unspent>>,
               \A i \in Invite : invite'[i] = "usable" => invite[i] = "usable"
        PROVE  CountInv'
    BY <2>2 DEF CountInv, Counted, Joining, Consuming, Holding
  <2>3. ASSUME NEW i \in Invite, ExpireInvite(i)
        PROVE  CountInv'
    BY <2>2, <2>3 DEF ExpireInvite, TypeOK
  <2>4. CASE UNCHANGED vars
    BY <2>2, <2>4 DEF vars, invites
  <2> QED
    BY <2>1, <2>3, <2>4 DEF Next
<1>3. CountInv => AdmissionsBounded
  <2> SUFFICES ASSUME CountInv, NEW i \in Invite, i \notin unspent
               PROVE  Cardinality(admitted[i]) <= Cardinality(Request)
    BY DEF AdmissionsBounded
  <2>1. /\ IsFiniteSet(admitted[i])
        /\ Cardinality(admitted[i]) + Cardinality(Joining(i)) <= Cardinality(Request)
    BY DEF CountInv, Counted
  <2>2. Joining(i) \in SUBSET Request
    BY DEF Joining, Holding
  <2>3. /\ Cardinality(admitted[i]) \in Nat /\ Cardinality(Joining(i)) \in Nat
        /\ Cardinality(Request) \in Nat
    BY <2>1, <2>2, HoldingFinite, FS_CardinalityType
  <2> QED
    BY <2>1, <2>3
<1> QED
  BY <1>1, <1>2, <1>3, TypeCorrect, InvitesAlways, PTL DEF Spec

-----------------------------------------------------------------------------
(* Ownership, when requests do not overlap *)

OneRequest == \A q, r \in Request : q = r

\* What a handler knows about the owner before each statement that moves it.
\* With a second request in between, none of this would survive the wait.
OwnerKnown(r) ==
    LET u == job[r].user
        h == job[r].heir
    IN  /\ At(r, "insertCreator") => circle = "open" /\ owner = u /\ CanInsert(u)
        /\ At(r, "removeDelete") => job[r].seen = SeenOwner
        /\ At(r, "removeHeir") => owner = u
        /\ job[r].step \in {"removeOwner", "transferOwner", "accountOwner"} => h \in active
        /\ At(r, "accountOwner") => h # u
        /\ At(r, "dropCircle") => members = {}
        /\ At(r, "accountLeave") => owner # u \/ adrift \/ circle # "open"

\* In the middle of a handler the owner may be outside the circle.
InBetween(r) == job[r].step \in {"insertCreator", "removeHeir", "removeOwner", "dropCircle"}

OwnerInv ==
    /\ \A r \in Request : OwnerKnown(r)
    /\ circle = "open" /\ owner \notin members =>
           adrift \/ \E r \in Request : InBetween(r)

\* Arriving, a request writes only when it creates the circle.
LEMMA ArriveKeepsOwner ==
  ASSUME TypeOK, OwnerInv, OneRequest, ~MayFail, NEW r \in Request, Arrive(r)
  PROVE  OwnerInv'
<1> USE DEF OwnerKnown, InBetween, At, OneRequest
<1> DEFINE PlainStep == {"archive", "restore", "dropMembers", "addInsert",
                         "accountInvites", "inviteInsert", "joinMember",
                         "transferMember"}
<1>1. job[r] = Idle /\ ~InBetween(r)
  <2>1. \E j : Start(r, j)
    BY DEF Arrive, CreateGroup, ArchiveCircle, RestoreCircle, CreateInvite, JoinGroup,
       DeleteGroup, AddUserToGroup, RemoveUser, RemoveUserUnread,
         TransferOwnership, DeleteAccount
  <2> QED
    BY <2>1 DEF Start, Idle
<1>2. CASE \E u \in User : CreateGroup(r, u)
  <2>1. PICK u \in User : CreateGroup(r, u)
    BY <1>2
  <2>2. job'[r].step = "insertCreator" /\ job'[r].user = u
    BY <2>1 DEF CreateGroup, Start, For, Idle, TypeOK
  <2>3. members = {} /\ members' = {} /\ circle' = "open" /\ owner' = u /\ u \in accounts'
    BY <2>1 DEF CreateGroup, TypeOK
  <2> QED
    BY <2>2, <2>3 DEF OwnerInv, CanInsert
<1>3. CASE \E a, u \in User : RemoveUser(r, a, u)
  <2>1. /\ job'[r].step = "removeDelete" /\ job'[r].seen = SeenOwner
        /\ SeenOwner' = SeenOwner
        /\ UNCHANGED <<circle, owner, members, adrift>>
    BY <1>3 DEF RemoveUser, Start, For, Idle, TypeOK, rows, SeenOwner
  <2> QED
    BY <1>1, <2>1 DEF OwnerInv
<1>4. CASE /\ UNCHANGED <<accounts, rows, adrift>>
           /\ \E j : /\ job' = [job EXCEPT ![r] = j]
                     /\ j.step \in PlainStep
  BY <1>1, <1>4 DEF OwnerInv, TypeOK, rows
<1>5. \/ \E u \in User : CreateGroup(r, u)
      \/ \E a, u \in User : RemoveUser(r, a, u)
      \/ /\ UNCHANGED <<accounts, rows, adrift>>
         /\ \E j : /\ Start(r, j)
                   /\ j.step \in PlainStep
  <2>1. ASSUME NEW s \in PlainStep, NEW u, NEW i
        PROVE  /\ For(s, u).step = s
               /\ [For(s, u) EXCEPT !.invite = i].step = s
               /\ [Idle EXCEPT !.step = s, !.heir = u].step = s
    BY DEF For, Idle
  <2>3. CASE \E u \in User : ArchiveCircle(r, u) \/ RestoreCircle(r, u) \/ DeleteGroup(r, u)
    BY <2>1, <2>3 DEF ArchiveCircle, RestoreCircle, DeleteGroup
  <2>4. CASE \E a, u \in User : AddUserToGroup(r, a, u) \/ DeleteAccount(r, a, u)
    BY <2>1, <2>4 DEF AddUserToGroup, DeleteAccount
  <2>5. CASE \E u \in User, i \in Invite : CreateInvite(r, u, i) \/ JoinGroup(r, u, i)
    <3>1. PICK u \in User, i \in Invite : CreateInvite(r, u, i) \/ JoinGroup(r, u, i)
      BY <2>5
    <3>2. /\ [For("inviteInsert", u) EXCEPT !.invite = i].step \in PlainStep
          /\ [For("joinMember", u) EXCEPT !.invite = i].step \in PlainStep
      BY <2>1
    <3> QED
      BY <3>1, <3>2 DEF CreateInvite, JoinGroup
  <2>6. CASE \E a, v \in User : TransferOwnership(r, a, v)
    <3>1. PICK a \in User, v \in User : TransferOwnership(r, a, v)
      BY <2>6
    <3>2. [Idle EXCEPT !.step = "transferMember", !.heir = v].step \in PlainStep
      BY <2>1
    <3> QED
      BY <3>1, <3>2 DEF TransferOwnership
  <2>7. ~\E a, u \in User : RemoveUserUnread(r, a, u)
    BY DEF RemoveUserUnread
  <2> QED
    BY <2>3, <2>4, <2>5, <2>6, <2>7 DEF Arrive
<1> QED
  BY <1>2, <1>3, <1>4, <1>5 DEF Start

\* The other statements.  A hand-off ends with an active member as owner, or
\* is recorded as adrift.
LEMMA AdvanceKeepsOwner ==
  ASSUME TypeOK, TypeOK', OwnerInv, OneRequest, NEW r \in Request, Advance(r)
  PROVE  OwnerInv'
<1> USE DEF OwnerKnown, InBetween, At, OneRequest
<1> DEFINE u == job[r].user
           h == job[r].heir
<1>a. job[r] \in Job /\ OwnerKnown(r) /\ \A q \in Request : q = r
  BY DEF TypeOK, OwnerInv
<1>b. Idle.step = "idle" /\ (Finish(r) => job'[r].step = "idle")
  BY DEF Idle, Finish, TypeOK
<1>c. \A s \in Step : Goto(r, s) =>
          job'[r].step = s /\ job'[r].user = u /\ job'[r].heir = h
  BY <1>a DEF Goto, TypeOK, Job
<1>1. CASE CreateGroupMember(r)
  <2>1. CanInsert(u) /\ owner = u
    BY <1>1 DEF CreateGroupMember, OwnerInv
  <2>2. Finish(r) /\ members' = members \cup {u} /\ owner' = owner
    BY <1>1, <2>1 DEF CreateGroupMember, TryInsert, InsertMember
  <2> QED
    BY <1>a, <1>b, <2>1, <2>2 DEF OwnerInv
<1>2. CASE AddUserInsert(r) \/ JoinInsert(r)
  <2>1. job[r].step \in {"addInsert", "joinInsert"} /\ UNCHANGED adrift
    BY <1>2 DEF AddUserInsert, JoinInsert
  <2>2. members \subseteq members' /\ UNCHANGED <<circle, owner>>
    BY <1>2 DEF AddUserInsert, JoinInsert, TryInsert, InsertMember, rows
  <2>3. job'[r].step \in {"idle", "joinConsume"}
    BY <1>2, <1>b, <1>c DEF AddUserInsert, JoinInsert, TryInsert, Step
  <2> QED
    BY <1>a, <2>1, <2>2, <2>3 DEF OwnerInv
<1>3. CASE RemoveDelete(r)
  <2>1. job[r].step = "removeDelete" /\ job[r].seen = SeenOwner
    BY <1>3, <1>a DEF RemoveDelete
  <2>2. /\ members' = members \ {u} /\ active' = active \ {u}
        /\ UNCHANGED <<circle, owner, adrift>>
    BY <1>3 DEF RemoveDelete, DeleteMembers
  <2>3. CASE u \in members /\ job[r].seen = u
    <3>1. job'[r].step = "removeHeir" /\ job'[r].user = u
      BY <1>3, <1>c, <2>3 DEF RemoveDelete, Step
    <3>2. owner = u
      BY <2>1, <2>3 DEF SeenOwner, TypeOK
    <3> QED
      BY <1>a, <2>2, <3>1, <3>2 DEF OwnerInv
  <2>4. CASE ~(u \in members /\ job[r].seen = u)
    <3>1. job'[r].step = "idle"
      BY <1>3, <1>b, <2>4 DEF RemoveDelete
    <3>2. circle = "open" /\ owner \notin members' => owner \notin members
      BY <2>1, <2>2, <2>4 DEF SeenOwner
    <3> QED
      BY <1>a, <2>1, <2>2, <3>1, <3>2 DEF OwnerInv
  <2> QED
    BY <2>3, <2>4
<1>4. CASE RemovePickHeir(r) \/ DeleteAccountPickHeir(r)
  <2>1. /\ UNCHANGED <<circle, owner, members, active>>
        /\ job[r].step \in {"removeHeir", "accountHeir"}
    BY <1>4 DEF RemovePickHeir, DeleteAccountPickHeir, PickHeir, rows
  <2>2. ASSUME NEW v \in Heirs(u),
               job' = [job EXCEPT ![r].step = "removeOwner", ![r].heir = v],
               UNCHANGED adrift
        PROVE  OwnerInv'
    <3>1. job'[r].step = "removeOwner" /\ job'[r].heir = v
      BY <1>a, <2>2 DEF TypeOK, Job
    <3>2. v \in active /\ adrift' = adrift
      BY <2>2 DEF Heirs
    <3> QED
      BY <1>a, <2>1, <3>1, <3>2 DEF OwnerInv
  <2>3. ASSUME NEW v \in Heirs(u), job[r].step = "accountHeir",
               job' = [job EXCEPT ![r].step = "accountOwner", ![r].heir = v],
               UNCHANGED adrift
        PROVE  OwnerInv'
    <3>1. job'[r].step = "accountOwner" /\ job'[r].heir = v /\ job'[r].user = u
      BY <1>a, <2>3 DEF TypeOK, Job
    <3>2. v \in active /\ v # u /\ adrift' = adrift /\ job[r].step = "accountHeir"
      BY <2>3 DEF Heirs
    <3> QED
      BY <1>a, <2>1, <3>1, <3>2 DEF OwnerInv
  <2>4. ASSUME job'[r].step \in {"idle", "accountLeave"},
               adrift' = (adrift \/ circle = "open")
        PROVE  OwnerInv'
    BY <1>a, <2>1, <2>4 DEF OwnerInv, TypeOK
  <2>5. job[r].step = "accountHeir" \/ RemovePickHeir(r)
    BY <1>4 DEF DeleteAccountPickHeir, PickHeir
  <2> QED
    BY <1>4, <1>b, <1>c, <2>2, <2>3, <2>4
       DEF RemovePickHeir, DeleteAccountPickHeir, PickHeir, Step
<1>5. CASE RemoveWriteOwner(r) \/ TransferWriteOwner(r) \/ DeleteAccountWriteOwner(r)
  <2>1. h \in active /\ h \in members
    BY <1>5, <1>a DEF RemoveWriteOwner, TransferWriteOwner, DeleteAccountWriteOwner,
                WriteOwner, TypeOK
  <2>2. UNCHANGED <<circle, members, active>>
    BY <1>5 DEF RemoveWriteOwner, TransferWriteOwner, DeleteAccountWriteOwner, WriteOwner
  <2>3. IF circle = "open" THEN owner' = h /\ ~adrift' ELSE UNCHANGED <<owner, adrift>>
    BY <1>5 DEF RemoveWriteOwner, TransferWriteOwner, DeleteAccountWriteOwner, WriteOwner
  <2>4. \/ job'[r].step = "idle"
        \/ job'[r].step = "accountLeave" /\ job'[r].user = u /\ h # u
    BY <1>5, <1>a, <1>b, <1>c
       DEF RemoveWriteOwner, TransferWriteOwner, DeleteAccountWriteOwner, WriteOwner, Step
  <2> QED
    BY <1>a, <2>1, <2>2, <2>3, <2>4 DEF OwnerInv
<1>6. CASE TransferCheckMember(r)
  <2>1. UNCHANGED <<circle, owner, members, active, adrift>> /\ job[r].step = "transferMember"
    BY <1>6 DEF TransferCheckMember, rows
  <2>2. \/ job'[r].step = "idle"
        \/ job'[r].step = "transferOwner" /\ job'[r].heir = h /\ h \in active
    BY <1>6, <1>b, <1>c DEF TransferCheckMember, Step
  <2> QED
    BY <1>a, <2>1, <2>2 DEF OwnerInv
<1>7. CASE DeleteGroupMembers(r)
  <2>1. job'[r].step = "dropCircle" /\ UNCHANGED <<circle, adrift>> /\ members' = {}
    BY <1>7, <1>c DEF DeleteGroupMembers, DeleteMembers, Step
  <2> QED
    BY <1>a, <2>1 DEF OwnerInv
<1>8. CASE DeleteGroupRow(r)
  <2>1. members = {}
    BY <1>8, <1>a DEF DeleteGroupRow, OwnerInv
  <2> QED
    BY <1>8, <1>a, <1>b, <2>1 DEF DeleteGroupRow, OwnerInv, TypeOK, rows
<1>9. CASE ArchiveCommit(r) \/ RestoreCommit(r)
  BY <1>9, <1>a, <1>b DEF ArchiveCommit, RestoreCommit, OwnerInv
<1>10. CASE DeleteAccountList(r)
  <2>1. UNCHANGED <<circle, owner, members, active, adrift>> /\ job[r].step = "accountList"
    BY <1>10 DEF DeleteAccountList, rows
  <2>2. \/ job'[r].step = "accountHeir"
        \/ /\ job'[r].step = "accountLeave" /\ job'[r].user = u
           /\ ~(circle = "open" /\ owner = u)
    BY <1>10, <1>c DEF DeleteAccountList, Step
  <2> QED
    BY <1>a, <2>1, <2>2 DEF OwnerInv
<1>11. CASE DeleteAccountLeave(r)
  <2>1. /\ members' = members \ {u} /\ active' = active \ {u}
        /\ UNCHANGED <<circle, owner, adrift>> /\ job[r].step = "accountLeave"
    BY <1>11 DEF DeleteAccountLeave, DeleteMembers
  <2>2. job'[r].step = "accountDelete"
    BY <1>11, <1>c DEF DeleteAccountLeave, Step
  <2> QED
    BY <1>a, <2>1, <2>2 DEF OwnerInv
<1>12. CASE \/ CreateInviteInsert(r) \/ JoinCheckMember(r) \/ JoinConsumeInvite(r)
            \/ DeleteAccountInvites(r) \/ DeleteAccountRow(r)
  <2>1. /\ UNCHANGED <<circle, owner, members, active, adrift>>
        /\ job[r].step \in {"inviteInsert", "joinMember", "joinConsume",
                            "accountInvites", "accountDelete"}
    BY <1>12 DEF CreateInviteInsert, JoinCheckMember, JoinConsumeInvite,
                 DeleteAccountInvites, DeleteAccountRow, rows
  <2>2. job'[r].step \in {"idle", "joinInsert", "accountList"}
    BY <1>12, <1>b, <1>c DEF CreateInviteInsert, JoinCheckMember, JoinConsumeInvite,
                 DeleteAccountInvites, DeleteAccountRow, Step
  <2> QED
    BY <1>a, <2>1, <2>2 DEF OwnerInv
<1> QED
  BY <1>1, <1>2, <1>3, <1>4, <1>5, <1>6, <1>7, <1>8, <1>9, <1>10, <1>11, <1>12
     DEF Advance

LEMMA InitialOwner == Init => OwnerInv
  BY DEF Init, OwnerInv, OwnerKnown, InBetween, At, Idle

LEMMA NextKeepsOwner ==
  ASSUME TypeOK, TypeOK', OwnerInv, OneRequest, ~MayFail, [Next]_vars
  PROVE  OwnerInv'
<1>1. ASSUME NEW r \in Request, Arrive(r) \/ Advance(r)
      PROVE  OwnerInv'
  BY <1>1, ArriveKeepsOwner, AdvanceKeepsOwner
<1>2. CASE \E i \in Invite : ExpireInvite(i)
  BY <1>2 DEF ExpireInvite, rows, OwnerInv, OwnerKnown, InBetween, At, SeenOwner, CanInsert
<1>3. CASE UNCHANGED vars
  BY <1>3 DEF vars, rows, OwnerInv, OwnerKnown, InBetween, At, SeenOwner, CanInsert
<1> QED
  BY <1>1, <1>2, <1>3 DEF Next, Abandon, HandOffFails

\* When requests do not overlap and no statement fails, a circle is led by one
\* of its members, unless a hand-off found no active member to give it to.
THEOREM CirclesAreOwned ==
  ASSUME OneRequest, ~MayFail
  PROVE  Spec => []OwnedUnlessAdrift
<1>1. Init => OwnerInv
  BY InitialOwner
<1>2. TypeOK /\ TypeOK' /\ OwnerInv /\ [Next]_vars => OwnerInv'
  BY NextKeepsOwner
<1>3. OwnerInv => OwnedUnlessAdrift
  BY DEF OwnerInv, OwnedUnlessAdrift, Quiet, InBetween, Idle
<1> QED
  BY <1>1, <1>2, <1>3, TypeCorrect, PTL DEF Spec

-----------------------------------------------------------------------------
(* Handing a circle over, whatever overlaps and whatever fails *)

\* An heir that a request has chosen is an active member until they leave or
\* archive the circle, which the history records.
HeirInv ==
    \A r \in Request : job[r].step \in HandOverStep => job[r].heir \in active \/ r \in slipped

\* A step that takes nobody's membership away and chooses no heir.
LEMMA HeirFrame ==
  ASSUME HeirInv, NEW r \in Request, \A q \in Request \ {r} : job'[q] = job[q],
         job'[r].step \notin HandOverStep, active \subseteq active',
         slipped \ {r} \subseteq slipped'
  PROVE  HeirInv'
  BY DEF HeirInv

LEMMA HeirStepKeeps ==
  ASSUME TypeOK, HeirInv, NEW r \in Request,
         Arrive(r) \/ Advance(r) \/ Abandon(r) \/ HandOffFails(r)
  PROVE  HeirInv'
<1> DEFINE Quitting == /\ \A q \in Request \ {r} : job'[q] = job[q]
                       /\ job'[r].step \notin HandOverStep
<1>a. job[r] \in Job
  BY DEF TypeOK
<1>b. Finish(r) => Quitting
  BY DEF Finish, TypeOK, Idle, HandOverStep
<1>c. \A s \in Step \ HandOverStep : Goto(r, s) => Quitting
  BY <1>a DEF Goto, TypeOK, Job
<1>1. CASE Arrive(r)
  <2>1. \E j : Start(r, j) /\ j.step \notin HandOverStep
    <3>1. ASSUME NEW s \in Step \ HandOverStep, NEW u, NEW i
          PROVE  /\ For(s, u).step \notin HandOverStep
                 /\ [For(s, u) EXCEPT !.invite = i].step \notin HandOverStep
                 /\ [For(s, u) EXCEPT !.seen = i].step \notin HandOverStep
                 /\ [Idle EXCEPT !.step = s, !.heir = u].step \notin HandOverStep
      BY DEF For, Idle
    <3>2. {"insertCreator", "addInsert", "dropMembers", "archive", "restore",
           "accountInvites", "removeDelete", "inviteInsert", "joinMember",
           "transferMember"} \subseteq Step \ HandOverStep
      BY DEF Step, HandOverStep
    <3>3. CASE \E u \in User : \/ CreateGroup(r, u) \/ ArchiveCircle(r, u)
                               \/ RestoreCircle(r, u) \/ DeleteGroup(r, u)
      BY <3>1, <3>2, <3>3 DEF CreateGroup, ArchiveCircle, RestoreCircle, DeleteGroup
    <3>4. CASE \E a, u \in User : \/ AddUserToGroup(r, a, u) \/ DeleteAccount(r, a, u)
                                  \/ RemoveUserUnread(r, a, u)
      BY <3>1, <3>2, <3>4 DEF AddUserToGroup, DeleteAccount, RemoveUserUnread
    <3>5. CASE \E u \in User, i \in Invite : CreateInvite(r, u, i) \/ JoinGroup(r, u, i)
      <4>1. PICK u \in User, i \in Invite : CreateInvite(r, u, i) \/ JoinGroup(r, u, i)
        BY <3>5
      <4>2. /\ [For("inviteInsert", u) EXCEPT !.invite = i].step \notin HandOverStep
            /\ [For("joinMember", u) EXCEPT !.invite = i].step \notin HandOverStep
        BY <3>1, <3>2
      <4> QED
        BY <4>1, <4>2 DEF CreateInvite, JoinGroup
    <3>6. CASE \E a, u \in User : RemoveUser(r, a, u) \/ TransferOwnership(r, a, u)
      <4>1. PICK a \in User, u \in User : RemoveUser(r, a, u) \/ TransferOwnership(r, a, u)
        BY <3>6
      <4>2. /\ [For("removeDelete", u) EXCEPT !.seen = SeenOwner].step \notin HandOverStep
            /\ [Idle EXCEPT !.step = "transferMember", !.heir = u].step \notin HandOverStep
        BY <3>1, <3>2
      <4> QED
        BY <4>1, <4>2 DEF RemoveUser, TransferOwnership
    <3> QED
      BY <1>1, <3>3, <3>4, <3>5, <3>6 DEF Arrive
  <2>2. UNCHANGED <<active, slipped>>
    BY <1>1 DEF Arrive, CreateGroup, ArchiveCircle, RestoreCircle, CreateInvite,
       JoinGroup, DeleteGroup, AddUserToGroup, RemoveUser, RemoveUserUnread,
       TransferOwnership, DeleteAccount, rows
  <2>3. Quitting
    BY <2>1 DEF Start, TypeOK
  <2> QED
    BY <2>2, <2>3, HeirFrame
<1>2. CASE RemoveDelete(r) \/ DeleteGroupMembers(r) \/ DeleteAccountLeave(r)
  <2>1. PICK S : active' = active \ S /\ Slip(S)
    BY <1>2 DEF RemoveDelete, DeleteGroupMembers, DeleteAccountLeave, DeleteMembers
  <2>2. Quitting
    BY <1>2, <1>b, <1>c DEF RemoveDelete, DeleteGroupMembers, DeleteAccountLeave,
       Step, HandOverStep
  <2> QED
    BY <2>1, <2>2 DEF HeirInv, Slip
<1>3. CASE ArchiveCommit(r)
  <2>1. Quitting
    BY <1>3, <1>b DEF ArchiveCommit
  <2> QED
    BY <1>3, <2>1 DEF ArchiveCommit, HeirInv, Slip
<1>4. CASE RemovePickHeir(r) \/ DeleteAccountPickHeir(r)
  <2>1. UNCHANGED <<active, slipped>>
    BY <1>4 DEF RemovePickHeir, DeleteAccountPickHeir, PickHeir, rows
  <2>2. CASE Quitting
    BY <2>1, <2>2, HeirFrame
  <2>3. ASSUME NEW v \in active, NEW s,
               job' = [job EXCEPT ![r].step = s, ![r].heir = v]
        PROVE  HeirInv'
    <3>1. job'[r].heir = v /\ \A q \in Request \ {r} : job'[q] = job[q]
      BY <1>a, <2>3 DEF TypeOK, Job
    <3> QED
      BY <2>1, <3>1 DEF HeirInv
  <2>4. Heirs(job[r].user) \subseteq active
    BY DEF Heirs
  <2> QED
    BY <1>4, <1>b, <1>c, <2>2, <2>3, <2>4
       DEF RemovePickHeir, DeleteAccountPickHeir, PickHeir, Step, HandOverStep
<1>5. CASE RemoveWriteOwner(r) \/ TransferWriteOwner(r) \/ DeleteAccountWriteOwner(r)
  <2>1. Quitting
    BY <1>5, <1>b, <1>c DEF RemoveWriteOwner, TransferWriteOwner,
       DeleteAccountWriteOwner, WriteOwner, Step, HandOverStep
  <2>2. active' = active /\ slipped' = slipped \ {r}
    BY <1>5 DEF RemoveWriteOwner, TransferWriteOwner, DeleteAccountWriteOwner, WriteOwner
  <2> QED
    BY <2>1, <2>2, HeirFrame
<1>6. CASE TransferCheckMember(r)
  <2>1. UNCHANGED <<active, slipped>>
    BY <1>6 DEF TransferCheckMember, rows
  <2>2. CASE job[r].heir \in active
    <3>1. job'[r].heir = job[r].heir /\ \A q \in Request \ {r} : job'[q] = job[q]
      BY <1>6, <1>a, <2>2 DEF TransferCheckMember, Goto, TypeOK, Job
    <3> QED
      BY <2>1, <2>2, <3>1 DEF HeirInv
  <2>3. CASE job[r].heir \notin active
    BY <1>6, <1>b, <2>1, <2>3, HeirFrame DEF TransferCheckMember
  <2> QED
    BY <2>2, <2>3
<1>7. CASE Abandon(r) \/ HandOffFails(r)
  <2>1. Quitting
    BY <1>7, <1>b, <1>c DEF Abandon, HandOffFails, Step, HandOverStep
  <2>2. active' = active /\ slipped' = slipped \ {r}
    BY <1>7 DEF Abandon, HandOffFails
  <2> QED
    BY <2>1, <2>2, HeirFrame
<1>8. CASE CreateGroupMember(r) \/ AddUserInsert(r) \/ JoinInsert(r)
  <2>1. active \subseteq active' /\ slipped' = slipped
    BY <1>8 DEF CreateGroupMember, AddUserInsert, JoinInsert, TryInsert,
       InsertMember, rows
  <2>2. Quitting
    BY <1>8, <1>b, <1>c DEF CreateGroupMember, AddUserInsert, JoinInsert, TryInsert,
       Step, HandOverStep
  <2> QED
    BY <2>1, <2>2, HeirFrame
<1>9. CASE \/ CreateInviteInsert(r) \/ JoinCheckMember(r) \/ JoinConsumeInvite(r)
           \/ DeleteGroupRow(r) \/ RestoreCommit(r) \/ DeleteAccountInvites(r)
           \/ DeleteAccountList(r) \/ DeleteAccountRow(r)
  <2>1. active \subseteq active' /\ slipped' = slipped
    BY <1>9 DEF CreateInviteInsert, JoinCheckMember, JoinConsumeInvite,
       DeleteGroupRow, RestoreCommit, DeleteAccountInvites, DeleteAccountList,
       DeleteAccountRow, rows
  <2>2. Quitting
    BY <1>9, <1>b, <1>c DEF CreateInviteInsert, JoinCheckMember, JoinConsumeInvite,
       DeleteGroupRow, RestoreCommit, DeleteAccountInvites, DeleteAccountList,
       DeleteAccountRow, Step, HandOverStep
  <2> QED
    BY <2>1, <2>2, HeirFrame
<1> QED
  BY <1>1, <1>2, <1>3, <1>4, <1>5, <1>6, <1>7, <1>8, <1>9 DEF Advance

LEMMA HeirsAlways == Spec => []HeirInv
<1>1. Init => HeirInv
  BY DEF Init, HeirInv, Idle, HandOverStep
<1>2. TypeOK /\ HeirInv /\ [Next]_vars => HeirInv'
  <2> SUFFICES ASSUME TypeOK, HeirInv, [Next]_vars
               PROVE  HeirInv'
    OBVIOUS
  <2>1. ASSUME UNCHANGED <<job, rows>>
        PROVE  HeirInv'
    BY <2>1 DEF rows, HeirInv
  <2> QED
    BY <2>1, HeirStepKeeps DEF Next, ExpireInvite, vars
<1> QED
  BY <1>1, <1>2, TypeCorrect, PTL DEF Spec

\* Only a statement that hands over moves a circle to another owner.
LEMMA OnlyHandOvers ==
  ASSUME TypeOK, [Next]_vars, circle = "open", owner' \notin {owner, NoUser}
  PROVE  \E r \in Request :
           RemoveWriteOwner(r) \/ TransferWriteOwner(r) \/ DeleteAccountWriteOwner(r)
<1>1. ASSUME NEW r \in Request, Arrive(r)
      PROVE  FALSE
  <2>1. (\E u \in User : CreateGroup(r, u)) \/ UNCHANGED rows
    BY <1>1 DEF Arrive, CreateGroup, ArchiveCircle, RestoreCircle,
       CreateInvite, JoinGroup, DeleteGroup, AddUserToGroup, RemoveUser,
       RemoveUserUnread, TransferOwnership, DeleteAccount
  <2>2. \A u \in User : ~CreateGroup(r, u)
    BY DEF CreateGroup
  <2> QED
    BY <2>1, <2>2 DEF rows
<1>2. ASSUME NEW r \in Request, Advance(r)
      PROVE  RemoveWriteOwner(r) \/ TransferWriteOwner(r) \/ DeleteAccountWriteOwner(r)
  <2>1. owner' \in {owner, NoUser} \/ RemoveWriteOwner(r)
        \/ TransferWriteOwner(r) \/ DeleteAccountWriteOwner(r)
    BY <1>2 DEF Advance, rows, CreateGroupMember, AddUserInsert, TryInsert,
       InsertMember, CreateInviteInsert, JoinCheckMember, JoinInsert,
       JoinConsumeInvite, RemoveDelete, DeleteMembers, RemovePickHeir,
       PickHeir, TransferCheckMember, DeleteGroupMembers, DeleteGroupRow,
       ArchiveCommit, RestoreCommit, DeleteAccountInvites, DeleteAccountList,
       DeleteAccountPickHeir, DeleteAccountLeave, DeleteAccountRow
  <2> QED
    BY <2>1
<1> QED
  BY <1>1, <1>2 DEF Next, vars, rows, Abandon, HandOffFails, ExpireInvite

\* However requests overlap and whichever statement fails, a circle passes to an
\* active member, or to one who was when the request that writes looked, and has
\* left or archived the circle since.
THEOREM OwnershipPassesToMembers == Spec => NewOwnerWasActive
<1>1. TypeOK /\ HeirInv /\ [Next]_vars
         => [circle = "open" /\ owner' \notin {owner, NoUser} =>
                \/ owner' \in active
                \/ \E r \in slipped : job[r].heir = owner' /\ job'[r] # job[r]]_vars
  <2> SUFFICES ASSUME TypeOK, HeirInv, [Next]_vars, circle = "open",
                      owner' \notin {owner, NoUser}
               PROVE  \/ owner' \in active
                      \/ \E r \in slipped : job[r].heir = owner' /\ job'[r] # job[r]
    OBVIOUS
  <2>1. PICK r \in Request :
           RemoveWriteOwner(r) \/ TransferWriteOwner(r) \/ DeleteAccountWriteOwner(r)
    BY OnlyHandOvers
  <2>2. owner' = job[r].heir /\ job[r].step \in HandOverStep
    BY <2>1 DEF RemoveWriteOwner, TransferWriteOwner, DeleteAccountWriteOwner,
       WriteOwner, At, HandOverStep
  <2>3. job[r].heir \in active \/ r \in slipped
    BY <2>2 DEF HeirInv
  <2>4. job'[r].step \in {"idle", "accountLeave"}
    BY <2>1 DEF RemoveWriteOwner, TransferWriteOwner, DeleteAccountWriteOwner,
       WriteOwner, Finish, Goto, Idle, TypeOK, Job
  <2>5. job'[r] # job[r]
    BY <2>2, <2>4 DEF HandOverStep
  <2> QED
    BY <2>2, <2>3, <2>5
<1> QED
  BY <1>1, TypeCorrect, HeirsAlways, PTL DEF Spec, NewOwnerWasActive
=============================================================================
