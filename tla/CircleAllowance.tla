--------------------------- MODULE CircleAllowance ---------------------------
(***************************************************************************)
(* What one user may hold: their rows in user_group over all circles, the  *)
(* free-tier limit on the active ones, and the budget of charged restores  *)
(* in circle_restore_event.  The handlers check with SELECTs and write in  *)
(* later statements; the gate is CreateGroup, JoinGroup and RestoreCircles *)
(* together, for requests of the same user may overlap.                    *)
(*                                                                         *)
(* Rows of other users do not matter here, so one user is enough.  What a  *)
(* circle's members do to each other is the subject of Circles.            *)
(***************************************************************************)
EXTENDS Naturals, FiniteSets

CONSTANTS
    Circle,
    Request,        \* concurrent requests that touch the user's rows
    Limit,          \* FREE_CIRCLE_LIMIT
    Budget,         \* RESTORE_BUDGET
    IsAdmin,        \* whether the user's token carries the admin role
    MayUpgrade,     \* whether the subscription ever changes
    MayEnrol        \* whether AddUserToGroup is called for the user

ASSUME CircleAssumption == IsFiniteSet(Circle)
ASSUME RequestAssumption == IsFiniteSet(Request)
ASSUME LimitAssumption == Limit \in Nat /\ Budget \in Nat
ASSUME FlagAssumption == {IsAdmin, MayUpgrade, MayEnrol} \subseteq BOOLEAN

VARIABLES
    member,     \* circles with a user_group row of the user ...
    active,     \* ... that is active
    fresh,      \* archived rows still inside the undo window
    used,       \* rows of circle_restore_event inside the budget window
    premium,    \* user_subscription.is_premium
    job,        \* what each request slot is doing
    enrolled,   \* history: active circles that came by AddUserToGroup
    exempted,   \* history: a request went past the checks as premium or admin
    overlapped  \* history: a request arrived while another was under way

vars == <<member, active, fresh, used, premium, job, enrolled, exempted, overlapped>>

Step == {"idle", "addCount", "addPremium", "addInsert", "enrol", "archive",
         "restorePremium", "restoreUsed", "restoreCount", "restoreCommit"}

Job == [step : Step, circles : SUBSET Circle, charged : SUBSET Circle,
        count : 0..Cardinality(Circle), exempt : BOOLEAN]

Idle == [step |-> "idle", circles |-> {}, charged |-> {}, count |-> 0,
         exempt |-> FALSE]

TypeOK ==
    /\ member \subseteq Circle
    /\ active \subseteq member
    /\ fresh \subseteq member \ active
    /\ used \in Nat
    /\ premium \in BOOLEAN
    /\ job \in [Request -> Job]
    /\ \A r \in Request : job[r].charged \subseteq job[r].circles
    /\ enrolled \subseteq active
    /\ {exempted, overlapped} \subseteq BOOLEAN

Init ==
    /\ member = {}
    /\ active = {}
    /\ fresh = {}
    /\ used = 0
    /\ premium = FALSE
    /\ job = [r \in Request |-> Idle]
    /\ enrolled = {}
    /\ exempted = FALSE
    /\ overlapped = FALSE

-----------------------------------------------------------------------------

table == <<member, active, fresh, used>>

Arrives(r) ==
    /\ job[r] = Idle
    /\ overlapped' = (overlapped \/ \E q \in Request : job[q] # Idle)

Start(r, step, S) ==
    /\ Arrives(r)
    /\ job' = [job EXCEPT ![r] = [Idle EXCEPT !.step = step, !.circles = S]]

At(r, step) == job[r].step = step

Goto(r, step) == job' = [job EXCEPT ![r].step = step]

Finish(r) == job' = [job EXCEPT ![r] = Idle]

\* The gate: go on to the next step when a check holds, else answer 403.
Pass(r, check, step) == IF check THEN Goto(r, step) ELSE Finish(r)

\* A new active row, unless the circle has one already.
Insert(c) ==
    /\ member' = member \cup {c}
    /\ active' = IF c \in member THEN active ELSE active \cup {c}
    /\ UNCHANGED <<fresh, used, premium>>

-----------------------------------------------------------------------------
(* CreateGroup and JoinGroup, gated by isUnderCircleLimit *)

\* A circle the user has no row in: a new one, or one an invite is for.  An
\* admin is not counted at all.
BeginAdd(r, c) ==
    /\ c \notin member
    /\ IF IsAdmin THEN Start(r, "addInsert", {c}) ELSE Start(r, "addCount", {c})
    /\ exempted' = (exempted \/ IsAdmin)
    /\ UNCHANGED <<table, premium, enrolled>>

AddCount(r) ==
    /\ At(r, "addCount")
    /\ job' = [job EXCEPT ![r].step = "addPremium", ![r].count = Cardinality(active)]
    /\ UNCHANGED <<table, premium, enrolled, exempted, overlapped>>

\* Mutant of AddPremium: the limit is off by one.
AddPremiumOneMore(r) ==
    /\ At(r, "addPremium")
    /\ IF premium
       THEN /\ job' = [job EXCEPT ![r].step = "addInsert", ![r].exempt = TRUE]
            /\ exempted' = TRUE
       ELSE /\ Pass(r, job[r].count <= Limit, "addInsert")
            /\ UNCHANGED exempted
    /\ UNCHANGED <<table, premium, enrolled, overlapped>>

AddPremium(r) ==
    /\ At(r, "addPremium")
    /\ IF premium
       THEN /\ job' = [job EXCEPT ![r].step = "addInsert", ![r].exempt = TRUE]
            /\ exempted' = TRUE
       ELSE /\ Pass(r, job[r].count < Limit, "addInsert")
            /\ UNCHANGED exempted
    /\ UNCHANGED <<table, premium, enrolled, overlapped>>

AddInsert(r) ==
    /\ At(r, "addInsert")
    /\ \E c \in job[r].circles : Insert(c)
    /\ Finish(r)
    /\ UNCHANGED <<enrolled, exempted, overlapped>>

-----------------------------------------------------------------------------
(* AddUserToGroup: no gate *)

BeginEnrol(r, c) ==
    /\ MayEnrol
    /\ c \notin member
    /\ Start(r, "enrol", {c})
    /\ UNCHANGED <<table, premium, enrolled, exempted>>

EnrolInsert(r) ==
    /\ At(r, "enrol")
    /\ \E c \in job[r].circles :
           /\ Insert(c)
           /\ enrolled' = enrolled \cup ({c} \ member)
    /\ Finish(r)
    /\ UNCHANGED <<exempted, overlapped>>

-----------------------------------------------------------------------------
(* ArchiveCircles *)

\* The targets are resolved to active memberships before the transaction.
BeginArchive(r, S) ==
    /\ S # {} /\ S \subseteq active
    /\ Start(r, "archive", S)
    /\ UNCHANGED <<table, premium, enrolled, exempted>>

ArchiveCommit(r) ==
    /\ At(r, "archive")
    /\ active' = active \ job[r].circles
    /\ fresh' = fresh \cup (active \cap job[r].circles)
    /\ enrolled' = enrolled \ job[r].circles
    /\ Finish(r)
    /\ UNCHANGED <<member, used, premium, exempted, overlapped>>

-----------------------------------------------------------------------------
(* RestoreCircles *)

\* Mutant of BeginRestore: the undo window is not looked at.
BeginRestoreCharged(r, S) ==
    /\ S # {} /\ S \subseteq member \ active
    /\ Arrives(r)
    /\ job' = [job EXCEPT ![r] = [Idle EXCEPT !.step = "restorePremium",
                                              !.circles = S, !.charged = S]]
    /\ UNCHANGED <<table, premium, enrolled, exempted>>

\* The archived rows among those asked for, and which of them have outlived
\* the undo window and are to be charged.
BeginRestore(r, S) ==
    /\ S # {} /\ S \subseteq member \ active
    /\ Arrives(r)
    /\ job' = [job EXCEPT ![r] = [Idle EXCEPT !.step = "restorePremium",
                                              !.circles = S,
                                              !.charged = S \ fresh]]
    /\ UNCHANGED <<table, premium, enrolled, exempted>>

\* Premium users and admins bypass the budget and the limit; without anything
\* to charge the budget is not looked at.
RestorePremium(r) ==
    /\ At(r, "restorePremium")
    /\ IF premium \/ IsAdmin
       THEN /\ job' = [job EXCEPT ![r].step = "restoreCommit", ![r].exempt = TRUE]
            /\ exempted' = TRUE
       ELSE /\ Goto(r, IF job[r].charged = {} THEN "restoreCount" ELSE "restoreUsed")
            /\ UNCHANGED exempted
    /\ UNCHANGED <<table, premium, enrolled, overlapped>>

\* Mutant of RestoreUsed: what the request would add is not counted.
RestoreUsedSoFar(r) ==
    /\ At(r, "restoreUsed")
    /\ Pass(r, used <= Budget, "restoreCount")
    /\ UNCHANGED <<table, premium, enrolled, exempted, overlapped>>

RestoreUsed(r) ==
    /\ At(r, "restoreUsed")
    /\ Pass(r, used + Cardinality(job[r].charged) <= Budget, "restoreCount")
    /\ UNCHANGED <<table, premium, enrolled, exempted, overlapped>>

\* Mutant of RestoreCount: the question isUnderCircleLimit answers.
RestoreCountOne(r) ==
    /\ At(r, "restoreCount")
    /\ Pass(r, Cardinality(active) < Limit, "restoreCommit")
    /\ UNCHANGED <<table, premium, enrolled, exempted, overlapped>>

RestoreCount(r) ==
    /\ At(r, "restoreCount")
    /\ Pass(r, Cardinality(active) + Cardinality(job[r].circles) <= Limit, "restoreCommit")
    /\ UNCHANGED <<table, premium, enrolled, exempted, overlapped>>

\* Mutant of RestoreCommit: archived_at is not reset.
RestoreCommitKeepsAge(r) ==
    /\ At(r, "restoreCommit")
    /\ active' = active \cup (job[r].circles \cap member)
    /\ used' = IF job[r].exempt THEN used ELSE used + Cardinality(job[r].charged)
    /\ Finish(r)
    /\ UNCHANGED <<member, fresh, premium, enrolled, exempted, overlapped>>

\* One transaction: the rows that are still archived become active, and an
\* event is written for every row that was to be charged, active or not.
RestoreCommit(r) ==
    /\ At(r, "restoreCommit")
    /\ active' = active \cup (job[r].circles \cap member)
    /\ fresh' = fresh \ job[r].circles
    /\ used' = IF job[r].exempt THEN used ELSE used + Cardinality(job[r].charged)
    /\ Finish(r)
    /\ UNCHANGED <<member, premium, enrolled, exempted, overlapped>>

-----------------------------------------------------------------------------
(* RemoveUserFromGroup and DeleteGroup, whoever sends them *)

\* The row goes, in one statement, whatever the checks before it saw.
Leave(r, c) ==
    /\ Arrives(r)
    /\ c \in member
    /\ member' = member \ {c}
    /\ active' = active \ {c}
    /\ fresh' = fresh \ {c}
    /\ enrolled' = enrolled \ {c}
    /\ UNCHANGED <<used, premium, job, exempted>>

-----------------------------------------------------------------------------
(* What happens around the requests *)

\* The undo window of an archived row closes.
Age(c) ==
    /\ c \in fresh
    /\ fresh' = fresh \ {c}
    /\ UNCHANGED <<member, active, used, premium, job, enrolled, exempted, overlapped>>

\* The oldest event drops out of the rolling window.
Forget ==
    /\ used > 0
    /\ used' = used - 1
    /\ UNCHANGED <<member, active, fresh, premium, job, enrolled, exempted, overlapped>>

\* A webhook or a sync rewrites the subscription.
ChangeSubscription ==
    /\ MayUpgrade
    /\ premium' = ~premium
    /\ UNCHANGED <<table, job, enrolled, exempted, overlapped>>

\* A statement fails, or the server stops.
Abandon(r) ==
    /\ job[r] # Idle
    /\ Finish(r)
    /\ UNCHANGED <<table, premium, enrolled, exempted, overlapped>>

Arrive(r) ==
    \/ \E c \in Circle : BeginAdd(r, c) \/ BeginEnrol(r, c) \/ Leave(r, c)
    \/ \E S \in SUBSET Circle : BeginArchive(r, S) \/ BeginRestore(r, S)

Advance(r) ==
    \/ AddCount(r) \/ AddPremium(r) \/ AddInsert(r)
    \/ EnrolInsert(r)
    \/ ArchiveCommit(r)
    \/ RestorePremium(r) \/ RestoreUsed(r) \/ RestoreCount(r) \/ RestoreCommit(r)

Next ==
    \/ \E r \in Request : Arrive(r) \/ Advance(r) \/ Abandon(r)
    \/ \E c \in Circle : Age(c)
    \/ Forget
    \/ ChangeSubscription

Spec == Init /\ [][Next]_vars

-----------------------------------------------------------------------------
(* Properties *)

\* How many requests may have been let past the same count.
Slots == IF overlapped THEN Cardinality(Request) ELSE 1

\* The check and the write are apart, so requests that overlap may each be let
\* past the same count; the user then ends up with at most Limit circles per
\* request that can be under way, and with exactly Limit when requests did not
\* overlap.  Circles entered past the gate are counted by it but not held.
\* Likewise for the charged restores of the last thirty days.
AllowanceBounded ==
    /\ exempted \/ Cardinality(active \ enrolled) <= Limit * Slots
    /\ used <= Budget * Slots

\* A user who lapsed with more circles than the free tier allows keeps them
\* and gains none until back under the limit (isUnderCircleLimit): while
\* requests do not overlap, one that was not exempt never leaves more active
\* circles than Limit when it adds to them.
LapsedCannotGrow ==
    [][\A r \in Request :
           /\ job[r].step \in {"addInsert", "restoreCommit"}
           /\ ~job[r].exempt /\ ~IsAdmin
           /\ job'[r] # job[r]
           /\ ~(active' \subseteq active)
           /\ ~overlapped'
           => Cardinality(active') <= Limit]_vars

\* The ledger is a record of spend (RestoreCircles): while requests do not
\* overlap, a restore is charged for the rows it made active, and never for
\* one it took back from inside the undo window.
ChargesAreRestores ==
    [][used' > used /\ ~overlapped'
           => used' - used <= Cardinality((active' \ active) \ fresh)]_vars

\* While requests do not overlap, the handlers implement the free tier: limit
\* check and write are as good as one indivisible step, and the premium user's
\* pass is good for the one request it was read in.
Tier == INSTANCE FreeTier WITH
    held <- active, charges <- used, pass <- \E r \in Request : job[r].exempt

ImplementsFreeTier ==
    Tier!Init /\ [][~overlapped' => Tier!Next]_(Tier!vars)
=============================================================================
