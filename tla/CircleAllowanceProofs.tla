------------------------ MODULE CircleAllowanceProofs ------------------------
(***************************************************************************)
(* What holds of a user's allowance for any number of circles, any limits  *)
(* and any number of requests.  While requests have not overlapped the     *)
(* free tier is kept: SoloInv says what a request that runs alone may rely *)
(* on.  When they do overlap, RaceInv bounds what is held and spent        *)
(* together with what the requests under way were promised.                *)
(*                                                                         *)
(* The last part is about Subscription, the cache that `premium' comes     *)
(* from: CacheSpec is a specification of its own.                          *)
(***************************************************************************)
EXTENDS CircleAllowance, Subscription, FiniteSetTheorems, TLAPS

USE CircleAssumption, LimitAssumption, FlagAssumption

\* Circles are finitely many, so what is counted is a number.
LEMMA Counted ==
    ASSUME NEW S \in SUBSET Circle
    PROVE  /\ IsFiniteSet(S)
           /\ Cardinality(S) \in 0..Cardinality(Circle)
<1>1. IsFiniteSet(S) /\ Cardinality(S) <= Cardinality(Circle)
  BY FS_Subset
<1> QED
  BY <1>1, FS_CardinalityType

\* Joining a set to another adds at most its size.
LEMMA UnionCount ==
    ASSUME NEW S \in SUBSET Circle, NEW T \in SUBSET Circle
    PROVE  Cardinality(S \cup T) <= Cardinality(S) + Cardinality(T)
<1>1. /\ IsFiniteSet(S) /\ IsFiniteSet(T) /\ IsFiniteSet(S \cap T)
      /\ Cardinality(S) \in Nat /\ Cardinality(T) \in Nat
      /\ Cardinality(S \cap T) \in Nat
  BY Counted, FS_CardinalityType
<1>2. Cardinality(S \cup T)
        = Cardinality(S) + Cardinality(T) - Cardinality(S \cap T)
  BY <1>1, FS_Union
<1> QED
  BY <1>1, <1>2

-----------------------------------------------------------------------------
(* Types *)

\* The parts of the type invariant: the rows, and the slots.
RowsOK ==
    /\ member \subseteq Circle
    /\ active \subseteq member
    /\ fresh \subseteq member \ active
    /\ used \in Nat
    /\ premium \in BOOLEAN
    /\ enrolled \subseteq active
    /\ exempted \in BOOLEAN
    /\ overlapped \in BOOLEAN

JobsOK ==
    /\ job \in [Request -> Job]
    /\ \A r \in Request : job[r].charged \subseteq job[r].circles

LEMMA TypeParts == TypeOK <=> RowsOK /\ JobsOK
  BY Zenon DEF TypeOK, RowsOK, JobsOK

\* A job that is well formed of itself may be put in any slot.
JobOK(j) == j \in Job /\ j.charged \subseteq j.circles

LEMMA PutJob ==
  ASSUME JobsOK, NEW r \in Request, NEW j, JobOK(j), job' = [job EXCEPT ![r] = j]
  PROVE  JobsOK'
  BY DEF JobsOK, JobOK

LEMMA IdleIsJob == JobOK(Idle) /\ Idle.circles = {} /\ Idle.charged = {}
<1>1. 0 \in 0..Cardinality(Circle)
  BY Counted
<1> QED
  BY <1>1 DEF JobOK, Job, Idle, Step

\* The ways a slot changes.
LEMMA FinishKeeps ==
  ASSUME JobsOK, NEW r \in Request, Finish(r)
  PROVE  JobsOK'
  BY IdleIsJob, PutJob DEF Finish

LEMMA GotoKeeps ==
  ASSUME JobsOK, NEW r \in Request, NEW s \in Step, Goto(r, s)
  PROVE  JobsOK'
<1>1. JobOK([job[r] EXCEPT !.step = s])
  BY DEF JobsOK, JobOK, Job
<1> QED
  BY <1>1, PutJob DEF Goto

LEMMA StartKeeps ==
  ASSUME JobsOK, NEW r \in Request, NEW s \in Step, NEW S \in SUBSET Circle,
         Start(r, s, S)
  PROVE  JobsOK'
<1>1. JobOK([Idle EXCEPT !.step = s, !.circles = S])
  <2>1. JobOK([Idle EXCEPT !.step = s])
    BY IdleIsJob DEF JobOK, Job
  <2> QED
    BY <2>1, IdleIsJob DEF JobOK, Job
<1> QED
  BY <1>1, PutJob DEF Start

\* A request that goes on remembers more than its step.
LEMMA NoteKeeps ==
  ASSUME JobsOK, NEW r \in Request, NEW s \in Step, NEW n \in 0..Cardinality(Circle)
  PROVE  /\ job' = [job EXCEPT ![r].step = s, ![r].count = n] => JobsOK'
         /\ job' = [job EXCEPT ![r].step = s, ![r].exempt = TRUE] => JobsOK'
<1> DEFINE i == [job[r] EXCEPT !.step = s]
           j == [i EXCEPT !.count = n]
           k == [i EXCEPT !.exempt = TRUE]
<1>1. JobOK(i)
  BY DEF JobsOK, JobOK, Job
<1>2. JobOK(j) /\ JobOK(k)
  <2> HIDE DEF i
  <2> QED
    BY <1>1 DEF JobOK, Job
<1>3. /\ job' = [job EXCEPT ![r].step = s, ![r].count = n] => job' = [job EXCEPT ![r] = j]
      /\ job' = [job EXCEPT ![r].step = s, ![r].exempt = TRUE] => job' = [job EXCEPT ![r] = k]
  BY DEF JobsOK, Job
<1> QED
  BY <1>2, <1>3, PutJob

LEMMA ArriveKeepsJobs ==
  ASSUME RowsOK, JobsOK, NEW r \in Request, Arrive(r)
  PROVE  JobsOK'
<1>1. ASSUME NEW c \in Circle, BeginAdd(r, c) \/ BeginEnrol(r, c)
      PROVE  JobsOK'
  BY <1>1, StartKeeps DEF BeginAdd, BeginEnrol, Step
<1>2. ASSUME NEW c \in Circle, Leave(r, c)
      PROVE  JobsOK'
  BY <1>2 DEF Leave, JobsOK
<1>3. ASSUME NEW S \in SUBSET Circle, BeginArchive(r, S)
      PROVE  JobsOK'
  BY <1>3, StartKeeps DEF BeginArchive, Step
<1>4. ASSUME NEW S \in SUBSET Circle, BeginRestore(r, S)
      PROVE  JobsOK'
  <2> DEFINE i == [Idle EXCEPT !.step = "restorePremium"]
             j == [i EXCEPT !.circles = S]
             k == [j EXCEPT !.charged = S \ fresh]
  <2>1. JobOK(i)
    BY IdleIsJob DEF JobOK, Job, Step
  <2>2. JobOK(j) /\ j.circles = S
    <3> HIDE DEF i
    <3> QED
      BY <2>1, IdleIsJob DEF JobOK, Job, i
  <2>3. JobOK(k)
    <3> HIDE DEF j
    <3> QED
      BY <2>2 DEF JobOK, Job
  <2>4. job' = [job EXCEPT ![r] = k]
    BY <1>4 DEF BeginRestore, Idle
  <2> QED
    BY <2>3, <2>4, PutJob
<1> QED
  BY <1>1, <1>2, <1>3, <1>4 DEF Arrive

LEMMA AdvanceKeepsJobs ==
  ASSUME RowsOK, JobsOK, NEW r \in Request, Advance(r)
  PROVE  JobsOK'
<1>0. Cardinality(active) \in 0..Cardinality(Circle)
  BY Counted DEF RowsOK
<1>1. CASE AddCount(r)
  BY <1>0, <1>1, NoteKeeps DEF AddCount, Step
<1>2. \A s \in {"addInsert", "restoreCommit", "restoreCount", "restoreUsed"} :
          /\ Goto(r, s) \/ Finish(r) => JobsOK'
          /\ job' = [job EXCEPT ![r].step = s, ![r].exempt = TRUE] => JobsOK'
  BY <1>0, NoteKeeps, GotoKeeps, FinishKeeps DEF Step
<1>3. CASE AddPremium(r) \/ RestorePremium(r) \/ RestoreUsed(r) \/ RestoreCount(r)
  BY <1>2, <1>3 DEF AddPremium, RestorePremium, RestoreUsed, RestoreCount, Pass
<1>4. CASE AddInsert(r) \/ EnrolInsert(r) \/ ArchiveCommit(r) \/ RestoreCommit(r)
  BY <1>4, FinishKeeps DEF AddInsert, EnrolInsert, ArchiveCommit, RestoreCommit
<1> QED
  BY <1>1, <1>3, <1>4 DEF Advance

LEMMA NextKeepsRows ==
  ASSUME RowsOK, JobsOK, Next
  PROVE  RowsOK'
<1> USE DEF RowsOK, table
<1>1. ASSUME NEW r \in Request, Arrive(r)
      PROVE  RowsOK'
  BY <1>1 DEF Arrive, BeginAdd, BeginEnrol, Leave, BeginArchive, BeginRestore, Start, Arrives
<1>2. ASSUME NEW r \in Request, Advance(r)
      PROVE  RowsOK'
  <2>1. job[r].circles \subseteq Circle /\ Cardinality(job[r].charged) \in Nat
    BY Counted, FS_CardinalityType DEF JobsOK, Job
  <2>2. CASE AddCount(r) \/ AddPremium(r) \/ RestorePremium(r) \/ RestoreUsed(r)
             \/ RestoreCount(r)
    BY <2>2 DEF AddCount, AddPremium, RestorePremium, RestoreUsed, RestoreCount
  <2>3. CASE AddInsert(r) \/ EnrolInsert(r)
    BY <2>1, <2>3 DEF AddInsert, EnrolInsert, Insert
  <2>4. CASE ArchiveCommit(r)
    BY <2>4 DEF ArchiveCommit
  <2>5. CASE RestoreCommit(r)
    <3>1. used' \in Nat
      BY <2>1, <2>5 DEF RestoreCommit
    <3> QED
      BY <3>1, <2>5 DEF RestoreCommit
  <2> QED
    BY <1>2, <2>2, <2>3, <2>4, <2>5 DEF Advance
<1>3. ASSUME NEW c \in Circle, Age(c)
      PROVE  RowsOK'
  BY <1>3 DEF Age
<1>4. CASE Forget \/ ChangeSubscription
  <2>1. CASE Forget
    BY <2>1 DEF Forget
  <2>2. CASE ChangeSubscription
    <3>1. premium' \in BOOLEAN
      BY <2>2 DEF ChangeSubscription
    <3> QED
      BY <2>2, <3>1 DEF ChangeSubscription
  <2> QED
    BY <1>4, <2>1, <2>2
<1>5. ASSUME NEW r \in Request, Abandon(r)
      PROVE  RowsOK'
  BY <1>5 DEF Abandon
<1> QED
  BY <1>1, <1>2, <1>3, <1>4, <1>5 DEF Next

LEMMA NextKeepsTypes == TypeOK /\ [Next]_vars => TypeOK'
<1> SUFFICES ASSUME RowsOK, JobsOK, [Next]_vars
             PROVE  RowsOK' /\ JobsOK'
  BY TypeParts, Zenon DEF TypeOK, RowsOK, JobsOK
<1>1. CASE Next
  <2>1. RowsOK'
    BY <1>1, NextKeepsRows
  <2>2. ASSUME NEW r \in Request, Abandon(r)
        PROVE  JobsOK'
    BY <2>2, FinishKeeps DEF Abandon
  <2>3. ASSUME job' = job
        PROVE  JobsOK'
    BY <2>3 DEF JobsOK
  <2> QED
    BY <1>1, <2>1, <2>2, <2>3, ArriveKeepsJobs, AdvanceKeepsJobs
       DEF Next, Age, Forget, ChangeSubscription
<1>2. CASE UNCHANGED vars
  BY <1>2 DEF vars, RowsOK, JobsOK
<1> QED
  BY <1>1, <1>2

LEMMA TypeInitially == Init => TypeOK
<1>1. ASSUME Init PROVE JobsOK
  BY <1>1, IdleIsJob DEF Init, JobsOK, JobOK
<1>2. ASSUME Init PROVE RowsOK
  BY <1>2 DEF Init, RowsOK
<1> QED
  BY <1>1, <1>2, TypeParts

\* The rows of a user and the requests that touch them are well formed in
\* every state, whatever overlaps: no circle is both active and freshly
\* archived, and a request never charges for more than it restores.
THEOREM TypeCorrect == Spec => []TypeOK
  BY TypeInitially, NextKeepsTypes, PTL DEF Spec

-----------------------------------------------------------------------------
(* One request at a time *)

Restoring == {"restorePremium", "restoreUsed", "restoreCount", "restoreCommit"}

\* What a request may rely on when it runs alone: nothing it has read or
\* checked so far has changed, except by time passing.
Reliable(j) ==
    /\ j.exempt => exempted
    /\ j.step = "addPremium" => j.count = Cardinality(active)
    /\ j.step = "addInsert" =>
           \/ (exempted /\ (j.exempt \/ IsAdmin))
           \/ Cardinality(active) < Limit
    /\ j.step \in {"addInsert", "enrol"} => \E c \in Circle : j.circles = {c}
    /\ j.step \in {"addCount", "addPremium"} => \E c \in Circle : j.circles = {c}
    /\ j.step \in Restoring =>
           j.circles \subseteq member \ active /\ j.charged \cap fresh = {}
    /\ j.step = "enrol" => MayEnrol
    /\ IsAdmin => j.step \notin {"restoreUsed", "restoreCount"}
    /\ j.step = "restoreCount" => used + Cardinality(j.charged) <= Budget
    /\ j.step = "restoreCommit" =>
           \/ j.exempt
           \/ /\ ~IsAdmin
              /\ used + Cardinality(j.charged) <= Budget
              /\ Cardinality(active) + Cardinality(j.circles) <= Limit

\* The inductive invariant: the bounds, and what the next write relies on.
WithinBounds ==
    /\ used <= Budget
    /\ exempted \/ Cardinality(active \ enrolled) <= Limit

AllowanceInv == WithinBounds /\ \A r \in Request : Reliable(job[r])

LEMMA IdleIsReliable ==
  ASSUME NEW r \in Request, JobsOK, Finish(r)
  PROVE  Reliable(job[r])'
<1>1. job'[r] = Idle
  BY DEF Finish, JobsOK
<1>2. /\ Idle.exempt = FALSE
      /\ Idle.step = "idle"
  BY DEF Idle
<1> QED
  BY <1>1, <1>2 DEF Reliable, Restoring

\* What is counted never grows with a subset.
LEMMA SubsetCount ==
  ASSUME NEW T \in SUBSET Circle, NEW S \in SUBSET T
  PROVE  Cardinality(S) <= Cardinality(T)
  BY Counted, FS_Subset

\* Starting a request: it has relied on nothing yet but the rows it has read.
LEMMA ArriveIsReliable ==
  ASSUME RowsOK, JobsOK, NEW r \in Request, AllowanceInv, Arrive(r)
  PROVE  WithinBounds' /\ Reliable(job[r])'
<1> USE DEF table
<1>1. ASSUME NEW c \in Circle, BeginAdd(r, c) \/ BeginEnrol(r, c)
      PROVE  WithinBounds' /\ Reliable(job[r])'
  <2>1. WithinBounds'
    BY <1>1 DEF AllowanceInv, WithinBounds, BeginAdd, BeginEnrol, RowsOK
  <2>2. job'[r].circles = {c} /\ ~job'[r].exempt
    BY <1>1 DEF BeginAdd, BeginEnrol, Start, JobsOK, Idle
  <2>3. /\ job'[r].step \in {"addInsert", "addCount", "enrol"}
        /\ job'[r].step = "addInsert" => IsAdmin /\ exempted'
        /\ job'[r].step = "enrol" => MayEnrol
    BY <1>1 DEF BeginAdd, BeginEnrol, Start, JobsOK, Idle
  <2> QED
    BY <2>1, <2>2, <2>3 DEF Reliable, Restoring
<1>2. ASSUME NEW c \in Circle, Leave(r, c)
      PROVE  WithinBounds' /\ Reliable(job[r])'
  <2>1. active' \ enrolled' \subseteq active \ enrolled /\ used' = used /\ exempted' = exempted
    BY <1>2 DEF Leave
  <2>2. WithinBounds'
    <3>1. Cardinality(active' \ enrolled') <= Cardinality(active \ enrolled)
      BY <2>1, SubsetCount DEF RowsOK
    <3>2. /\ Cardinality(active' \ enrolled') \in Nat
          /\ Cardinality(active \ enrolled) \in Nat
      BY <2>1, Counted, FS_CardinalityType DEF RowsOK
    <3> QED
      BY <2>1, <3>1, <3>2 DEF AllowanceInv, WithinBounds
  <2>3. job'[r] = Idle
    BY <1>2 DEF Leave, Arrives
  <2>4. Reliable(job[r])'
    BY <2>3 DEF Reliable, Restoring, Idle
  <2> QED
    BY <2>2, <2>4
<1>3. ASSUME NEW S \in SUBSET Circle, BeginArchive(r, S)
      PROVE  WithinBounds' /\ Reliable(job[r])'
  <2>1. job'[r].step = "archive" /\ ~job'[r].exempt
    BY <1>3 DEF BeginArchive, Start, JobsOK, Idle
  <2>2. Reliable(job[r])'
    BY <2>1 DEF Reliable, Restoring
  <2> QED
    BY <1>3, <2>2 DEF AllowanceInv, WithinBounds, BeginArchive
<1>4. ASSUME NEW S \in SUBSET Circle, BeginRestore(r, S)
      PROVE  WithinBounds' /\ Reliable(job[r])'
  <2>1. /\ job'[r].step = "restorePremium" /\ ~job'[r].exempt
        /\ job'[r].circles = S /\ job'[r].charged = S \ fresh
    BY <1>4 DEF BeginRestore, JobsOK, Idle
  <2>2. Reliable(job[r])'
    BY <1>4, <2>1 DEF Reliable, Restoring, BeginRestore
  <2> QED
    BY <1>4, <2>2 DEF AllowanceInv, WithinBounds, BeginRestore
<1> QED
  BY <1>1, <1>2, <1>3, <1>4 DEF Arrive

\* The checks of the gates: what they let past is within the limits.
LEMMA ChecksAreReliable ==
  ASSUME RowsOK, JobsOK, NEW r \in Request, AllowanceInv,
         AddCount(r) \/ AddPremium(r) \/ RestorePremium(r) \/ RestoreUsed(r) \/ RestoreCount(r)
  PROVE  WithinBounds' /\ Reliable(job[r])'
<1> USE DEF table
<1>0. /\ Cardinality(active) \in Nat
      /\ Reliable(job[r]) /\ WithinBounds
      /\ Cardinality(job[r].circles) \in Nat
  BY Counted, FS_CardinalityType DEF RowsOK, JobsOK, Job, AllowanceInv
<1>1. CASE AddCount(r)
  <2>1. /\ job'[r].step = "addPremium" /\ job'[r].count = Cardinality(active)
        /\ job'[r].circles = job[r].circles /\ job'[r].exempt = job[r].exempt
    BY <1>1 DEF AddCount, JobsOK, Job
  <2> QED
    BY <1>0, <1>1, <2>1 DEF AddCount, At, Reliable, WithinBounds, Restoring
<1>2. CASE AddPremium(r)
  <2>1. CASE premium
    <3>1. /\ job'[r].step = "addInsert" /\ job'[r].exempt
          /\ job'[r].circles = job[r].circles
      BY <1>2, <2>1 DEF AddPremium, JobsOK, Job
    <3> QED
      BY <1>0, <1>2, <2>1, <3>1 DEF AddPremium, At, Reliable, WithinBounds, Restoring
  <2>2. CASE ~premium /\ job[r].count < Limit
    <3>1. /\ job'[r].step = "addInsert" /\ job'[r].exempt = job[r].exempt
          /\ job'[r].circles = job[r].circles
      BY <1>2, <2>2 DEF AddPremium, Pass, Goto, JobsOK, Job
    <3> QED
      BY <1>0, <1>2, <2>2, <3>1 DEF AddPremium, At, Reliable, WithinBounds, Restoring
  <2>3. CASE ~premium /\ ~(job[r].count < Limit)
    BY <1>0, <1>2, <2>3, IdleIsReliable DEF AddPremium, Pass, WithinBounds
  <2> QED
    BY <2>1, <2>2, <2>3
<1>3. CASE RestorePremium(r)
  <2>1. CASE premium \/ IsAdmin
    <3>1. /\ job'[r].step = "restoreCommit" /\ job'[r].exempt
          /\ job'[r].circles = job[r].circles /\ job'[r].charged = job[r].charged
      BY <1>3, <2>1 DEF RestorePremium, JobsOK, Job
    <3> QED
      BY <1>0, <1>3, <2>1, <3>1 DEF RestorePremium, At, Reliable, WithinBounds, Restoring
  <2>2. CASE ~(premium \/ IsAdmin)
    <3>1. /\ job'[r].step = IF job[r].charged = {} THEN "restoreCount" ELSE "restoreUsed"
          /\ job'[r].exempt = job[r].exempt
          /\ job'[r].circles = job[r].circles /\ job'[r].charged = job[r].charged
      BY <1>3, <2>2 DEF RestorePremium, Goto, JobsOK, Job
    <3>2. job[r].charged = {} => used + Cardinality(job[r].charged) <= Budget
      BY <1>0, FS_EmptySet DEF WithinBounds, RowsOK
    <3> QED
      BY <1>0, <1>3, <2>2, <3>1, <3>2 DEF RestorePremium, At, Reliable, WithinBounds, Restoring
  <2> QED
    BY <2>1, <2>2
<1>4. CASE RestoreUsed(r)
  <2>1. CASE used + Cardinality(job[r].charged) <= Budget
    <3>1. /\ job'[r].step = "restoreCount" /\ job'[r].exempt = job[r].exempt
          /\ job'[r].circles = job[r].circles /\ job'[r].charged = job[r].charged
      BY <1>4, <2>1 DEF RestoreUsed, Pass, Goto, JobsOK, Job
    <3> QED
      BY <1>0, <1>4, <2>1, <3>1 DEF RestoreUsed, At, Reliable, WithinBounds, Restoring
  <2>2. CASE ~(used + Cardinality(job[r].charged) <= Budget)
    BY <1>0, <1>4, <2>2, IdleIsReliable DEF RestoreUsed, Pass, WithinBounds
  <2> QED
    BY <2>1, <2>2
<1>5. CASE RestoreCount(r)
  <2>1. CASE Cardinality(active) + Cardinality(job[r].circles) <= Limit
    <3>1. /\ job'[r].step = "restoreCommit" /\ job'[r].exempt = job[r].exempt
          /\ job'[r].circles = job[r].circles /\ job'[r].charged = job[r].charged
      BY <1>5, <2>1 DEF RestoreCount, Pass, Goto, JobsOK, Job
    <3> QED
      BY <1>0, <1>5, <2>1, <3>1 DEF RestoreCount, At, Reliable, WithinBounds, Restoring
  <2>2. CASE ~(Cardinality(active) + Cardinality(job[r].circles) <= Limit)
    BY <1>0, <1>5, <2>2, IdleIsReliable DEF RestoreCount, Pass, WithinBounds
  <2> QED
    BY <2>1, <2>2
<1> QED
  BY <1>1, <1>2, <1>3, <1>4, <1>5

\* What the four writes do to a request's circles and to the counts.
LEMMA InsertCount ==
  ASSUME RowsOK, JobsOK, NEW r \in Request, AllowanceInv, AddInsert(r)
  PROVE  /\ \E c \in Circle : active' \in {active, active \cup {c}}
         /\ used' = used
         /\ (exempted /\ (job[r].exempt \/ IsAdmin)) \/ Cardinality(active') <= Limit
<1>1. PICK c \in Circle : job[r].circles = {c}
  BY DEF AllowanceInv, Reliable, AddInsert, At
<1>2. active' \in {active, active \cup {c}} /\ used' = used
  BY <1>1 DEF AddInsert, Insert
<1>3. Cardinality(active \cup {c}) <= Cardinality(active) + 1
  BY UnionCount, FS_Singleton DEF RowsOK
<1>4. /\ Cardinality(active) \in Nat /\ Cardinality(active \cup {c}) \in Nat
  BY Counted, FS_CardinalityType DEF RowsOK
<1>5. (exempted /\ (job[r].exempt \/ IsAdmin)) \/ Cardinality(active) < Limit
  BY DEF AllowanceInv, Reliable, AddInsert, At
<1> QED
  BY <1>2, <1>3, <1>4, <1>5

LEMMA RestoreCounts ==
  ASSUME RowsOK, JobsOK, NEW r \in Request, AllowanceInv, RestoreCommit(r)
  PROVE  /\ job[r].circles \subseteq member \ active
         /\ active' = active \cup job[r].circles
         /\ job[r].charged \subseteq (active' \ active) \ fresh
         /\ (exempted /\ job[r].exempt) \/ Cardinality(active') <= Limit
         /\ used' = IF job[r].exempt THEN used ELSE used + Cardinality(job[r].charged)
         /\ used' <= Budget
         /\ Cardinality(job[r].charged) \in Nat
         /\ IsAdmin => job[r].exempt
<1>1. /\ job[r].circles \subseteq member \ active
      /\ job[r].charged \cap fresh = {}
      /\ job[r].exempt => exempted
  BY DEF AllowanceInv, Reliable, RestoreCommit, At, Restoring
<1>2. active' = active \cup job[r].circles
  BY <1>1 DEF RestoreCommit
<1>3. job[r].charged \subseteq (active' \ active) \ fresh
  BY <1>1, <1>2 DEF JobsOK
<1>4. Cardinality(job[r].charged) \in Nat
  BY Counted, FS_CardinalityType DEF JobsOK, Job
<1>5. job[r].exempt \/ /\ ~IsAdmin
                       /\ used + Cardinality(job[r].charged) <= Budget
                       /\ Cardinality(active) + Cardinality(job[r].circles) <= Limit
  BY DEF AllowanceInv, Reliable, RestoreCommit, At
<1>6. Cardinality(active \cup job[r].circles) <= Cardinality(active) + Cardinality(job[r].circles)
  BY UnionCount DEF RowsOK, JobsOK, Job
<1>7. /\ Cardinality(active) \in Nat /\ Cardinality(job[r].circles) \in Nat
      /\ Cardinality(active \cup job[r].circles) \in Nat
  BY Counted, FS_CardinalityType DEF RowsOK, JobsOK, Job
<1>8. used' = IF job[r].exempt THEN used ELSE used + Cardinality(job[r].charged)
  BY DEF RestoreCommit
<1>9. used' <= Budget
  BY <1>4, <1>5, <1>8 DEF AllowanceInv, WithinBounds
<1> QED
  BY <1>1, <1>2, <1>3, <1>4, <1>5, <1>6, <1>7, <1>8, <1>9

LEMMA WritesAreReliable ==
  ASSUME RowsOK, JobsOK, NEW r \in Request, AllowanceInv,
         AddInsert(r) \/ EnrolInsert(r) \/ ArchiveCommit(r) \/ RestoreCommit(r)
  PROVE  WithinBounds' /\ Reliable(job[r])'
<1>1. Reliable(job[r])'
  BY IdleIsReliable DEF AddInsert, EnrolInsert, ArchiveCommit, RestoreCommit
<1>2. RowsOK'
  BY NextKeepsRows DEF Next, Advance
<1>3. /\ Cardinality(active' \ enrolled') \in Nat
      /\ Cardinality(active \ enrolled) \in Nat
      /\ Cardinality(active') \in Nat
      /\ Cardinality(active' \ enrolled') <= Cardinality(active')
  BY <1>2, Counted, FS_CardinalityType, SubsetCount DEF RowsOK
<1>4. CASE AddInsert(r)
  <2>1. exempted' = exempted
    BY <1>4 DEF AddInsert
  <2>2. used' <= Budget
    BY <1>4, InsertCount DEF AllowanceInv, WithinBounds
  <2>3. exempted' \/ Cardinality(active' \ enrolled') <= Limit
    BY <1>3, <1>4, <2>1, InsertCount
  <2> QED
    BY <1>1, <2>2, <2>3 DEF WithinBounds
<1>5. CASE RestoreCommit(r)
  <2>1. exempted' = exempted
    BY <1>5 DEF RestoreCommit
  <2>2. used' <= Budget
    BY <1>5, RestoreCounts
  <2>3. exempted' \/ Cardinality(active' \ enrolled') <= Limit
    BY <1>3, <1>5, <2>1, RestoreCounts
  <2> QED
    BY <1>1, <2>2, <2>3 DEF WithinBounds
<1>6. CASE EnrolInsert(r) \/ ArchiveCommit(r)
  <2>1. active' \ enrolled' \subseteq active \ enrolled /\ used' = used /\ exempted' = exempted
    BY <1>6 DEF EnrolInsert, Insert, ArchiveCommit
  <2>2. Cardinality(active' \ enrolled') <= Cardinality(active \ enrolled)
    BY <2>1, SubsetCount DEF RowsOK
  <2>3. exempted' \/ Cardinality(active' \ enrolled') <= Limit
    BY <1>3, <2>1, <2>2 DEF AllowanceInv, WithinBounds
  <2> QED
    BY <1>1, <2>1, <2>3 DEF AllowanceInv, WithinBounds
<1> QED
  BY <1>1, <1>4, <1>5, <1>6

\* Time and billing disturb nothing a request relies on.
LEMMA AroundIsReliable ==
  ASSUME RowsOK, JobsOK, NEW r \in Request, AllowanceInv,
         (\E c \in Circle : Age(c)) \/ Forget \/ ChangeSubscription
  PROVE  WithinBounds' /\ Reliable(job[r])'
<1> USE DEF table
<1>1. /\ member' = member /\ active' = active /\ job' = job
      /\ enrolled' = enrolled /\ exempted' = exempted
      /\ fresh' \subseteq fresh /\ used' <= used /\ used' \in Nat
  BY DEF Age, Forget, ChangeSubscription, RowsOK
<1>2. Cardinality(job[r].charged) \in Nat
  BY Counted, FS_CardinalityType DEF JobsOK, Job
<1>3. WithinBounds'
  BY <1>1 DEF AllowanceInv, WithinBounds, RowsOK
<1>4. Reliable(job[r])'
  BY <1>1, <1>2 DEF AllowanceInv, Reliable, Restoring, RowsOK
<1> QED
  BY <1>3, <1>4

\* Requests have not overlapped: at most one is under way.
Alone == \A q, r \in Request : job[q] # Idle /\ job[r] # Idle => q = r

\* The inductive invariant, which the first overlap ends.
SoloInv == overlapped \/ (Alone /\ AllowanceInv)

\* A slot that is free relies on nothing.
LEMMA FreeIsReliable ==
  ASSUME NEW j, j = Idle
  PROVE  Reliable(j) /\ Reliable(j)'
  BY DEF Reliable, Restoring, Idle

\* A step of one request leaves the slots of the others alone.
LEMMA OthersStay ==
  ASSUME JobsOK, NEW r \in Request, Arrive(r) \/ Advance(r) \/ Abandon(r)
  PROVE  \A q \in Request \ {r} : job'[q] = job[q]
<1>1. CASE Arrive(r)
  BY <1>1 DEF Arrive, BeginAdd, BeginEnrol, BeginArchive, BeginRestore, Leave, Start, JobsOK
<1>2. CASE Advance(r)
  BY <1>2 DEF Advance, AddCount, AddPremium, AddInsert, EnrolInsert, ArchiveCommit,
              RestorePremium, RestoreUsed, RestoreCount, RestoreCommit, Pass, Goto, Finish, JobsOK
<1>3. CASE Abandon(r)
  BY <1>3 DEF Abandon, Finish, JobsOK
<1> QED
  BY <1>1, <1>2, <1>3

\* A step that does not overlap finds, and leaves, the other slots free.
LEMMA OthersAreFree ==
  ASSUME JobsOK, NEW r \in Request, Arrive(r) \/ Advance(r) \/ Abandon(r),
         Alone, ~overlapped'
  PROVE  /\ ~overlapped
         /\ \A q \in Request \ {r} : job[q] = Idle /\ job'[q] = Idle
<1>1. CASE Arrive(r)
  BY <1>1, OthersStay
     DEF Arrive, BeginAdd, BeginEnrol, BeginArchive, BeginRestore, Leave, Start, Arrives
<1>2. CASE Advance(r)
  <2>1. job[r] # Idle
    BY <1>2 DEF Advance, AddCount, AddPremium, AddInsert, EnrolInsert, ArchiveCommit,
                RestorePremium, RestoreUsed, RestoreCount, RestoreCommit, At, Idle
  <2>2. ~overlapped
    BY <1>2 DEF Advance, AddCount, AddPremium, AddInsert, EnrolInsert, ArchiveCommit,
                RestorePremium, RestoreUsed, RestoreCount, RestoreCommit
  <2> QED
    BY <1>2, <2>1, <2>2, OthersStay DEF Alone
<1>3. CASE Abandon(r)
  BY <1>3, OthersStay DEF Abandon, Alone
<1> QED
  BY <1>1, <1>2, <1>3

LEMMA SoloInductive ==
  ASSUME TypeOK, SoloInv, [Next]_vars
  PROVE  SoloInv'
<1> SUFFICES ASSUME ~overlapped' PROVE Alone' /\ AllowanceInv'
  BY DEF SoloInv
<1> USE TypeParts
<1>1. ASSUME NEW r \in Request, Arrive(r) \/ Advance(r) \/ Abandon(r)
      PROVE  Alone' /\ AllowanceInv'
  <2>0. ~overlapped
    BY <1>1 DEF Arrive, BeginAdd, BeginEnrol, BeginArchive, BeginRestore, Leave, Start, Arrives,
                Advance, AddCount, AddPremium, AddInsert, EnrolInsert, ArchiveCommit,
                RestorePremium, RestoreUsed, RestoreCount, RestoreCommit, Abandon
  <2>1. Alone /\ AllowanceInv
    BY <2>0 DEF SoloInv
  <2>2. \A q \in Request \ {r} : job'[q] = Idle
    BY <1>1, <2>1, OthersAreFree
  <2>3. WithinBounds' /\ Reliable(job[r])'
    <3>1. CASE Arrive(r)
      BY <2>1, <3>1, ArriveIsReliable
    <3>2. CASE Advance(r)
      BY <2>1, <3>2, ChecksAreReliable, WritesAreReliable DEF Advance
    <3>3. CASE Abandon(r)
      <4>1. WithinBounds'
        BY <2>1, <3>3 DEF Abandon, table, AllowanceInv, WithinBounds
      <4> QED
        BY <3>3, <4>1, IdleIsReliable DEF Abandon
    <3> QED
      BY <1>1, <3>1, <3>2, <3>3
  <2>4. ASSUME NEW q \in Request PROVE Reliable(job[q])'
    <3>1. CASE q = r
      BY <2>3, <3>1
    <3>2. CASE q # r
      BY <2>2, <3>2 DEF Reliable, Restoring, Idle
    <3> QED
      BY <3>1, <3>2
  <2> QED
    BY <2>2, <2>3, <2>4 DEF Alone, AllowanceInv
<1>2. CASE (\E c \in Circle : Age(c)) \/ Forget \/ ChangeSubscription
  <2>1. job' = job /\ ~overlapped
    BY <1>2 DEF Age, Forget, ChangeSubscription
  <2>2. Alone /\ AllowanceInv
    BY <2>1 DEF SoloInv
  <2>3. \A r \in Request : WithinBounds' /\ Reliable(job[r])'
    BY <1>2, <2>2, AroundIsReliable
  <2>4. WithinBounds'
    BY <1>2, <2>2 DEF Age, Forget, ChangeSubscription, table, AllowanceInv, WithinBounds, TypeOK
  <2> QED
    BY <2>1, <2>2, <2>3, <2>4 DEF Alone, AllowanceInv
<1>3. CASE UNCHANGED vars
  BY <1>3 DEF vars, SoloInv, Alone, AllowanceInv, WithinBounds, Reliable, Restoring
<1> QED
  BY <1>1, <1>2, <1>3 DEF Next

LEMMA SoloInitially == Init => SoloInv
<1>1. Cardinality({}) = 0 /\ {} \ {} = {}
  BY FS_EmptySet
<1> QED
  BY <1>1 DEF Init, SoloInv, Alone, AllowanceInv, WithinBounds, Reliable, Restoring, Idle

LEMMA SoloAlways == Spec => [](TypeOK /\ SoloInv)
<1>1. TypeOK /\ SoloInv /\ [Next]_vars => (TypeOK /\ SoloInv)'
  BY SoloInductive, NextKeepsTypes
<1>2. Init => TypeOK
  BY TypeInitially
<1> QED
  BY <1>1, <1>2, SoloInitially, PTL DEF Spec

-----------------------------------------------------------------------------
(* Requests that overlap *)

\* What each slot has been promised, as pairs of a slot and a circle.
Pairs(G) == {p \in Request \X Circle : p[2] \in G[p[1]]}

Requests == Cardinality(Request)

LEMMA SlotsCounted == IsFiniteSet(Request) /\ Requests \in Nat
  BY RequestAssumption, FS_CardinalityType DEF Requests

LEMMA PairsFinite ==
    ASSUME NEW G
    PROVE  /\ Pairs(G) \subseteq Request \X Circle
           /\ IsFiniteSet(Pairs(G)) /\ Cardinality(Pairs(G)) \in Nat
<1>1. IsFiniteSet(Request \X Circle)
  BY SlotsCounted, FS_Product
<1>2. Pairs(G) \in SUBSET (Request \X Circle)
  BY DEF Pairs
<1>3. IsFiniteSet(Pairs(G))
  BY <1>1, <1>2, FS_Subset
<1> QED
  BY <1>2, <1>3, FS_CardinalityType

\* The circles of a set can be told apart by as many numbers.
LEMMA Numbered ==
    ASSUME NEW S \in SUBSET Circle, NEW n \in Nat, Cardinality(S) <= n
    PROVE  \E f \in [Circle -> Nat] :
               \A c, d \in S : f[c] \in 1..n /\ (f[c] = f[d] => c = d)
<1>1. IsFiniteSet(S) /\ Cardinality(S) \in Nat
  BY Counted, FS_CardinalityType
<1>2. PICK b \in Bijection(1..Cardinality(S), S) : TRUE
  <2>1. ExistsBijection(1..Cardinality(S), S)
    BY <1>1, FS_CardinalityType
  <2> QED
    BY <2>1 DEF ExistsBijection
<1>3. \A c \in S : \E i \in 1..Cardinality(S) : b[i] = c
  BY <1>2 DEF Bijection, Surjection
<1> DEFINE g(c) == CHOOSE i \in 1..Cardinality(S) : b[i] = c
           f == [c \in Circle |-> IF c \in S THEN g(c) ELSE 0]
<1>4. \A c \in S : g(c) \in 1..Cardinality(S) /\ b[g(c)] = c
  BY <1>3
<1>5. \A c \in S : f[c] = g(c)
  OBVIOUS
<1> HIDE DEF g
<1>6. f \in [Circle -> Nat]
  BY <1>1, <1>4
<1>7. \A c, d \in S : f[c] \in 1..n /\ (f[c] = f[d] => c = d)
  <2> HIDE DEF f
  <2> QED
    BY <1>1, <1>4, <1>5
<1> QED
  BY <1>6, <1>7

\* Slots that were promised at most n circles each were promised at most n
\* for each of them together.
LEMMA PairsBounded ==
    ASSUME NEW G \in [Request -> SUBSET Circle], NEW n \in Nat, NEW T \in SUBSET Request,
           \A r \in T : Cardinality(G[r]) <= n,
           \A r \in Request \ T : G[r] = {}
    PROVE  Cardinality(Pairs(G)) <= Cardinality(T) * n
<1> DEFINE Names(r, f) == \A c, d \in G[r] : f[c] \in 1..n /\ (f[c] = f[d] => c = d)
           F == [r \in T |-> CHOOSE f \in [Circle -> Nat] : Names(r, f)]
           h == [p \in Pairs(G) |-> <<p[1], F[p[1]][p[2]]>>]
<1>1. \A r \in T : \E f \in [Circle -> Nat] : Names(r, f)
  BY Numbered
<1>2. \A r \in T : Names(r, F[r])
  <2> HIDE DEF Names
  <2> QED
    BY <1>1
<1>3. \A p \in Pairs(G) : /\ p[1] \in T /\ p[2] \in G[p[1]]
                          /\ p = <<p[1], p[2]>>
  BY DEF Pairs
<1>4. \A p \in Pairs(G) : h[p] = <<p[1], F[p[1]][p[2]]>>
  OBVIOUS
<1> HIDE DEF F
<1>5. h \in [Pairs(G) -> T \X (1..n)]
  BY <1>2, <1>3
<1> HIDE DEF h
<1>6. \A p, q \in Pairs(G) : h[p] = h[q] => p = q
  <2> SUFFICES ASSUME NEW p \in Pairs(G), NEW q \in Pairs(G), h[p] = h[q]
               PROVE  p = q
    OBVIOUS
  <2>1. p[1] = q[1] /\ F[p[1]][p[2]] = F[q[1]][q[2]]
    BY <1>4
  <2>2. p[2] = q[2]
    BY <1>2, <1>3, <2>1
  <2> QED
    BY <1>3, <2>1, <2>2
<1>7. h \in Injection(Pairs(G), T \X (1..n))
  BY <1>5, <1>6, Zenon DEF Injection, IsInjective
<1>8. IsFiniteSet(T) /\ IsFiniteSet(1..n) /\ Cardinality(1..n) = n
  BY SlotsCounted, FS_Subset, FS_Interval
<1>9. /\ IsFiniteSet(T \X (1..n))
      /\ Cardinality(T \X (1..n)) = Cardinality(T) * n
  BY <1>8, FS_Product
<1> QED
  BY <1>7, <1>9, FS_Injection

\* The part of one slot may be counted apart.
LEMMA PairsOfSlot ==
    ASSUME NEW G \in [Request -> SUBSET Circle], NEW r \in Request
    PROVE  Cardinality(Pairs(G))
             = Cardinality(Pairs([G EXCEPT ![r] = {}])) + Cardinality(G[r])
<1> DEFINE Rest == Pairs([G EXCEPT ![r] = {}])
           Own == {r} \X G[r]
<1>1. Pairs(G) = Rest \cup Own /\ Rest \cap Own = {}
  <2>1. ASSUME NEW p \in Pairs(G) PROVE p \in Rest \cup Own
    BY <2>1 DEF Pairs
  <2>2. ASSUME NEW p \in Rest PROVE p \in Pairs(G) /\ p \notin Own
    BY <2>2 DEF Pairs
  <2>3. ASSUME NEW p \in Own PROVE p \in Pairs(G)
    BY <2>3 DEF Pairs
  <2> QED
    BY <2>1, <2>2, <2>3
<1>2. /\ IsFiniteSet(Rest) /\ Cardinality(Rest) \in Nat
      /\ IsFiniteSet(G[r]) /\ Cardinality(G[r]) \in Nat
  BY PairsFinite, Counted, FS_CardinalityType
<1>3. IsFiniteSet(Own) /\ Cardinality(Own) = 1 * Cardinality(G[r])
  <2>1. IsFiniteSet({r}) /\ Cardinality({r}) = 1
    BY FS_Singleton
  <2> QED
    BY <1>2, <2>1, FS_Product
<1>4. Cardinality(Rest \cap Own) = 0
  BY <1>1, FS_EmptySet
<1>5. Cardinality(Rest \cup Own)
        = Cardinality(Rest) + Cardinality(Own) - Cardinality(Rest \cap Own)
  BY <1>2, <1>3, FS_Union
<1> QED
  BY <1>1, <1>2, <1>3, <1>4, <1>5

\* What is held already and what is promised stay within n for each slot: a
\* slot keeps its promise out of its own part, and is promised more only when
\* that and all that is held come to n at most.
Pooled(G, h, n) ==
    /\ \A r \in Request : Cardinality(G[r]) <= n
    /\ h + Cardinality(Pairs(G)) <= n * Requests

LEMMA PoolStep ==
    ASSUME NEW G \in [Request -> SUBSET Circle], NEW H \in [Request -> SUBSET Circle],
           NEW r \in Request, \A q \in Request \ {r} : H[q] = G[q],
           NEW n \in Nat, NEW h \in Nat, NEW k \in Nat, Pooled(G, h, n),
           \/ H[r] = {} /\ k <= h + Cardinality(G[r])
           \/ H[r] = G[r] /\ k <= h
           \/ k + Cardinality(H[r]) <= n
    PROVE  Pooled(H, k, n)
<1>1. /\ Cardinality(G[r]) \in Nat /\ Cardinality(H[r]) \in Nat
      /\ \A q \in Request : Cardinality(G[q]) <= n
      /\ Cardinality({}) = 0
  BY Counted, FS_CardinalityType, FS_EmptySet DEF Pooled
<1>2. \A q \in Request : Cardinality(H[q]) <= n
  BY <1>1
<1> DEFINE Rest == [G EXCEPT ![r] = {}]
<1>3. Rest = [H EXCEPT ![r] = {}] /\ Rest \in [Request -> SUBSET Circle]
  OBVIOUS
<1>4. /\ Cardinality(Pairs(G)) = Cardinality(Pairs(Rest)) + Cardinality(G[r])
      /\ Cardinality(Pairs(H)) = Cardinality(Pairs(Rest)) + Cardinality(H[r])
  BY <1>3, PairsOfSlot
<1>5. Cardinality(Pairs(Rest)) \in Nat
  BY PairsFinite
<1>6. Cardinality(Pairs(Rest)) <= n * Requests - n
  <2>1. \A q \in Request \ {r} : Rest[q] = G[q]
    OBVIOUS
  <2>2. \A q \in Request \ (Request \ {r}) : Rest[q] = {}
    OBVIOUS
  <2>3. Cardinality(Pairs(Rest)) <= Cardinality(Request \ {r}) * n
    <3> HIDE DEF Rest
    <3> QED
      BY <1>1, <1>3, <2>1, <2>2, PairsBounded
  <2>4. Cardinality(Request \ {r}) = Requests - 1
    BY SlotsCounted, FS_RemoveElement DEF Requests
  <2>5. (Requests - 1) * n = n * Requests - n
    BY SlotsCounted
  <2> QED
    BY <2>3, <2>4, <2>5
<1> HIDE DEF Rest
<1>7. k + Cardinality(Pairs(H)) <= n * Requests
  <2>1. \A m \in Int : \A x, y, z, u, v \in Nat :
          /\ h + u <= m /\ u = x + y /\ v = x + z /\ x <= m - n
          /\ (z = 0 /\ k <= h + y) \/ (z = y /\ k <= h) \/ k + z <= n
          => k + v <= m
    OBVIOUS
  <2>2. /\ n * Requests \in Int
        /\ Cardinality(Pairs(G)) \in Nat /\ Cardinality(Pairs(H)) \in Nat
    BY SlotsCounted, PairsFinite
  <2>3. h + Cardinality(Pairs(G)) <= n * Requests
    BY DEF Pooled
  <2>4. \/ Cardinality(H[r]) = 0 /\ k <= h + Cardinality(G[r])
        \/ Cardinality(H[r]) = Cardinality(G[r]) /\ k <= h
        \/ k + Cardinality(H[r]) <= n
    BY <1>1
  <2> QED
    BY <1>1, <1>4, <1>5, <1>6, <2>1, <2>2, <2>3, <2>4
<1> QED
  BY <1>2, <1>7 DEF Pooled

\* The circles a request has been let past the limit with.
Granted(j) ==
    IF \/ j.step \in {"addInsert", "restoreCommit"}
       \/ j.step = "addPremium" /\ j.count < Limit
    THEN j.circles ELSE {}

\* The charges a request has been let past the budget with.
Spending(j) ==
    IF j.step \in {"restoreCount", "restoreCommit"} /\ ~j.exempt THEN j.charged ELSE {}

Grants == [r \in Request |-> Granted(job[r])]

Spends == [r \in Request |-> Spending(job[r])]

Held == Cardinality(active \ enrolled)

\* The inductive invariant for requests that overlap: what is held or spent
\* together with what was promised to the requests under way.
RaceInv ==
    /\ \A r \in Request :
           /\ job[r].exempt => exempted
           /\ job[r].step \in {"addCount", "addPremium", "addInsert"}
                  => \E c \in Circle : job[r].circles = {c}
    /\ exempted \/ Pooled(Grants, Held, Limit)
    /\ Pooled(Spends, used, Budget)

\* What one step does with a promise: it keeps or drops it and adds nothing,
\* makes it good and no more, or gives a new one within the bound.
Honours(G, h, H, k, n) ==
    \/ H = {} /\ k <= h + Cardinality(G)
    \/ H = G /\ k <= h
    \/ k + Cardinality(H) <= n

LEMMA PromisesAreCircles ==
    ASSUME JobsOK
    PROVE  /\ Grants \in [Request -> SUBSET Circle]
           /\ Spends \in [Request -> SUBSET Circle]
  BY DEF JobsOK, Job, Grants, Granted, Spends, Spending

LEMMA HeldCounted ==
    ASSUME RowsOK
    PROVE  /\ Held \in Nat /\ Cardinality(active) \in Nat /\ Held <= Cardinality(active)
           /\ active \ enrolled \in SUBSET Circle
  BY Counted, FS_CardinalityType, SubsetCount DEF RowsOK, Held

\* A step that changes one slot keeps the bounds if it honours its promises.
LEMMA HonouredKeeps ==
    ASSUME RowsOK, RowsOK', JobsOK, JobsOK', RaceInv, NEW r \in Request,
           \A q \in Request \ {r} : job'[q] = job[q],
           exempted => exempted',
           job[r].exempt \/ job'[r].exempt => exempted',
           job'[r].step \in {"addCount", "addPremium", "addInsert"}
               => \E c \in Circle : job'[r].circles = {c},
           exempted' \/ Honours(Granted(job[r]), Held, Granted(job'[r]), Held', Limit),
           Honours(Spending(job[r]), used, Spending(job'[r]), used', Budget)
    PROVE  RaceInv'
<1>1. /\ Grants \in [Request -> SUBSET Circle] /\ Grants' \in [Request -> SUBSET Circle]
      /\ Spends \in [Request -> SUBSET Circle] /\ Spends' \in [Request -> SUBSET Circle]
  BY PromisesAreCircles DEF JobsOK, Job, Grants, Granted, Spends, Spending
<1>2. Held \in Nat /\ Held' \in Nat /\ used \in Nat /\ used' \in Nat
  <2>1. active' \ enrolled' \in SUBSET Circle
    BY DEF RowsOK
  <2>2. Cardinality(active' \ enrolled') \in Nat
    BY <2>1, Counted, FS_CardinalityType
  <2> QED
    BY <2>2, HeldCounted DEF RowsOK, Held
<1>3. \A q \in Request \ {r} : Grants'[q] = Grants[q] /\ Spends'[q] = Spends[q]
  BY DEF Grants, Spends, Granted, Spending
<1>4. /\ Grants[r] = Granted(job[r]) /\ Grants'[r] = Granted(job'[r])
      /\ Spends[r] = Spending(job[r]) /\ Spends'[r] = Spending(job'[r])
  BY DEF Grants, Spends, Granted, Spending
<1>5. exempted' \/ Pooled(Grants', Held', Limit)
  BY <1>1, <1>2, <1>3, <1>4, PoolStep DEF RaceInv, Honours
<1>6. Pooled(Spends', used', Budget)
  BY <1>1, <1>2, <1>3, <1>4, PoolStep DEF RaceInv, Honours
<1>7. ASSUME NEW q \in Request
      PROVE  /\ job'[q].exempt => exempted'
             /\ job'[q].step \in {"addCount", "addPremium", "addInsert"}
                    => \E c \in Circle : job'[q].circles = {c}
  BY DEF RaceInv
<1> QED
  BY <1>5, <1>6, <1>7 DEF RaceInv, Pooled, Pairs, Requests

\* Nothing was promised to a slot that is free, or is about something else.
LEMMA NothingPromised ==
    ASSUME NEW j
    PROVE  /\ j.step \notin {"addPremium", "addInsert", "restoreCommit"} => Granted(j) = {}
           /\ j.step \notin {"restoreCount", "restoreCommit"} => Spending(j) = {}
           /\ j.exempt => Spending(j) = {}
           /\ j = Idle => Granted(j) = {} /\ Spending(j) = {} /\ j.step = "idle" /\ ~j.exempt
  BY DEF Granted, Spending, Idle

\* A request that starts, or lets a circle go.
LEMMA ArriveHonours ==
    ASSUME RowsOK, RowsOK', JobsOK, JobsOK', RaceInv, NEW r \in Request, Arrive(r)
    PROVE  RaceInv'
<1> USE DEF table
<1>1. /\ Held \in Nat /\ used \in Nat
      /\ Granted(job[r]) = {} /\ Spending(job[r]) = {} /\ ~job[r].exempt
      /\ Cardinality({}) = 0
  <2>1. job[r] = Idle
    BY DEF Arrive, BeginAdd, BeginEnrol, BeginArchive, BeginRestore, Leave, Start, Arrives
  <2> QED
    BY <2>1, NothingPromised, HeldCounted, FS_EmptySet DEF RowsOK
<1>2. \A q \in Request \ {r} : job'[q] = job[q]
  BY OthersStay
<1>3. CASE \E c \in Circle : Leave(r, c)
  <2>1. /\ job' = job /\ used' = used /\ exempted' = exempted
        /\ active' \ enrolled' \subseteq active \ enrolled
    BY <1>3 DEF Leave
  <2>2. Held' <= Held
    BY <2>1, HeldCounted, SubsetCount DEF Held
  <2>3. /\ Honours(Granted(job[r]), Held, Granted(job'[r]), Held', Limit)
        /\ Honours(Spending(job[r]), used, Spending(job'[r]), used', Budget)
    BY <1>1, <2>1, <2>2 DEF Honours
  <2>4. job[r].step \in {"addCount", "addPremium", "addInsert"}
            => \E c \in Circle : job[r].circles = {c}
    BY DEF RaceInv
  <2> QED
    BY <1>1, <1>2, <2>1, <2>3, <2>4, HonouredKeeps
<1>4. CASE ~\E c \in Circle : Leave(r, c)
  <2>1. active' = active /\ enrolled' = enrolled /\ used' = used
    BY <1>4 DEF Arrive, BeginAdd, BeginEnrol, BeginArchive, BeginRestore
  <2>2. Held' = Held
    BY <2>1 DEF Held
  <2>3. /\ ~job'[r].exempt
        /\ \/ /\ job'[r].step = "addInsert" /\ exempted'
              /\ \E c \in Circle : job'[r].circles = {c}
           \/ /\ job'[r].step = "addCount"
              /\ \E c \in Circle : job'[r].circles = {c}
           \/ job'[r].step \in {"enrol", "archive", "restorePremium"}
    <3>1. ASSUME NEW c \in Circle, BeginAdd(r, c)
          PROVE  /\ ~job'[r].exempt
                 /\ job'[r].circles = {c}
                 /\ \/ job'[r].step = "addInsert" /\ exempted'
                    \/ job'[r].step = "addCount"
      BY <3>1 DEF BeginAdd, Start, Idle, JobsOK, RowsOK
    <3>2. ASSUME NEW c \in Circle, BeginEnrol(r, c)
          PROVE  ~job'[r].exempt /\ job'[r].step = "enrol"
      BY <3>2 DEF BeginEnrol, Start, Idle, JobsOK
    <3>3. ASSUME NEW S \in SUBSET Circle, BeginArchive(r, S)
          PROVE  ~job'[r].exempt /\ job'[r].step = "archive"
      BY <3>3 DEF BeginArchive, Start, Idle, JobsOK
    <3>4. ASSUME NEW S \in SUBSET Circle, BeginRestore(r, S)
          PROVE  ~job'[r].exempt /\ job'[r].step = "restorePremium"
      BY <3>4 DEF BeginRestore, Idle, JobsOK
    <3> QED
      BY <1>4, <3>1, <3>2, <3>3, <3>4 DEF Arrive
  <2>4. Spending(job'[r]) = {} /\ (exempted' \/ Granted(job'[r]) = {})
    BY <2>3, NothingPromised
  <2>5. /\ exempted' \/ Honours(Granted(job[r]), Held, Granted(job'[r]), Held', Limit)
        /\ Honours(Spending(job[r]), used, Spending(job'[r]), used', Budget)
    BY <1>1, <2>1, <2>2, <2>4 DEF Honours
  <2>6. ~job'[r].exempt
    BY <2>3
  <2>7. exempted => exempted'
    BY <1>4 DEF Arrive, BeginAdd, BeginEnrol, BeginArchive, BeginRestore
  <2> QED
    BY <1>1, <1>2, <2>3, <2>5, <2>6, <2>7, HonouredKeeps
<1> QED
  BY <1>3, <1>4

\* What a slot that ends, or that was promised nothing, leaves of the counts.
LEMMA SlotFreed ==
    ASSUME JobsOK, NEW r \in Request, Finish(r)
    PROVE  /\ job'[r] = Idle /\ ~job'[r].exempt /\ job'[r].step = "idle"
           /\ Granted(job'[r]) = {} /\ Spending(job'[r]) = {}
  BY NothingPromised DEF Finish, JobsOK

\* The checks: a promise is given only within what the count leaves.
LEMMA ChecksHonour ==
    ASSUME RowsOK, RowsOK', JobsOK, JobsOK', RaceInv, NEW r \in Request,
           AddCount(r) \/ AddPremium(r) \/ RestorePremium(r) \/ RestoreUsed(r) \/ RestoreCount(r)
    PROVE  RaceInv'
<1> USE DEF table
<1>0. /\ Held \in Nat /\ used \in Nat /\ Cardinality(active) \in Nat
      /\ Held <= Cardinality(active) /\ Cardinality({}) = 0
      /\ Cardinality(Granted(job[r])) \in Nat /\ Cardinality(Spending(job[r])) \in Nat
      /\ Cardinality(job[r].circles) \in Nat /\ Cardinality(job[r].charged) \in Nat
      /\ Granted(job[r]) \subseteq Circle
  BY HeldCounted, Counted, FS_CardinalityType, FS_EmptySet
     DEF RowsOK, JobsOK, Job, Granted, Spending
<1>1. \A q \in Request \ {r} : job'[q] = job[q]
  BY OthersStay DEF Advance
<1>2. Held' = Held /\ used' = used
  BY DEF AddCount, AddPremium, RestorePremium, RestoreUsed, RestoreCount, Held
<1>3. /\ job[r].exempt => exempted
      /\ job[r].step \in {"addCount", "addPremium", "addInsert"}
             => \E c \in Circle : job[r].circles = {c}
      /\ exempted => exempted'
  BY DEF RaceInv, AddCount, AddPremium, RestorePremium, RestoreUsed, RestoreCount
\* An answer 403 drops what was promised.
<1>4. CASE Finish(r)
  <2>1. /\ Honours(Granted(job[r]), Held, Granted(job'[r]), Held', Limit)
        /\ Honours(Spending(job[r]), used, Spending(job'[r]), used', Budget)
    BY <1>0, <1>2, <1>4, SlotFreed DEF Honours
  <2> QED
    BY <1>1, <1>3, <1>4, <2>1, SlotFreed, HonouredKeeps
<1>5. CASE AddCount(r)
  <2>1. /\ job'[r].step = "addPremium" /\ job'[r].count = Cardinality(active)
        /\ job'[r].circles = job[r].circles /\ job'[r].exempt = job[r].exempt
        /\ job[r].step = "addCount"
    BY <1>5 DEF AddCount, At, JobsOK, Job
  <2>2. PICK c \in Circle : job[r].circles = {c}
    BY <1>3, <2>1
  <2>3. Granted(job'[r]) = IF Cardinality(active) < Limit THEN {c} ELSE {}
    BY <2>1, <2>2 DEF Granted
  <2>4. Cardinality({c}) = 1
    BY FS_Singleton
  <2>5. Honours(Granted(job[r]), Held, Granted(job'[r]), Held', Limit)
    BY <1>0, <1>2, <2>3, <2>4 DEF Honours
  <2>6. Spending(job'[r]) = {}
    BY <2>1, NothingPromised
  <2>7. Honours(Spending(job[r]), used, Spending(job'[r]), used', Budget)
    BY <1>0, <1>2, <2>6 DEF Honours
  <2> QED
    BY <1>1, <1>3, <2>1, <2>2, <2>5, <2>7, HonouredKeeps
<1>6. CASE AddPremium(r) /\ ~Finish(r)
  <2>1. /\ job'[r].step = "addInsert" /\ job'[r].circles = job[r].circles
        /\ job[r].step = "addPremium"
        /\ exempted' \/ job[r].count < Limit
        /\ job'[r].exempt => exempted'
    BY <1>3, <1>6 DEF AddPremium, Pass, Goto, At, JobsOK, Job
  <2>2. exempted' \/ Granted(job'[r]) = Granted(job[r])
    BY <2>1 DEF Granted
  <2>3. Spending(job'[r]) = {}
    BY <2>1, NothingPromised
  <2>4. /\ exempted' \/ Honours(Granted(job[r]), Held, Granted(job'[r]), Held', Limit)
        /\ Honours(Spending(job[r]), used, Spending(job'[r]), used', Budget)
    BY <1>0, <1>2, <2>2, <2>3 DEF Honours
  <2>5. job[r].exempt \/ job'[r].exempt => exempted'
    BY <1>3, <2>1
  <2>6. \E c \in Circle : job'[r].circles = {c}
    BY <1>3, <2>1
  <2> QED
    BY <1>1, <1>3, <2>4, <2>5, <2>6, HonouredKeeps
<1>7. CASE RestorePremium(r) /\ (premium \/ IsAdmin)
  <2>1. job'[r].step = "restoreCommit" /\ job'[r].exempt /\ exempted'
    BY <1>7 DEF RestorePremium, JobsOK, Job
  <2>2. Spending(job'[r]) = {}
    BY <2>1, NothingPromised
  <2>3. Honours(Spending(job[r]), used, Spending(job'[r]), used', Budget)
    BY <1>0, <1>2, <2>2 DEF Honours
  <2> QED
    BY <1>1, <2>1, <2>3, HonouredKeeps
<1>8. CASE RestorePremium(r) /\ ~(premium \/ IsAdmin)
  <2>1. /\ job'[r].step \in {"restoreCount", "restoreUsed"}
        /\ job'[r].step = "restoreCount" => job'[r].charged = {}
        /\ job'[r].exempt = job[r].exempt
    BY <1>8 DEF RestorePremium, Goto, JobsOK, Job
  <2>2. Spending(job'[r]) = {} /\ Granted(job'[r]) = {}
    BY <2>1 DEF Spending, Granted
  <2>3. /\ Honours(Granted(job[r]), Held, Granted(job'[r]), Held', Limit)
        /\ Honours(Spending(job[r]), used, Spending(job'[r]), used', Budget)
    BY <1>0, <1>2, <2>2 DEF Honours
  <2> QED
    BY <1>1, <1>3, <2>1, <2>3, HonouredKeeps
<1>9. CASE RestoreUsed(r) /\ ~Finish(r)
  <2>1. /\ job'[r].step = "restoreCount" /\ job'[r].charged = job[r].charged
        /\ job'[r].exempt = job[r].exempt
        /\ used + Cardinality(job[r].charged) <= Budget
    BY <1>9 DEF RestoreUsed, Pass, Goto, JobsOK, Job
  <2>2. /\ Spending(job'[r]) \in {{}, job[r].charged} /\ Granted(job'[r]) = {}
    BY <2>1 DEF Spending, Granted
  <2>3. /\ Honours(Granted(job[r]), Held, Granted(job'[r]), Held', Limit)
        /\ Honours(Spending(job[r]), used, Spending(job'[r]), used', Budget)
    BY <1>0, <1>2, <2>1, <2>2 DEF Honours
  <2> QED
    BY <1>1, <1>3, <2>1, <2>3, HonouredKeeps
<1>10. CASE RestoreCount(r) /\ ~Finish(r)
  <2>1. /\ job'[r].step = "restoreCommit" /\ job[r].step = "restoreCount"
        /\ job'[r].charged = job[r].charged /\ job'[r].circles = job[r].circles
        /\ job'[r].exempt = job[r].exempt
        /\ Cardinality(active) + Cardinality(job[r].circles) <= Limit
    BY <1>10 DEF RestoreCount, Pass, Goto, At, JobsOK, Job
  <2>2. /\ Spending(job'[r]) = Spending(job[r])
        /\ Granted(job'[r]) = job[r].circles
    BY <2>1 DEF Spending, Granted
  <2>3. /\ Honours(Granted(job[r]), Held, Granted(job'[r]), Held', Limit)
        /\ Honours(Spending(job[r]), used, Spending(job'[r]), used', Budget)
    BY <1>0, <1>2, <2>1, <2>2 DEF Honours
  <2> QED
    BY <1>1, <1>3, <2>1, <2>3, HonouredKeeps
<1> QED
  BY <1>4, <1>5, <1>6, <1>7, <1>8, <1>9, <1>10

\* The writes make promises good, and no more.
LEMMA WritesHonour ==
    ASSUME RowsOK, RowsOK', JobsOK, JobsOK', RaceInv, NEW r \in Request,
           \/ AddInsert(r) \/ EnrolInsert(r) \/ ArchiveCommit(r) \/ RestoreCommit(r)
           \/ Abandon(r)
    PROVE  RaceInv'
<1>0. /\ Held \in Nat /\ used \in Nat /\ Cardinality({}) = 0
      /\ Cardinality(Granted(job[r])) \in Nat /\ Cardinality(Spending(job[r])) \in Nat
      /\ Granted(job[r]) \in SUBSET Circle /\ active \ enrolled \in SUBSET Circle
  BY HeldCounted, Counted, FS_CardinalityType, FS_EmptySet
     DEF RowsOK, JobsOK, Job, Granted, Spending
<1>1. \A q \in Request \ {r} : job'[q] = job[q]
  BY OthersStay DEF Advance
<1>2. Finish(r) /\ exempted' = exempted
  BY DEF AddInsert, EnrolInsert, ArchiveCommit, RestoreCommit, Abandon
<1>3. active' \ enrolled' \subseteq (active \ enrolled) \cup Granted(job[r])
  <2>1. CASE AddInsert(r)
    BY <2>1 DEF AddInsert, Insert, At, Granted
  <2>2. CASE RestoreCommit(r)
    BY <2>2 DEF RestoreCommit, At, Granted
  <2>3. CASE EnrolInsert(r) \/ ArchiveCommit(r) \/ Abandon(r)
    BY <2>3 DEF EnrolInsert, Insert, ArchiveCommit, Abandon, table
  <2> QED
    BY <2>1, <2>2, <2>3
<1>4. Held' <= Held + Cardinality(Granted(job[r]))
  <2> DEFINE Both == (active \ enrolled) \cup Granted(job[r])
  <2>1. Both \in SUBSET Circle /\ active' \ enrolled' \in SUBSET Both
    BY <1>0, <1>3
  <2>2. /\ Cardinality(active' \ enrolled') <= Cardinality(Both)
        /\ Cardinality(active' \ enrolled') \in Nat /\ Cardinality(Both) \in Nat
    <3> HIDE DEF Both
    <3>1. active' \ enrolled' \in SUBSET Circle
      BY <2>1
    <3> QED
      BY <2>1, <3>1, SubsetCount, Counted, FS_CardinalityType
  <2>3. Cardinality(Both) <= Cardinality(active \ enrolled) + Cardinality(Granted(job[r]))
    BY <1>0, UnionCount
  <2> QED
    BY <1>0, <2>2, <2>3 DEF Held
<1>5. used' <= used + Cardinality(Spending(job[r]))
  <2>1. CASE RestoreCommit(r)
    BY <1>0, <2>1 DEF RestoreCommit, At, Spending
  <2>2. CASE ~RestoreCommit(r)
    BY <1>0, <2>2 DEF AddInsert, Insert, EnrolInsert, ArchiveCommit, Abandon, table
  <2> QED
    BY <2>1, <2>2
<1>6. /\ Honours(Granted(job[r]), Held, Granted(job'[r]), Held', Limit)
      /\ Honours(Spending(job[r]), used, Spending(job'[r]), used', Budget)
  BY <1>2, <1>4, <1>5, SlotFreed DEF Honours
<1>7. job[r].exempt => exempted
  BY DEF RaceInv
<1> QED
  BY <1>1, <1>2, <1>6, <1>7, SlotFreed, HonouredKeeps

LEMMA RaceInductive ==
    ASSUME TypeOK, TypeOK', RaceInv, [Next]_vars
    PROVE  RaceInv'
<1>1. RowsOK /\ JobsOK /\ RowsOK' /\ JobsOK'
  BY TypeParts, Zenon DEF TypeOK, RowsOK, JobsOK
<1>2. ASSUME NEW r \in Request, Arrive(r) \/ Advance(r) \/ Abandon(r)
      PROVE  RaceInv'
  BY <1>1, <1>2, ArriveHonours, ChecksHonour, WritesHonour DEF Advance
<1>3. CASE (\E c \in Circle : Age(c)) \/ ChangeSubscription \/ UNCHANGED vars
  <2>1. /\ job' = job /\ active' = active /\ enrolled' = enrolled
        /\ used' = used /\ exempted' = exempted
    BY <1>3 DEF Age, ChangeSubscription, table, vars
  <2> QED
    BY <2>1 DEF RaceInv, Pooled, Pairs, Grants, Spends, Granted, Spending, Held, Requests
<1>4. CASE Forget
  <2>1. /\ job' = job /\ active' = active /\ enrolled' = enrolled
        /\ used' = used - 1 /\ exempted' = exempted /\ used \in Nat
    BY <1>1, <1>4 DEF Forget, RowsOK
  <2>2. /\ Spends' = Spends /\ Grants' = Grants /\ Held' = Held
        /\ Pairs(Spends)' = Pairs(Spends) /\ Pairs(Grants)' = Pairs(Grants)
    BY <2>1 DEF Pairs, Grants, Spends, Granted, Spending, Held
  <2>3. Cardinality(Pairs(Spends)) \in Nat /\ Budget * Requests \in Nat
    BY PairsFinite, SlotsCounted
  <2>4. Pooled(Spends, used, Budget)
    BY DEF RaceInv
  <2>5. Pooled(Spends, used, Budget)'
    <3>1. PICK m \in Nat : m = Budget * Requests
      BY <2>3
    <3>2. used' + Cardinality(Pairs(Spends)) <= Budget * Requests
      BY <2>1, <2>3, <2>4, <3>1 DEF Pooled
    <3> QED
      BY <2>2, <2>4, <3>2 DEF Pooled, Requests
  <2> QED
    BY <2>1, <2>2, <2>5 DEF RaceInv, Pooled, Requests
<1> QED
  BY <1>2, <1>3, <1>4 DEF Next

LEMMA RaceInitially == Init => RaceInv
<1> SUFFICES ASSUME Init PROVE RaceInv
  OBVIOUS
<1>1. /\ Grants = [r \in Request |-> {}] /\ Spends = [r \in Request |-> {}]
      /\ active \ enrolled = {} /\ used = 0
      /\ \A r \in Request : ~job[r].exempt /\ job[r].step = "idle"
  BY NothingPromised DEF Init, Grants, Spends, Idle
<1>2. /\ Pairs([r \in Request |-> {}]) = {}
      /\ Cardinality({}) = 0
  BY FS_EmptySet DEF Pairs
<1>3. 0 <= Limit * Requests /\ 0 <= Budget * Requests
  BY SlotsCounted
<1>4. Pooled(Grants, Held, Limit) /\ Pooled(Spends, used, Budget)
  <2>1. Held = 0 /\ Cardinality(Pairs(Grants)) = 0 /\ Cardinality(Pairs(Spends)) = 0
    BY <1>1, <1>2 DEF Held
  <2>2. \A r \in Request : Cardinality(Grants[r]) = 0 /\ Cardinality(Spends[r]) = 0
    BY <1>1, <1>2
  <2> QED
    BY <1>1, <1>3, <2>1, <2>2 DEF Pooled
<1> QED
  BY <1>1, <1>4 DEF RaceInv

-----------------------------------------------------------------------------
(* What a user may hold *)

\* A user who was never exempt holds no more circles than the limit, those
\* they were enrolled in by AddUserToGroup apart (isUnderCircleLimit and the
\* limit check of RestoreCircles), and no more charged restores than the budget
\* lie in any window (RestoreCircles), while their requests do not overlap.
\* When they do, the gap between check and write costs at most that much again
\* for every other request that can be under way.
THEOREM AllowanceIsBounded == Spec => []AllowanceBounded
<1>1. SoloInv /\ ~overlapped => AllowanceBounded
  <2>1. ASSUME AllowanceInv, ~overlapped PROVE AllowanceBounded
    <3>1. Limit * 1 = Limit /\ Budget * 1 = Budget
      OBVIOUS
    <3> QED
      BY <2>1, <3>1 DEF AllowanceInv, WithinBounds, AllowanceBounded, Slots
  <2> QED
    BY <2>1 DEF SoloInv
<1>2. TypeOK /\ RaceInv /\ overlapped => AllowanceBounded
  <2> SUFFICES ASSUME TypeOK, RaceInv, overlapped PROVE AllowanceBounded
    OBVIOUS
  <2>1. \A m \in Nat : \A x, y \in Nat : x + y <= m => x <= m
    OBVIOUS
  <2>2. /\ Limit * Requests \in Nat /\ Budget * Requests \in Nat /\ used \in Nat /\ Held \in Nat
        /\ Cardinality(Pairs(Grants)) \in Nat /\ Cardinality(Pairs(Spends)) \in Nat
    BY SlotsCounted, PairsFinite, HeldCounted, TypeParts DEF RowsOK
  <2>3. used <= Budget * Requests
    BY <2>1, <2>2 DEF RaceInv, Pooled
  <2>4. exempted \/ Held <= Limit * Requests
    BY <2>1, <2>2 DEF RaceInv, Pooled
  <2> QED
    BY <2>3, <2>4 DEF AllowanceBounded, Slots, Requests, Held
<1>3. Spec => []RaceInv
  <2>1. TypeOK /\ TypeOK' /\ RaceInv /\ [Next]_vars => RaceInv'
    BY RaceInductive
  <2>2. Spec => []TypeOK
    BY TypeCorrect
  <2> QED
    BY <2>1, <2>2, RaceInitially, PTL DEF Spec
<1> QED
  BY <1>1, <1>2, <1>3, SoloAlways, PTL

\* Only two writes add an active circle for a request that is not exempt, and
\* both leave the user within the limit (CreateGroup, JoinGroup and
\* RestoreCircles for a user whose subscription lapsed).
THEOREM LapsedUsersDoNotGrow == Spec => LapsedCannotGrow
<1> DEFINE Grows(r) ==
             /\ job[r].step \in {"addInsert", "restoreCommit"}
             /\ ~job[r].exempt /\ ~IsAdmin
             /\ job'[r] # job[r]
             /\ ~(active' \subseteq active)
             /\ ~overlapped'
<1>1. ASSUME TypeOK, SoloInv, [Next]_vars, NEW r \in Request, Grows(r)
      PROVE  Cardinality(active') <= Limit
  <2>1. RowsOK /\ JobsOK
    BY <1>1, TypeParts
  <2>2. job[r] # Idle
    BY <1>1 DEF Idle
  <2>3. PICK q \in Request : Arrive(q) \/ Advance(q) \/ Abandon(q)
    BY <1>1 DEF Next, Age, Forget, ChangeSubscription, table, vars
  <2>4. ~overlapped
    BY <1>1, <2>3
       DEF Arrive, BeginAdd, BeginEnrol, BeginArchive, BeginRestore, Leave, Start, Arrives,
           Advance, AddCount, AddPremium, AddInsert, EnrolInsert, ArchiveCommit,
           RestorePremium, RestoreUsed, RestoreCount, RestoreCommit, Abandon
  <2>5. Alone /\ AllowanceInv
    BY <1>1, <2>4 DEF SoloInv
  <2>6. q = r
    BY <1>1, <2>1, <2>3, OthersStay
  <2>7. AddInsert(r) \/ RestoreCommit(r)
    BY <1>1, <2>2, <2>3, <2>6
       DEF Arrive, Advance, table, BeginAdd, BeginEnrol, Leave, BeginArchive,
           BeginRestore, Start, Arrives, AddCount, AddPremium, EnrolInsert, ArchiveCommit,
           RestorePremium, RestoreUsed, RestoreCount, Abandon, At
  <2> QED
    BY <1>1, <2>1, <2>5, <2>7, InsertCount, RestoreCounts
<1>2. TypeOK /\ SoloInv /\ [Next]_vars
        => [\A r \in Request : Grows(r) => Cardinality(active') <= Limit]_vars
  BY <1>1
<1> QED
  BY <1>2, SoloAlways, PTL DEF Spec, LapsedCannotGrow

\* What goes into the ledger was restored by the same transaction, and had
\* outlived the undo window (RestoreCircles), while requests do not overlap.
THEOREM ChargesWereRestored == Spec => ChargesAreRestores
<1> DEFINE Charged == used' > used /\ ~overlapped'
             => used' - used <= Cardinality((active' \ active) \ fresh)
<1>1. ASSUME TypeOK, SoloInv, [Next]_vars, used' > used, ~overlapped'
      PROVE  used' - used <= Cardinality((active' \ active) \ fresh)
  <2>1. RowsOK /\ JobsOK
    BY <1>1, TypeParts
  <2>2. PICK r \in Request : RestoreCommit(r)
    <3>1. used \in Nat /\ ~(used' <= used)
      BY <1>1, <2>1, NextKeepsRows DEF RowsOK, vars
    <3>2. ASSUME NEW r \in Request, Arrive(r) PROVE used' = used
      BY <3>2 DEF Arrive, table, BeginAdd, BeginEnrol, Leave, BeginArchive, BeginRestore
    <3>3. ASSUME NEW r \in Request, Advance(r), ~RestoreCommit(r) PROVE used' = used
      BY <3>3
         DEF Advance, table, AddCount, AddPremium, AddInsert, EnrolInsert, Insert,
             ArchiveCommit, RestorePremium, RestoreUsed, RestoreCount
    <3>4. ASSUME NEW r \in Request, Abandon(r) PROVE used' = used
      BY <3>4 DEF Abandon, table
    <3>5. ASSUME NEW c \in Circle, Age(c) PROVE used' = used
      BY <3>5 DEF Age
    <3>6. Forget \/ ChangeSubscription \/ UNCHANGED vars => used' <= used
      BY <3>1 DEF Forget, ChangeSubscription, table, vars
    <3> QED
      BY <1>1, <3>1, <3>2, <3>3, <3>4, <3>5, <3>6 DEF Next
  <2>a. AllowanceInv
    BY <1>1, <2>2 DEF SoloInv, RestoreCommit
  <2>3. /\ job[r].charged \subseteq (active' \ active) \ fresh
        /\ used' = used + Cardinality(job[r].charged)
        /\ Cardinality(job[r].charged) \in Nat
    BY <1>1, <2>1, <2>2, <2>a, RestoreCounts DEF RowsOK
  <2>4. (active' \ active) \ fresh \subseteq Circle
    BY <2>1, <2>2, NextKeepsRows DEF RowsOK, Next, Advance
  <2>5. Cardinality(job[r].charged) <= Cardinality((active' \ active) \ fresh)
    BY <2>3, <2>4, SubsetCount
  <2> QED
    BY <2>1, <2>3, <2>5 DEF RowsOK
<1>2. TypeOK /\ SoloInv /\ [Next]_vars => [Charged]_vars
  BY <1>1
<1> QED
  BY <1>2, SoloAlways, PTL DEF Spec, ChargesAreRestores

-----------------------------------------------------------------------------
(* The free tier *)

\* The free tier counts as the handlers do.
LEMMA SameCount == \A S : Tier!Cardinality(S) = Cardinality(S)
  BY Zenon DEF Tier!Cardinality, Cardinality

\* No request but r has a pass, before the step or after.
Solo(r) == \A q \in Request \ {r} : ~job[q].exempt /\ ~job'[q].exempt

LEMMA StepsAreSolo ==
  ASSUME JobsOK, NEW r \in Request, Alone, ~overlapped',
         Arrive(r) \/ Advance(r) \/ Abandon(r)
  PROVE  Solo(r)
<1>1. Idle.exempt = FALSE
  BY DEF Idle
<1> QED
  BY <1>1, OthersAreFree DEF Solo

\* Giving circles up, or only the pass.
LEMMA ReleaseSteps ==
  ASSUME NEW r \in Request, Solo(r), used' = used, premium' = premium, ~job'[r].exempt
  PROVE  /\ active' = active => Tier!Next
         /\ \A S \in SUBSET Circle : active' = active \ S => Tier!Next
<1>1. \A S \in SUBSET Circle : active' = active \ S => Tier!Next
  BY DEF Tier!Next, Tier!Release, Solo
<1>2. {} \in SUBSET Circle /\ active \ {} = active
  OBVIOUS
<1> QED
  BY <1>1, <1>2

\* Taking circles.
LEMMA TakeSteps ==
  ASSUME NEW S \in SUBSET Circle, NEW n \in 0..Budget, Tier!Take(S, n)
  PROVE  Tier!Next
  BY DEF Tier!Next

\* A circle added behind a gate, and one added without.
LEMMA InsertSteps ==
  ASSUME NEW r \in Request, Solo(r), RowsOK, JobsOK, AllowanceInv,
         AddInsert(r) \/ EnrolInsert(r)
  PROVE  Tier!Next
<1>1. PICK c \in Circle : job[r].circles = {c}
  BY DEF AllowanceInv, Reliable, AddInsert, EnrolInsert, At
<1>2. /\ ~job'[r].exempt /\ used' = used /\ premium' = premium
      /\ active' \in {active, active \cup {c}}
  BY <1>1 DEF AddInsert, EnrolInsert, Insert, Finish, Idle, JobsOK
<1>3. CASE active' = active
  BY <1>2, <1>3, ReleaseSteps
<1>4. CASE EnrolInsert(r) /\ active' # active
  <2>1. MayEnrol
    BY <1>4 DEF AllowanceInv, Reliable, EnrolInsert, At
  <2>2. Tier!Enrol(c)
    BY <1>2, <1>4, <2>1 DEF Tier!Enrol, Solo
  <2> QED
    BY <2>2 DEF Tier!Next
<1>5. CASE AddInsert(r) /\ active' # active
  <2>1. active' = active \cup {c} /\ {c} \cap active = {}
    <3>1. c \in active => active \cup {c} = active
      OBVIOUS
    <3> QED
      BY <1>2, <1>5, <3>1
  <2>2. used + 0 <= Budget /\ used' = used + 0 /\ 0 \in 0..Budget
    BY <1>2 DEF AllowanceInv, WithinBounds, RowsOK
  <2>3. job[r].exempt \/ IsAdmin \/ Cardinality(active \cup {c}) <= Limit
    BY <1>5, <2>1, InsertCount
  <2>4. 0 <= Cardinality({c})
    BY FS_Singleton
  <2>5. Tier!Take({c}, 0)
    BY <1>2, <2>1, <2>2, <2>3, <2>4, SameCount DEF Tier!Take, Tier!Within, Solo
  <2> QED
    BY <2>2, <2>5 DEF Tier!Next
<1> QED
  BY <1>2, <1>3, <1>4, <1>5

\* A restore takes its circles back at the charge the checks have allowed.
LEMMA RestoreSteps ==
  ASSUME NEW r \in Request, Solo(r), RowsOK, JobsOK, AllowanceInv, RestoreCommit(r)
  PROVE  Tier!Next
<1>a. PICK S : S = job[r].circles
  OBVIOUS
<1>b. PICK n : n = IF job[r].exempt THEN 0 ELSE Cardinality(job[r].charged)
  OBVIOUS
<1> USE <1>a, <1>b
<1>1. /\ S \cap active = {} /\ active' = active \cup S
      /\ job[r].exempt \/ Cardinality(active \cup S) <= Limit
      /\ n \in Nat /\ used' = used + n /\ used + n <= Budget
      /\ IsAdmin => job[r].exempt
  <2>0. r \in Request
    OBVIOUS
  <2>1. /\ S \subseteq member \ active /\ active' = active \cup S
        /\ IsAdmin => job[r].exempt
    BY <2>0, RestoreCounts
  <2>2. job[r].exempt \/ Cardinality(active') <= Limit
    BY <2>0, RestoreCounts
  <2>3. /\ Cardinality(job[r].charged) \in Nat /\ used' <= Budget
        /\ used' = IF job[r].exempt THEN used ELSE used + Cardinality(job[r].charged)
    BY <2>0, RestoreCounts
  <2>4. n \in Nat /\ used' = used + n
    BY <2>3 DEF RowsOK
  <2> QED
    BY <2>1, <2>2, <2>3, <2>4
<1>2. S \in SUBSET Circle /\ n <= Cardinality(S) /\ n \in 0..Budget
  <2>1. Cardinality(S) \in Nat /\ Cardinality(job[r].charged) <= Cardinality(S)
    BY Counted, FS_CardinalityType, SubsetCount DEF JobsOK, Job
  <2> QED
    BY <1>1, <2>1 DEF JobsOK, Job, RowsOK
<1>3. ~job'[r].exempt /\ premium' = premium
  BY DEF RestoreCommit, Finish, Idle, JobsOK
<1>4. job[r].exempt => n = 0
  OBVIOUS
<1>5. Tier!Take(S, n)
  BY <1>1, <1>2, <1>3, <1>4, SameCount DEF Tier!Take, Tier!Within, Solo
<1> QED
  BY <1>2, <1>5, TakeSteps

\* A check leaves the circles alone; it grants a pass, ends the request or
\* goes on.
LEMMA CheckSteps ==
  ASSUME NEW r \in Request, Solo(r), RowsOK, JobsOK,
         AddCount(r) \/ AddPremium(r) \/ RestorePremium(r) \/ RestoreUsed(r) \/ RestoreCount(r)
  PROVE  [Tier!Next]_(Tier!vars)
<1>1. active' = active /\ used' = used /\ premium' = premium
  BY DEF AddCount, AddPremium, RestorePremium, RestoreUsed, RestoreCount, table
<1>2. CASE job'[r].exempt = job[r].exempt
  BY <1>1, <1>2 DEF Tier!vars, Solo
<1>3. CASE ~job'[r].exempt
  BY <1>1, <1>3, ReleaseSteps
<1>4. CASE (premium \/ IsAdmin) /\ job'[r].exempt
  BY <1>1, <1>4 DEF Tier!Next, Tier!Grant
<1>5. \/ job'[r].exempt = job[r].exempt
      \/ ~job'[r].exempt
      \/ (premium \/ IsAdmin) /\ job'[r].exempt
  BY DEF AddCount, AddPremium, RestorePremium, RestoreUsed, RestoreCount, Pass, Goto,
         Finish, Idle, JobsOK, Job
<1> QED
  BY <1>2, <1>3, <1>4, <1>5

\* A request that starts holds no pass; a circle may go at any time.
LEMMA ArriveSteps ==
  ASSUME NEW r \in Request, Solo(r), RowsOK, JobsOK, Arrive(r)
  PROVE  [Tier!Next]_(Tier!vars)
<1>1. job[r] = Idle /\ ~job'[r].exempt /\ ~job[r].exempt /\ used' = used /\ premium' = premium
  <2>1. Idle.exempt = FALSE
    BY DEF Idle
  <2>2. /\ job[r] = Idle /\ used' = used /\ premium' = premium
        /\ \/ job' = job
           \/ \E s, S : job' = [job EXCEPT ![r] = [Idle EXCEPT !.step = s, !.circles = S]]
           \/ \E S, T : job' = [job EXCEPT ![r] = [Idle EXCEPT !.step = "restorePremium",
                                                              !.circles = S, !.charged = T]]
    BY DEF Arrive, BeginAdd, BeginEnrol, BeginArchive, BeginRestore, Leave, Start, table, Arrives
  <2>3. ~job'[r].exempt
    BY <2>1, <2>2 DEF JobsOK, Idle
  <2> QED
    BY <2>1, <2>2, <2>3
<1>2. CASE \E c \in Circle : Leave(r, c)
  <2>1. PICK c \in Circle : Leave(r, c)
    BY <1>2
  <2>2. {c} \in SUBSET Circle /\ active' = active \ {c}
    BY <2>1 DEF Leave
  <2> QED
    BY <1>1, <2>2, ReleaseSteps
<1>3. CASE active' = active
  BY <1>1, <1>3 DEF Tier!vars, Solo
<1>4. active' = active \/ \E c \in Circle : Leave(r, c)
  BY DEF Arrive, BeginAdd, BeginEnrol, BeginArchive, BeginRestore, table
<1> QED
  BY <1>2, <1>3, <1>4

\* Every step of the handlers that does not overlap is a step of the free
\* tier, or changes nothing that it speaks of.
LEMMA StepsOfTheTier ==
  ASSUME TypeOK, SoloInv, [Next]_vars, ~overlapped'
  PROVE  [Tier!Next]_(Tier!vars)
<1>0. RowsOK /\ JobsOK
  BY TypeParts
<1>1. ASSUME NEW r \in Request, Arrive(r) \/ Advance(r) \/ Abandon(r)
      PROVE  [Tier!Next]_(Tier!vars)
  <2>0. ~overlapped
    BY <1>1 DEF Arrive, BeginAdd, BeginEnrol, BeginArchive, BeginRestore, Leave, Start, Arrives,
                Advance, AddCount, AddPremium, AddInsert, EnrolInsert, ArchiveCommit,
                RestorePremium, RestoreUsed, RestoreCount, RestoreCommit, Abandon
  <2>1. Alone /\ AllowanceInv
    BY <2>0 DEF SoloInv
  <2>2. Solo(r)
    BY <1>0, <1>1, <2>1, StepsAreSolo
  <2>3. CASE Advance(r)
    <3>1. CASE ArchiveCommit(r)
      <4>1. job[r].circles \in SUBSET Circle /\ ~job'[r].exempt
        BY <1>0, <3>1 DEF ArchiveCommit, Finish, Idle, JobsOK, Job
      <4> QED
        BY <2>2, <3>1, <4>1, ReleaseSteps DEF ArchiveCommit
    <3> QED
      BY <1>0, <2>1, <2>2, <2>3, <3>1, InsertSteps, RestoreSteps, CheckSteps DEF Advance
  <2>4. CASE Abandon(r)
    <3>1. ~job'[r].exempt /\ active' = active /\ used' = used /\ premium' = premium
      BY <1>0, <2>4 DEF Abandon, Finish, Idle, JobsOK, table
    <3> QED
      BY <2>2, <3>1, ReleaseSteps
  <2> QED
    BY <1>0, <1>1, <2>2, <2>3, <2>4, ArriveSteps
<1>2. CASE Forget
  BY <1>2 DEF Forget, Tier!Forget, Tier!Next
<1>3. CASE ChangeSubscription
  BY <1>3 DEF ChangeSubscription, table, Tier!Subscribe, Tier!Next
<1>4. CASE (\E c \in Circle : Age(c)) \/ UNCHANGED vars
  BY <1>4 DEF Age, vars, Tier!vars
<1> QED
  BY <1>1, <1>2, <1>3, <1>4 DEF Next

\* CreateGroup, JoinGroup, RestoreCircles, ArchiveCircles and AddUserToGroup
\* together implement what the free tier promises, for a user whose requests
\* do not overlap and whose subscription comes and goes at any moment: check
\* and write are as good as one indivisible step.
THEOREM GatesImplementFreeTier == Spec => ImplementsFreeTier
<1>1. Init => Tier!Init
  BY DEF Init, Idle, Tier!Init
<1>2. TypeOK /\ SoloInv /\ [Next]_vars => [~overlapped' => Tier!Next]_(Tier!vars)
  BY StepsOfTheTier
<1>3. Spec => [](TypeOK /\ SoloInv)
  BY SoloAlways
<1> QED
  BY <1>1, <1>2, <1>3, PTL DEF Spec, ImplementsFreeTier

-----------------------------------------------------------------------------
(***************************************************************************)
(* The subscription behind `premium'.  The cached row that the checks read *)
(* has a specification of its own, with requests of its own (SyncSubscrip- *)
(* tion): what follows holds of it for any number of them and however long *)
(* the store's log grows.                                                  *)
(***************************************************************************)

(* Subscription: types *)

\* What is written is a row, and an upsert leaves a row.
LEMMA UpsertKeeps ==
  ASSUME CacheTypeOK, NEW new \in Row, new.last # "LEGACY_GRANDFATHER", Upsert(new)
  PROVE  /\ row' \in Row
         /\ row'.last = "LEGACY_GRANDFATHER" => row' = Grandfathered
         /\ row' \in {row, new}
         /\ row.last = "LEGACY_GRANDFATHER" /\ row' # row => row' = new /\ new.premium
  BY DEF CacheTypeOK, Upsert

LEMMA DerivedIsBoolean ==
  ASSUME NEW event \in Event
  PROVE  /\ deriveSubscriptionState(event)[1] \in BOOLEAN
         /\ deriveSubscriptionState(event)[2] \in BOOLEAN
<1> DEFINE has == Entitled(event.after)
<1>1. deriveSubscriptionState(event) \in
        {<<FALSE, FALSE>>, <<TRUE, FALSE>>, <<FALSE, TRUE>>, <<has, FALSE>>, <<has, has>>}
  BY DEF deriveSubscriptionState
<1>2. has \in BOOLEAN
  BY DEF Entitled
<1> HIDE DEF has
<1>3. \E p, w \in BOOLEAN : deriveSubscriptionState(event) = <<p, w>>
  BY <1>1, <1>2, Zenon
<1>4. PICK p \in BOOLEAN, w \in BOOLEAN : deriveSubscriptionState(event) = <<p, w>>
  BY <1>3
<1>5. <<p, w>>[1] = p /\ <<p, w>>[2] = w
  OBVIOUS
<1> QED
  BY <1>4, <1>5

\* The row an event asks for.
EventRow(event) == [premium |-> deriveSubscriptionState(event)[1],
                    renew |-> deriveSubscriptionState(event)[2], last |-> "WEBHOOK"]

LEMMA EventRowOK ==
  ASSUME NEW event \in Event
  PROVE  EventRow(event) \in Row /\ EventRow(event).last = "WEBHOOK"
  BY DerivedIsBoolean DEF EventRow, Row, LastEvent

\* The row a sync asks for.
SyncRow(r) == [premium |-> sync[r].premium, renew |-> sync[r].renew, last |-> "SYNC"]

LEMMA SyncRowOK ==
  ASSUME CacheTypeOK, NEW r \in Sync
  PROVE  SyncRow(r) \in Row /\ SyncRow(r).last = "SYNC"
  BY DEF SyncRow, Row, LastEvent, CacheTypeOK, SyncJob

LEMMA LogGrows ==
  ASSUME CacheTypeOK, NEW event \in Event, log' = Append(log, event)
  PROVE  /\ log' \in Seq(Event) /\ Len(log') = Len(log) + 1
         /\ DOMAIN log = 1..Len(log) /\ DOMAIN log' = 1..(Len(log) + 1)
         /\ \A n \in 1..Len(log) : log'[n] = log[n]
         /\ log'[Len(log) + 1] = event
         /\ Len(log) \in Nat
  BY DEF CacheTypeOK

LEMMA AfterIsLife ==
  ASSUME CacheTypeOK, NEW n \in 0..Len(log)
  PROVE  After(n) \in Life
<1>1. CASE n = 0
  BY <1>1 DEF After, Life
<1>2. CASE n # 0
  <2>1. log[n] \in Event
    BY <1>2 DEF CacheTypeOK
  <2> QED
    BY <1>2, <2>1 DEF After, Event
<1> QED
  BY <1>1, <1>2

\* The two ways the log grows.
LEMMA HappeningsAreEvents ==
  ASSUME CacheTypeOK, Happens \/ HappensUnknown
  PROVE  \E event \in Event :
             /\ log' = Append(log, event)
             /\ IF event.known
                THEN <<After(Len(log)), event.after, event.type>> \in Transition
                ELSE event.after = After(Len(log))
<1>1. CASE Happens
  <2>1. PICK t \in Transition :
          /\ t[1] = After(Len(log))
          /\ log' = Append(log, [type |-> t[3], after |-> t[2], known |-> TRUE])
    BY <1>1 DEF Happens
  <2>2. t = <<t[1], t[2], t[3]>> /\ t[2] \in Life /\ t[3] \in EventType
    BY DEF Transition, Life, EventType
  <2>3. [type |-> t[3], after |-> t[2], known |-> TRUE] \in Event
    BY <2>2 DEF Event
  <2> QED
    BY <2>1, <2>2, <2>3
<1>2. CASE HappensUnknown
  <2>1. After(Len(log)) \in Life
    BY AfterIsLife DEF CacheTypeOK
  <2>2. [type |-> "OTHER", after |-> After(Len(log)), known |-> FALSE] \in Event
    BY <2>1 DEF Event, EventType
  <2> QED
    BY <1>2, <2>2 DEF HappensUnknown
<1> QED
  BY <1>1, <1>2

\* The steps of a sync leave well-formed slots.
LEMMA SyncKeepsTypes ==
  ASSUME CacheTypeOK, NEW r \in Sync,
         SyncFetch(r) \/ SyncUpsert(r) \/ SyncReload(r) \/ SyncAbandon(r)
  PROVE  CacheTypeOK'
<1>0. NoSync \in SyncJob /\ [NoSync EXCEPT !.step = "reload"] \in SyncJob
  BY DEF NoSync, SyncJob, SyncStep
<1>1. CASE SyncFetch(r)
  <2> DEFINE life == After(Len(log))
  <2>1. life \in Life
    BY AfterIsLife DEF CacheTypeOK
  <2>2. [step |-> "upsert", premium |-> Entitled(life) \/ life = "paused",
         renew |-> Renews(life)] \in SyncJob
    BY <2>1 DEF SyncJob, SyncStep, Entitled, Renews
  <2>3. orderly' \in BOOLEAN
    BY <1>1 DEF SyncFetch, CacheTypeOK
  <2>4. sync' \in [Sync -> SyncJob]
    BY <1>1, <2>2 DEF SyncFetch, CacheTypeOK
  <2> QED
    BY <1>1, <2>3, <2>4 DEF SyncFetch, CacheTypeOK
<1>2. CASE SyncUpsert(r)
  <2>1. Upsert(SyncRow(r))
    BY <1>2 DEF SyncUpsert, SyncRow
  <2>2. row' \in Row /\ (row'.last = "LEGACY_GRANDFATHER" => row' = Grandfathered)
    BY <2>1, SyncRowOK, UpsertKeeps
  <2>3. sync' \in [Sync -> SyncJob]
    BY <1>0, <1>2 DEF SyncUpsert, CacheTypeOK
  <2> QED
    BY <1>2, <2>2, <2>3 DEF SyncUpsert, CacheTypeOK, Grandfathered
<1>3. CASE SyncReload(r) \/ SyncAbandon(r)
  BY <1>0, <1>3 DEF SyncReload, SyncAbandon, CacheTypeOK, Grandfathered
<1> QED
  BY <1>1, <1>2, <1>3

LEMMA WebhookKeepsTypes ==
  ASSUME CacheTypeOK, NEW e \in DOMAIN log, Webhook(e)
  PROVE  CacheTypeOK'
<1>1. log[e] \in Event
  BY DEF CacheTypeOK
<1>2. row' \in Row /\ (row'.last = "LEGACY_GRANDFATHER" => row' = Grandfathered)
  <2>1. row' = row \/ Upsert(EventRow(log[e]))
    BY DEF Webhook, Apply, EventRow
  <2>2. CASE row' = row
    BY <2>2 DEF CacheTypeOK
  <2> QED
    BY <1>1, <2>1, <2>2, EventRowOK, UpsertKeeps
<1>3. orderly' \in BOOLEAN
  BY DEF Webhook, CacheTypeOK
<1> QED
  BY <1>2, <1>3 DEF Webhook, CacheTypeOK, Grandfathered

\* The row, the deliveries and the sync are well formed whatever is repeated,
\* reordered or overlaps; the sentinel only ever stands on the grant itself.
THEOREM CacheTypeCorrect == CacheSpec => []CacheTypeOK
<1>1. ASSUME CacheInit PROVE CacheTypeOK
  <2>1. log \in Seq(Event) /\ recorded \subseteq DOMAIN log /\ orderly \in BOOLEAN
    BY <1>1 DEF CacheInit
  <2>2. row \in Row /\ (row.last = "LEGACY_GRANDFATHER" => row = Grandfathered)
    <3>1. /\ NoRow \in Row /\ NoRow.last = "none"
          /\ Grandfathered \in Row
      BY DEF NoRow, Grandfathered, Row, LastEvent
    <3> QED
      BY <1>1, <3>1 DEF CacheInit
  <2>3. sync \in [Sync -> SyncJob]
    BY <1>1 DEF CacheInit, NoSync, SyncJob, SyncStep
  <2> QED
    BY <2>1, <2>2, <2>3 DEF CacheTypeOK
<1>2. CacheTypeOK /\ [CacheNext]_cacheVars => CacheTypeOK'
  <2> SUFFICES ASSUME CacheTypeOK, [CacheNext]_cacheVars PROVE CacheTypeOK'
    OBVIOUS
  <2>1. CASE Happens \/ HappensUnknown
    <3>1. PICK event \in Event : log' = Append(log, event)
      BY <2>1, HappeningsAreEvents
    <3>2. log' \in Seq(Event) /\ recorded' \subseteq DOMAIN log'
      BY <2>1, <3>1, LogGrows DEF Happens, HappensUnknown, CacheTypeOK
    <3> QED
      BY <2>1, <3>2 DEF Happens, HappensUnknown, CacheTypeOK, Grandfathered
  <2>2. CASE UNCHANGED cacheVars
    BY <2>2 DEF cacheVars, CacheTypeOK, Grandfathered
  <2> QED
    BY <2>1, <2>2, WebhookKeepsTypes, SyncKeepsTypes DEF CacheNext
<1> QED
  BY <1>1, <1>2, PTL DEF CacheSpec

-----------------------------------------------------------------------------
(* Subscription: the grant of the migration *)

\* No webhook and no sync takes the grant away or rewrites its sentinel with
\* less than a premium subscription (grandfatherGuard).
THEOREM GrantStands == CacheSpec => GrandfatherKept
<1> DEFINE Kept == row.last = "LEGACY_GRANDFATHER" /\ row' # row =>
                       row'.premium /\ row'.last # "LEGACY_GRANDFATHER"
<1>1. ASSUME CacheTypeOK, CacheNext PROVE Kept
  <2>1. CASE Happens \/ HappensUnknown
    BY <2>1 DEF Happens, HappensUnknown
  <2>2. ASSUME NEW e \in DOMAIN log, Webhook(e) PROVE Kept
    <3>1. log[e] \in Event
      BY <1>1 DEF CacheTypeOK
    <3>2. row' = row \/ Upsert(EventRow(log[e]))
      BY <2>2 DEF Webhook, Apply, EventRow
    <3> QED
      BY <1>1, <3>1, <3>2, EventRowOK, UpsertKeeps
  <2>3. ASSUME NEW r \in Sync,
               \/ SyncFetch(r) \/ SyncUpsert(r)
               \/ SyncReload(r) \/ SyncAbandon(r)
        PROVE  Kept
    <3>1. row' = row \/ Upsert(SyncRow(r))
      BY <2>3 DEF SyncFetch, SyncUpsert, SyncReload, SyncAbandon, SyncRow
    <3> QED
      BY <1>1, <3>1, SyncRowOK, UpsertKeeps
  <2> QED
    BY <1>1, <2>1, <2>2, <2>3 DEF CacheNext
<1>2. CacheTypeOK /\ [CacheNext]_cacheVars => [Kept]_cacheVars
  BY <1>1
<1> QED
  BY <1>2, CacheTypeCorrect, PTL DEF CacheSpec, GrandfatherKept

-----------------------------------------------------------------------------
(* Subscription: the row settles *)

\* Every event says truly what the subscription became.
Truthful ==
    \A e \in DOMAIN log :
        IF log[e].known
        THEN <<After(e - 1), log[e].after, log[e].type>> \in Transition
        ELSE log[e].after = After(e - 1)

\* What is said of the subscription was true after the first k events or later.
Told(p, w, k) ==
    \E j \in k..Len(log) : p = Entitled(After(j)) /\ w = Renews(After(j))

\* While events come in order, those recorded are the first k, and neither the
\* row nor an answer on its way is older than they are.
UpToDate(k) ==
    /\ recorded = 1..k
    /\ row.last # "LEGACY_GRANDFATHER" => Told(row.premium, row.renew, k)
    /\ \A r \in Sync : sync[r].step = "upsert" => Told(sync[r].premium, sync[r].renew, k)

SettleInv == Truthful /\ (orderly => \E k \in 0..Len(log) : UpToDate(k))

\* An event names the state it led to.
LEMMA DerivedIsTrue ==
  ASSUME NEW from, NEW event \in Event, <<from, event.after, event.type>> \in Transition
  PROVE  deriveSubscriptionState(event)
             = <<Entitled(event.after), Renews(event.after)>>
<1>1. \/ event.after = "active" /\ event.type = "OTHER"
      \/ event.after = "lifetime" /\ event.type = "NON_RENEWING_PURCHASE"
      \/ event.after = "cancelled" /\ event.type = "CANCELLATION"
      \/ event.after = "paused" /\ event.type = "SUBSCRIPTION_PAUSED"
      \/ event.after = "expired" /\ event.type = "EXPIRATION"
      \/ event.after = "none" /\ event.type = "OTHER"
  BY DEF Transition
<1> DEFINE h == Entitled(event.after)
<1>2. deriveSubscriptionState(event) =
        CASE event.type = "EXPIRATION"            -> <<FALSE, FALSE>>
          [] event.type = "CANCELLATION"          -> <<TRUE, FALSE>>
          [] event.type = "SUBSCRIPTION_PAUSED"   -> <<FALSE, TRUE>>
          [] event.type = "NON_RENEWING_PURCHASE" -> <<h, FALSE>>
          [] OTHER                                -> <<h, h>>
  BY DEF deriveSubscriptionState
<1>3. CASE event.after = "active" /\ event.type = "OTHER"
  <2>1. h = TRUE /\ Renews(event.after) = TRUE
    BY <1>3 DEF Entitled, Renews
  <2> HIDE DEF h
  <2>2. deriveSubscriptionState(event) = <<h, h>>
    BY <1>2, <1>3
  <2> QED
    BY <2>1, <2>2, Zenon DEF h
<1>4. CASE event.after = "lifetime" /\ event.type = "NON_RENEWING_PURCHASE"
  <2>1. h = TRUE /\ Renews(event.after) = FALSE
    BY <1>4 DEF Entitled, Renews
  <2> HIDE DEF h
  <2>2. deriveSubscriptionState(event) = <<h, FALSE>>
    BY <1>2, <1>4
  <2> QED
    BY <2>1, <2>2, Zenon DEF h
<1>5. CASE event.after = "cancelled" /\ event.type = "CANCELLATION"
  <2>1. h = TRUE /\ Renews(event.after) = FALSE
    BY <1>5 DEF Entitled, Renews
  <2> HIDE DEF h
  <2>2. deriveSubscriptionState(event) = <<TRUE, FALSE>>
    BY <1>2, <1>5
  <2> QED
    BY <2>1, <2>2, Zenon DEF h
<1>6. CASE event.after = "paused" /\ event.type = "SUBSCRIPTION_PAUSED"
  <2>1. h = FALSE /\ Renews(event.after) = TRUE
    BY <1>6 DEF Entitled, Renews
  <2> HIDE DEF h
  <2>2. deriveSubscriptionState(event) = <<FALSE, TRUE>>
    BY <1>2, <1>6
  <2> QED
    BY <2>1, <2>2, Zenon DEF h
<1>7. CASE event.after = "expired" /\ event.type = "EXPIRATION"
  <2>1. h = FALSE /\ Renews(event.after) = FALSE
    BY <1>7 DEF Entitled, Renews
  <2> HIDE DEF h
  <2>2. deriveSubscriptionState(event) = <<FALSE, FALSE>>
    BY <1>2, <1>7
  <2> QED
    BY <2>1, <2>2, Zenon DEF h
<1>8. CASE event.after = "none" /\ event.type = "OTHER"
  <2>1. h = FALSE /\ Renews(event.after) = FALSE
    BY <1>8 DEF Entitled, Renews
  <2> HIDE DEF h
  <2>2. deriveSubscriptionState(event) = <<h, h>>
    BY <1>2, <1>8
  <2> QED
    BY <2>1, <2>2, Zenon DEF h
<1> QED
  BY <1>1, <1>3, <1>4, <1>5, <1>6, <1>7, <1>8

\* A new event leaves true what was true of the events before it.
LEMMA HappeningsSettle ==
  ASSUME CacheTypeOK, SettleInv, Happens \/ HappensUnknown
  PROVE  SettleInv'
<1>1. PICK event \in Event :
        /\ log' = Append(log, event)
        /\ IF event.known
           THEN <<After(Len(log)), event.after, event.type>> \in Transition
           ELSE event.after = After(Len(log))
  BY HappeningsAreEvents
<1>2. /\ Len(log) \in Nat /\ Len(log') = Len(log) + 1
      /\ DOMAIN log = 1..Len(log) /\ DOMAIN log' = 1..(Len(log) + 1)
      /\ \A n \in 1..Len(log) : log'[n] = log[n]
      /\ log'[Len(log) + 1] = event
  BY <1>1, LogGrows
<1>3. \A n \in 0..Len(log) : After(n)' = After(n)
  BY <1>2 DEF After
<1>4. UNCHANGED <<recorded, row, sync, orderly>>
  BY DEF Happens, HappensUnknown
<1>5. Truthful'
  <2> SUFFICES ASSUME NEW e \in DOMAIN log'
               PROVE  IF log'[e].known
                      THEN <<After(e - 1)', log'[e].after, log'[e].type>> \in Transition
                      ELSE log'[e].after = After(e - 1)'
    BY DEF Truthful
  <2>1. CASE e \in DOMAIN log
    <3>1. log'[e] = log[e] /\ After(e - 1)' = After(e - 1)
      BY <1>2, <1>3, <2>1
    <3> QED
      BY <2>1, <3>1 DEF SettleInv, Truthful
  <2>2. CASE e = Len(log) + 1
    <3>1. log'[e] = event /\ e - 1 = Len(log)
      BY <1>2, <2>2
    <3>2. After(e - 1)' = After(Len(log))
      BY <1>2, <1>3, <3>1
    <3> QED
      BY <1>1, <3>1, <3>2
  <2> QED
    BY <1>2, <2>1, <2>2
<1>6. ASSUME NEW p, NEW w, NEW k \in 0..Len(log), Told(p, w, k)
      PROVE  \E j \in k..Len(log') : /\ p = Entitled(After(j)')
                                     /\ w = Renews(After(j)')
  <2>1. PICK j \in k..Len(log) : /\ p = Entitled(After(j))
                                /\ w = Renews(After(j))
    BY <1>6 DEF Told
  <2>2. j \in k..Len(log') /\ After(j)' = After(j)
    BY <1>2, <1>3
  <2> QED
    BY <2>1, <2>2
<1>7. ASSUME NEW k \in 0..Len(log), UpToDate(k)
      PROVE  k \in 0..Len(log') /\ UpToDate(k)'
  <2>1. k \in 0..Len(log')
    BY <1>2
  <2>2. row'.last # "LEGACY_GRANDFATHER" => Told(row.premium, row.renew, k)'
    <3>1. row' = row /\ (row.last # "LEGACY_GRANDFATHER" => Told(row.premium, row.renew, k))
      BY <1>4, <1>7 DEF UpToDate
    <3>2. Told(row.premium, row.renew, k) =>
            \E j \in k..Len(log') : /\ row.premium = Entitled(After(j)')
                                   /\ row.renew = Renews(After(j)')
      BY <1>6
    <3> QED
      BY <3>1, <3>2 DEF Told
  <2>3. ASSUME NEW r \in Sync, sync'[r].step = "upsert"
        PROVE  Told(sync[r].premium, sync[r].renew, k)'
    <3>1. sync' = sync /\ Told(sync[r].premium, sync[r].renew, k)
      BY <1>4, <1>7, <2>3 DEF UpToDate
    <3>2. \E j \in k..Len(log') : /\ sync[r].premium = Entitled(After(j)')
                                  /\ sync[r].renew = Renews(After(j)')
      BY <1>6, <3>1
    <3> QED
      BY <3>1, <3>2 DEF Told
  <2> QED
    BY <1>4, <1>7, <2>1, <2>2, <2>3 DEF UpToDate
<1> QED
  BY <1>4, <1>5, <1>7 DEF SettleInv

\* An event applied in turn leaves the row up to date with it.
LEMMA WebhookSettles ==
  ASSUME CacheTypeOK, SettleInv, NEW e \in DOMAIN log, Webhook(e)
  PROVE  SettleInv'
<1> USE DEF Webhook
<1>1. Len(log) \in Nat /\ DOMAIN log = 1..Len(log) /\ e \in 1..Len(log) /\ log[e] \in Event
  BY DEF CacheTypeOK
<1>2. CASE e \in recorded \/ ~orderly'
  BY <1>2 DEF SettleInv, Truthful, UpToDate, Told, After
<1>3. CASE e \notin recorded /\ orderly'
  <2>1. /\ orderly /\ recorded = 1..(e - 1) /\ ~Straddled /\ recorded' = 1..e
        /\ sync' = sync /\ log' = log
    <3>1. orderly /\ recorded = 1..(e - 1) /\ ~Straddled
      BY <1>3
    <3>2. recorded' = recorded \cup {e} /\ sync' = sync /\ log' = log
      BY <1>3
    <3>3. 1..(e - 1) \cup {e} = 1..e
      BY <1>1
    <3> QED
      BY <3>1, <3>2, <3>3
  <2>2. PICK k \in 0..Len(log) : UpToDate(k)
    BY <2>1 DEF SettleInv
  <2>3. k = e - 1
    <3>1. 1..k = 1..(e - 1)
      BY <2>1, <2>2 DEF UpToDate
    <3>2. k \in 1..k \/ k = 0
      BY <2>2
    <3>3. e - 1 \in 1..(e - 1) \/ e - 1 = 0
      BY <1>1
    <3> QED
      BY <1>1, <3>1, <3>2, <3>3
  <2>4. ASSUME row'.last # "LEGACY_GRANDFATHER"
        PROVE  Told(row'.premium, row'.renew, e)
    <3>1. CASE log[e].known
      <4>1. Upsert(EventRow(log[e]))
        BY <1>3, <3>1 DEF Apply, EventRow
      <4>2. row' = EventRow(log[e])
        BY <1>1, <2>4, <4>1, EventRowOK, UpsertKeeps DEF Upsert
      <4>3. <<After(e - 1), log[e].after, log[e].type>> \in Transition
        BY <3>1 DEF SettleInv, Truthful
      <4>4. deriveSubscriptionState(log[e])
              = <<Entitled(log[e].after), Renews(log[e].after)>>
        BY <1>1, <4>3, DerivedIsTrue
      <4>5. /\ row'.premium = Entitled(log[e].after)
            /\ row'.renew = Renews(log[e].after)
        <5>1. ASSUME NEW p, NEW w, deriveSubscriptionState(log[e]) = <<p, w>>
              PROVE  row'.premium = p /\ row'.renew = w
          BY <4>2, <5>1 DEF EventRow
        <5> QED
          BY <4>4, <5>1
      <4>6. After(e) = log[e].after /\ e \in e..Len(log)
        BY <1>1 DEF After
      <4> QED
        BY <4>5, <4>6 DEF Told
    <3>2. CASE ~log[e].known
      <4>1. row' = row /\ log[e].after = After(e - 1)
        BY <1>3, <3>2 DEF Apply, SettleInv, Truthful
      <4>2. After(e) = After(e - 1)
        BY <1>1, <4>1 DEF After
      <4>3. PICK j \in k..Len(log) :
              /\ row.premium = Entitled(After(j))
              /\ row.renew = Renews(After(j))
        BY <2>2, <2>4, <4>1 DEF UpToDate, Told
      <4>4. CASE j \in e..Len(log)
        BY <4>1, <4>3, <4>4 DEF Told
      <4>5. CASE j = e - 1
        <5>1. e \in e..Len(log)
          BY <1>1
        <5> QED
          BY <4>1, <4>2, <4>3, <4>5, <5>1 DEF Told
      <4> QED
        BY <1>1, <2>3, <4>3, <4>4, <4>5
    <3> QED
      BY <3>1, <3>2
  <2>5. ASSUME NEW r \in Sync PROVE sync[r].step # "upsert"
    BY <2>1 DEF Straddled
  <2>6. UpToDate(e)'
    BY <2>1, <2>4, <2>5 DEF UpToDate, Told, After
  <2>7. Truthful'
    BY <2>1 DEF SettleInv, Truthful, After
  <2> QED
    BY <1>1, <2>1, <2>6, <2>7 DEF SettleInv
<1> QED
  BY <1>2, <1>3

\* A sync is told what is true now, and writes what it was told.
LEMMA SyncSettles ==
  ASSUME CacheTypeOK, SettleInv, NEW r \in Sync,
         SyncFetch(r) \/ SyncUpsert(r) \/ SyncReload(r) \/ SyncAbandon(r)
  PROVE  SettleInv'
<1>1. log' = log /\ recorded' = recorded /\ Truthful' /\ (orderly' => orderly)
  <2>1. log' = log /\ recorded' = recorded /\ (orderly' => orderly)
    <3>1. CASE SyncFetch(r)
      <4>1. orderly' = (orderly /\ After(Len(log)) # "paused")
        BY <3>1 DEF SyncFetch
      <4>2. log' = log /\ recorded' = recorded
        BY <3>1 DEF SyncFetch
      <4> QED
        BY <4>1, <4>2
    <3>2. CASE SyncUpsert(r) \/ SyncReload(r) \/ SyncAbandon(r)
      BY <3>2 DEF SyncUpsert, SyncReload, SyncAbandon
    <3> QED
      BY <3>1, <3>2
  <2>2. Truthful'
    BY <2>1 DEF SettleInv, Truthful, After
  <2> QED
    BY <2>1, <2>2
<1>2. SUFFICES ASSUME orderly', NEW k \in 0..Len(log), UpToDate(k)
               PROVE  UpToDate(k)'
  BY <1>1 DEF SettleInv
<1>3. SUFFICES
        /\ row'.last # "LEGACY_GRANDFATHER" => Told(row'.premium, row'.renew, k)
        /\ \A q \in Sync :
               sync'[q].step = "upsert" => Told(sync'[q].premium, sync'[q].renew, k)
  BY <1>1, <1>2 DEF UpToDate, Told, After
<1>4. NoSync.step = "idle" /\ [NoSync EXCEPT !.step = "reload"].step = "reload"
  BY DEF NoSync
<1>5. CASE SyncFetch(r)
  <2>1. After(Len(log)) # "paused" /\ row' = row
    BY <1>2, <1>5 DEF SyncFetch
  <2>2. /\ sync'[r].premium = Entitled(After(Len(log)))
        /\ sync'[r].renew = Renews(After(Len(log)))
    BY <1>5, <2>1 DEF SyncFetch, CacheTypeOK, Entitled
  <2>3. Told(sync'[r].premium, sync'[r].renew, k)
    <3>1. Len(log) \in k..Len(log)
      BY DEF CacheTypeOK
    <3> QED
      BY <2>2, <3>1 DEF Told
  <2>4. \A q \in Sync : q # r => sync'[q] = sync[q]
    BY <1>5 DEF SyncFetch, CacheTypeOK
  <2> QED
    BY <1>2, <2>1, <2>3, <2>4 DEF UpToDate
<1>6. CASE SyncUpsert(r)
  <2>1. Upsert(SyncRow(r)) /\ sync[r].step = "upsert"
    BY <1>6 DEF SyncUpsert, SyncRow
  <2>2. row' \in {row, SyncRow(r)}
    BY <2>1, SyncRowOK, UpsertKeeps
  <2>3. Told(sync[r].premium, sync[r].renew, k)
    BY <1>2, <2>1 DEF UpToDate
  <2>4. row'.last # "LEGACY_GRANDFATHER" => Told(row'.premium, row'.renew, k)
    BY <1>2, <2>2, <2>3 DEF UpToDate, SyncRow
  <2>5. \A q \in Sync : sync'[q].step = "upsert" => sync'[q] = sync[q]
    BY <1>4, <1>6 DEF SyncUpsert, CacheTypeOK
  <2> QED
    BY <1>2, <2>4, <2>5 DEF UpToDate
<1>7. CASE SyncReload(r) \/ SyncAbandon(r)
  <2>1. row' = row /\ \A q \in Sync : sync'[q].step = "upsert" => sync'[q] = sync[q]
    BY <1>4, <1>7 DEF SyncReload, SyncAbandon, CacheTypeOK
  <2> QED
    BY <1>2, <2>1 DEF UpToDate
<1> QED
  BY <1>5, <1>6, <1>7

\* Events in order, each however often, and sync that none of them overtakes:
\* once all have arrived the row says what the store would
\* (RevenueCatWebhook, SyncSubscription).
THEOREM RowAgreesWithStore == CacheSpec => []RowSettles
<1>1. ASSUME CacheInit PROVE SettleInv
  <2>1. log = <<>> /\ Len(log) = 0 /\ DOMAIN log = {} /\ recorded = 1..0
    BY <1>1 DEF CacheInit
  <2>2. After(0) = "none" /\ 0 \in 0..Len(log)
    BY <2>1 DEF After
  <2>3. NoRow.premium = FALSE /\ NoRow.renew = FALSE
        /\ Grandfathered.last = "LEGACY_GRANDFATHER"
    BY DEF NoRow, Grandfathered
  <2>4. row.last # "LEGACY_GRANDFATHER" => Told(row.premium, row.renew, 0)
    <3>1. ASSUME row = NoRow PROVE Told(row.premium, row.renew, 0)
      <4>1. Entitled("none") = FALSE /\ Renews("none") = FALSE
        BY DEF Entitled, Renews
      <4>2. /\ 0 \in 0..Len(log)
            /\ row.premium = Entitled(After(0))
            /\ row.renew = Renews(After(0))
        BY <2>2, <2>3, <3>1, <4>1
      <4> QED
        BY <4>2 DEF Told
    <3> QED
      BY <1>1, <2>3, <3>1 DEF CacheInit
  <2>5. \A r \in Sync : sync[r].step # "upsert"
    BY <1>1 DEF CacheInit, NoSync
  <2>6. UpToDate(0)
    BY <2>1, <2>4, <2>5 DEF UpToDate
  <2> QED
    BY <2>1, <2>2, <2>6 DEF SettleInv, Truthful
<1>2. CacheTypeOK /\ SettleInv /\ [CacheNext]_cacheVars => SettleInv'
  <2>1. ASSUME SettleInv, UNCHANGED cacheVars PROVE SettleInv'
    BY <2>1 DEF SettleInv, Truthful, UpToDate, Told, After, cacheVars
  <2> QED
    BY <2>1, HappeningsSettle, WebhookSettles, SyncSettles DEF CacheNext
<1>3. ASSUME CacheTypeOK, SettleInv PROVE RowSettles
  <2> SUFFICES ASSUME orderly, recorded = DOMAIN log, row.last # "LEGACY_GRANDFATHER"
               PROVE  /\ row.premium = Entitled(After(Len(log)))
                      /\ row.renew = Renews(After(Len(log)))
    BY DEF RowSettles
  <2>1. PICK k \in 0..Len(log) : UpToDate(k)
    BY <1>3 DEF SettleInv
  <2>2. k = Len(log)
    <3>1. 1..k = 1..Len(log) /\ Len(log) \in Nat
      <4>1. recorded = 1..k
        BY <2>1 DEF UpToDate
      <4>2. DOMAIN log = 1..Len(log) /\ Len(log) \in Nat
        BY <1>3 DEF CacheTypeOK
      <4> QED
        BY <4>1, <4>2
    <3>2. Len(log) \in 1..Len(log) \/ Len(log) = 0
      BY <3>1
    <3> QED
      BY <3>1, <3>2
  <2>3. PICK j \in k..Len(log) :
          row.premium = Entitled(After(j)) /\ row.renew = Renews(After(j))
    BY <2>1 DEF UpToDate, Told
  <2>4. j = Len(log)
    BY <1>3, <2>2, <2>3 DEF CacheTypeOK
  <2> QED
    BY <2>3, <2>4
<1> QED
  BY <1>1, <1>2, <1>3, CacheTypeCorrect, PTL DEF CacheSpec
=============================================================================
