------------------------- MODULE RefreshTokensProofs -------------------------
(***************************************************************************)
(* What holds of the refresh tokens for any number of users, tokens and    *)
(* overlapping requests.                                                   *)
(***************************************************************************)
EXTENDS RefreshTokens, TLAPS

USE NoneAssumption

\* The rows are well formed throughout: nothing is stored, revoked or expired
\* that was not issued, and a refresh under way holds an issued token.
THEOREM TypeCorrect == Spec => []TypeOK
<1>1. Init => TypeOK
  BY DEF Init, TypeOK, Issued, Step
<1>2. TypeOK /\ [Next]_vars => TypeOK'
  <2> SUFFICES ASSUME TypeOK, [Next]_vars
               PROVE  TypeOK'
    OBVIOUS
  <2> USE DEF TypeOK, Issued, Step
  <2>1. ASSUME NEW t \in Token, NEW f \in Family, Login(t, f)
        PROVE  TypeOK'
    BY <2>1 DEF Login, IssueRefreshToken
  <2>2. ASSUME NEW r \in Request, NEW t \in Token, LookupRevoked(r, t)
        PROVE  TypeOK'
    BY <2>2 DEF LookupRevoked, Read, Goto
  <2>3. ASSUME NEW r \in Request, NEW t \in Token, LookupCurrent(r, t)
        PROVE  TypeOK'
    BY <2>3 DEF LookupCurrent, Read, Goto
  <2>4. ASSUME NEW r \in Request, RevokeFamily(r)
        PROVE  TypeOK'
    BY <2>4 DEF RevokeFamily, Return, Goto, FamilyRows
  <2>5. ASSUME NEW r \in Request, RevokePresented(r)
        PROVE  TypeOK'
    BY <2>5 DEF RevokePresented, Goto
  <2>6. ASSUME NEW r \in Request, NEW t \in Token, IssueSuccessor(r, t)
        PROVE  TypeOK'
    BY <2>6 DEF IssueSuccessor, IssueRefreshToken, Return, Goto
  <2>7. ASSUME NEW r \in Request, Abandon(r)
        PROVE  TypeOK'
    BY <2>7 DEF Abandon, Return, Goto
  <2>8. ASSUME NEW t \in Token, RevokeRefreshToken(t)
        PROVE  TypeOK'
    BY <2>8 DEF RevokeRefreshToken
  <2>9. ASSUME NEW t \in Token, Expire(t)
        PROVE  TypeOK'
    BY <2>9 DEF Expire
  <2>10. ASSUME NEW u \in User, DeleteUserTokens(u)
         PROVE  TypeOK'
    BY <2>10 DEF DeleteUserTokens
  <2>11. CASE UNCHANGED vars
    BY <2>11 DEF vars
  <2> QED
    BY <2>1, <2>2, <2>3, <2>4, <2>5, <2>6, <2>7, <2>8, <2>9, <2>10, <2>11
       DEF Next, Refresh
<1> QED
  BY <1>1, <1>2, PTL DEF Spec

-----------------------------------------------------------------------------
\* A token of no further use: its row is revoked, or gone.
Retired(t) == t \notin stored \ revoked

\* Between its UPDATE and its INSERT a refresh holds a token that is retired
\* already; that is what makes RotatedIsRetired inductive.
HeldIsRetired == \A r \in Request : pc[r] = "issue" => Retired(presented[r])

\* No step brings a token back: rows are only inserted for new tokens, and
\* revoked is never reset.
LEMMA RetiredForGood ==
  ASSUME TypeOK, [Next]_vars, NEW t \in Issued, Retired(t)
  PROVE  Retired(t)'
<1> USE DEF Retired
<1>1. CASE \E s \in Token, f \in Family : Login(s, f)
  BY <1>1 DEF Login, IssueRefreshToken
<1>2. CASE \E r \in Request : Refresh(r)
  BY <1>2 DEF Refresh, LookupRevoked, LookupCurrent, Read, RevokeFamily,
              RevokePresented, IssueSuccessor, IssueRefreshToken, Abandon
<1>3. CASE \E s \in Token : RevokeRefreshToken(s) \/ Expire(s)
  BY <1>3 DEF RevokeRefreshToken, Expire
<1>4. CASE \E u \in User : DeleteUserTokens(u)
  BY <1>4 DEF DeleteUserTokens
<1>5. CASE UNCHANGED vars
  BY <1>5 DEF vars
<1> QED
  BY <1>1, <1>2, <1>3, <1>4, <1>5 DEF Next

\* The only step that gives an issued token a parent, or changes its family, is
\* its own issue: on the tokens issued before a step both stay as they are.
LEMMA HistoryKept ==
  ASSUME TypeOK, [Next]_vars, NEW t \in Issued
  PROVE  /\ t \in Issued'
         /\ parent'[t] = parent[t]
         /\ family'[t] = family[t]
<1> USE DEF TypeOK, Issued
<1>1. CASE \E s \in Token, f \in Family : Login(s, f)
  BY <1>1 DEF Login, IssueRefreshToken
<1>2. CASE \E r \in Request : Refresh(r)
  BY <1>2 DEF Refresh, LookupRevoked, LookupCurrent, Read, RevokeFamily,
              RevokePresented, IssueSuccessor, IssueRefreshToken, Abandon
<1>3. CASE \E s \in Token : RevokeRefreshToken(s) \/ Expire(s)
  BY <1>3 DEF RevokeRefreshToken, Expire
<1>4. CASE \E u \in User : DeleteUserTokens(u)
  BY <1>4 DEF DeleteUserTokens
<1>5. CASE UNCHANGED vars
  BY <1>5 DEF vars
<1> QED
  BY <1>1, <1>2, <1>3, <1>4, <1>5 DEF Next

\* The inductive invariant: what was exchanged, and what is about to be.
Rotation == RotatedIsRetired /\ HeldIsRetired

\* However many refreshes overlap, and whichever of their statements fail, a
\* token that was exchanged can never be exchanged again after the exchange.
THEOREM RotatedTokensAreRetired == Spec => []RotatedIsRetired
<1>1. Init => Rotation
  BY DEF Init, Rotation, RotatedIsRetired, HeldIsRetired
<1>2. TypeOK /\ TypeOK' /\ Rotation /\ [Next]_vars => Rotation'
  <2> SUFFICES ASSUME TypeOK, TypeOK', Rotation, [Next]_vars
               PROVE  Rotation'
    OBVIOUS
  <2>1. HeldIsRetired'
    <3> SUFFICES ASSUME NEW r \in Request, pc'[r] = "issue"
                 PROVE  Retired(presented[r])'
      BY DEF HeldIsRetired
    <3>1. CASE pc[r] = "issue" /\ presented'[r] = presented[r]
      <4>1. presented[r] \in Issued /\ Retired(presented[r])
        BY <3>1 DEF TypeOK, Rotation, HeldIsRetired
      <4> QED
        BY <3>1, <4>1, RetiredForGood DEF Retired
    <3>2. CASE RevokePresented(r)
      BY <3>2 DEF RevokePresented, Retired, TypeOK
    <3>3. ~RevokePresented(r) => pc[r] = "issue" /\ presented'[r] = presented[r]
      BY DEF TypeOK, Next, vars, Refresh, Login, LookupRevoked, LookupCurrent,
             Read, RevokeFamily, RevokePresented, IssueSuccessor,
             IssueRefreshToken, Abandon, Return, Goto, RevokeRefreshToken,
             Expire, DeleteUserTokens
    <3> QED
      BY <3>1, <3>2, <3>3
  <2>2. RotatedIsRetired'
    <3> SUFFICES ASSUME NEW t \in Token, parent'[t] # NoToken
                 PROVE  Retired(parent[t])'
      BY DEF RotatedIsRetired, Retired
    <3>1. CASE parent'[t] = parent[t]
      <4>1. parent[t] \in Issued /\ Retired(parent[t])
        BY <3>1 DEF TypeOK, Rotation, RotatedIsRetired, Retired
      <4> QED
        BY <3>1, <4>1, RetiredForGood DEF Retired
    <3>2. CASE parent'[t] # parent[t]
      <4>1. PICK r \in Request : IssueSuccessor(r, t)
        BY <3>2 DEF TypeOK, Next, vars, Refresh, Login, LookupRevoked,
                    LookupCurrent, Read, RevokeFamily, RevokePresented,
                    IssueSuccessor, IssueRefreshToken, Abandon,
                    RevokeRefreshToken, Expire, DeleteUserTokens
      <4>2. /\ presented[r] \in Issued
            /\ parent'[t] = presented[r]
            /\ Retired(presented[r])
        BY <4>1 DEF IssueSuccessor, IssueRefreshToken, TypeOK, Rotation,
                    HeldIsRetired
      <4> QED
        BY <4>2, RetiredForGood DEF Retired
    <3> QED
      BY <3>1, <3>2
  <2> QED
    BY <2>1, <2>2 DEF Rotation
<1>3. Rotation => RotatedIsRetired
  BY DEF Rotation
<1> QED
  BY <1>1, <1>2, <1>3, TypeCorrect, PTL DEF Spec

-----------------------------------------------------------------------------
\* However refreshes overlap, the tokens of a family all come from one login.
THEOREM FamiliesAreLogins == Spec => []FamilyIsOneLogin
<1>1. Init => FamilyIsOneLogin
  BY DEF Init, FamilyIsOneLogin, Issued
<1>2. TypeOK /\ TypeOK' /\ FamilyIsOneLogin /\ [Next]_vars => FamilyIsOneLogin'
  <2> SUFFICES ASSUME TypeOK, TypeOK', FamilyIsOneLogin, [Next]_vars
               PROVE  FamilyIsOneLogin'
    OBVIOUS
  <2>1. \A t \in Issued' : t \in Issued
           \/ \E f \in Family : Login(t, f)
           \/ \E r \in Request : IssueSuccessor(r, t)
    BY DEF TypeOK, Issued, Next, vars, Refresh, Login, LookupRevoked,
           LookupCurrent, Read, RevokeFamily, RevokePresented, IssueSuccessor,
           IssueRefreshToken, Abandon, RevokeRefreshToken, Expire,
           DeleteUserTokens
  <2>2. ASSUME NEW t \in Issued', parent'[t] # NoToken
        PROVE  family'[parent'[t]] = family'[t]
    <3>1. CASE t \in Issued
      <4>1. parent'[t] = parent[t] /\ family'[t] = family[t]
        BY <3>1, HistoryKept
      <4>2. parent[t] \in Issued /\ family[parent[t]] = family[t]
        BY <2>2, <3>1, <4>1 DEF FamilyIsOneLogin, TypeOK, Issued
      <4>3. family'[parent[t]] = family[parent[t]]
        BY <4>2, HistoryKept
      <4> QED
        BY <4>1, <4>2, <4>3
    <3>2. CASE \E f \in Family : Login(t, f)
      BY <2>2, <3>2 DEF Login, IssueRefreshToken, TypeOK, Issued
    <3>3. CASE \E r \in Request : IssueSuccessor(r, t)
      BY <3>3 DEF IssueSuccessor, IssueRefreshToken, TypeOK, Issued
    <3> QED
      BY <2>1, <3>1, <3>2, <3>3
  <2>3. ASSUME NEW s \in Issued', NEW t \in Issued',
               parent'[s] = NoToken, parent'[t] = NoToken,
               family'[s] = family'[t]
        PROVE  s = t
    <3>1. \A x \in Issued' : parent'[x] = NoToken =>
             x \in Issued \/ \E f \in Family : Login(x, f)
      BY <2>1 DEF IssueSuccessor, IssueRefreshToken, TypeOK, Issued
    <3>2. \A x \in Issued', f \in Family :
             Login(x, f) => \A y \in Issued : family'[y] # family'[x]
      BY HistoryKept DEF Login, IssueRefreshToken, TypeOK, Issued
    <3>3. \A x, y \in Issued' : x \notin Issued /\ y \notin Issued => x = y
      BY DEF TypeOK, Issued, Next, vars, Refresh, Login, LookupRevoked,
             LookupCurrent, Read, RevokeFamily, RevokePresented, IssueSuccessor,
             IssueRefreshToken, Abandon, RevokeRefreshToken, Expire,
             DeleteUserTokens
    <3>4. CASE s \in Issued /\ t \in Issued
      BY <2>3, <3>4, HistoryKept DEF FamilyIsOneLogin
    <3> QED
      BY <2>3, <3>1, <3>2, <3>3, <3>4
  <2> QED
    BY <2>2, <2>3 DEF FamilyIsOneLogin
<1> QED
  BY <1>1, <1>2, TypeCorrect, PTL DEF Spec

-----------------------------------------------------------------------------
(* One live token for each family, as long as refreshes do not overlap *)

\* Until refreshes overlap there is one under way at most ...
OneRefresh ==
    ~overlapped => \A q, r \in Request : pc[q] # "idle" /\ pc[r] # "idle" => q = r

\* ... and it holds the family's only live token, then has retired it.
HeldIsLast ==
    ~overlapped =>
        \A r \in Request, f \in Family : family[presented[r]] = f =>
            /\ pc[r] = "revokePresented" => Live(f) \subseteq {presented[r]}
            /\ pc[r] = "issue" => Live(f) = {}

OneLive == OneRefresh /\ HeldIsLast /\ OneLivePerFamily

\* The live tokens of a family grow by a login or by a refresh's last statement.
LEMMA LiveOnlyShrinks ==
  ASSUME TypeOK, [Next]_vars, NEW f \in Family,
         ~ \E t \in Token, g \in Family : Login(t, g),
         ~ \E r \in Request, t \in Token : IssueSuccessor(r, t)
  PROVE  Live(f)' \subseteq Live(f)
<1> USE DEF Live, FamilyRows
<1>1. CASE \E r \in Request : Refresh(r)
  BY <1>1 DEF Refresh, LookupRevoked, LookupCurrent, Read, RevokeFamily,
              RevokePresented, Abandon
<1>2. CASE \E s \in Token : RevokeRefreshToken(s) \/ Expire(s)
  BY <1>2 DEF RevokeRefreshToken, Expire
<1>3. CASE \E u \in User : DeleteUserTokens(u)
  BY <1>3 DEF DeleteUserTokens
<1>4. CASE UNCHANGED vars
  BY <1>4 DEF vars
<1> QED
  BY <1>1, <1>2, <1>3, <1>4 DEF Next

\* A login begins a family nobody holds a token of.
LEMMA LoginBeginsFamily ==
  ASSUME TypeOK, NEW t \in Token, NEW g \in Family, Login(t, g)
  PROVE  /\ t \notin Issued
         /\ Live(g)' \subseteq {t}
         /\ \A f \in Family \ {g} : Live(f)' = Live(f)
         /\ \A s \in Issued : family[s] # g
  BY DEF Login, IssueRefreshToken, Live, FamilyRows, Issued, TypeOK

\* A successor is the one token its refresh adds, to the family it read.
LEMMA SuccessorJoinsFamily ==
  ASSUME TypeOK, NEW r \in Request, NEW t \in Token, IssueSuccessor(r, t)
  PROVE  \A f \in Family :
             Live(f)' \subseteq Live(f) \cup IF f = family[presented[r]] THEN {t} ELSE {}
  BY DEF IssueSuccessor, IssueRefreshToken, Live, FamilyRows, Issued, TypeOK

\* A step that leaves a request where it is, or sends it on.
LEMMA RequestSteps ==
  ASSUME TypeOK, [Next]_vars, NEW r \in Request, pc'[r] # "idle"
  PROVE  \/ pc'[r] = pc[r] /\ presented'[r] = presented[r] /\ pc[r] # "idle"
         \/ \E t \in Token : LookupRevoked(r, t) \/ LookupCurrent(r, t)
         \/ RevokePresented(r)
  BY DEF TypeOK, Next, vars, Refresh, Login, LookupRevoked, LookupCurrent,
         Read, RevokeFamily, RevokePresented, IssueSuccessor,
         IssueRefreshToken, Abandon, Return, Goto, RevokeRefreshToken,
         Expire, DeleteUserTokens

\* The overlap is remembered.
LEMMA OverlapKept ==
  ASSUME TypeOK, [Next]_vars, overlapped
  PROVE  overlapped'
  BY DEF TypeOK, Next, vars, Refresh, Login, LookupRevoked, LookupCurrent,
         Read, RevokeFamily, RevokePresented, IssueSuccessor,
         IssueRefreshToken, Abandon, Return, Goto, RevokeRefreshToken,
         Expire, DeleteUserTokens

LEMMA OneLiveAlways == Spec => []OneLive
<1>1. Init => OneLive
  BY DEF Init, OneLive, OneRefresh, HeldIsLast, OneLivePerFamily, Live, FamilyRows
<1>2. TypeOK /\ TypeOK' /\ OneLive /\ [Next]_vars => OneLive'
  <2> SUFFICES ASSUME TypeOK, TypeOK', OneLive, [Next]_vars, ~overlapped'
               PROVE  OneLive'
    BY DEF OneLive, OneRefresh, HeldIsLast, OneLivePerFamily
  <2>1. ~overlapped
    BY OverlapKept DEF TypeOK
  <2>2. ASSUME NEW q \in Request, NEW t \in Token,
               LookupRevoked(q, t) \/ LookupCurrent(q, t)
        PROVE  \A p \in Request : pc[p] = "idle"
    BY <2>2 DEF LookupRevoked, LookupCurrent, Read
  <2>3. OneRefresh'
    <3> SUFFICES ASSUME NEW q \in Request, NEW r \in Request,
                        pc'[q] # "idle", pc'[r] # "idle"
                 PROVE  q = r
      BY DEF OneRefresh
    <3>1. CASE \E p \in Request, t \in Token : LookupRevoked(p, t) \/ LookupCurrent(p, t)
      BY <2>2, <3>1 DEF LookupRevoked, LookupCurrent, Read, Goto, TypeOK
    <3>2. CASE ~ \E p \in Request, t \in Token : LookupRevoked(p, t) \/ LookupCurrent(p, t)
      <4>1. pc[q] # "idle" /\ pc[r] # "idle"
        BY <3>2, RequestSteps DEF RevokePresented
      <4> QED
        BY <2>1, <4>1 DEF OneLive, OneRefresh
    <3> QED
      BY <3>1, <3>2
  <2>4. HeldIsLast'
    <3> SUFFICES ASSUME NEW r \in Request, NEW f \in Family,
                        family'[presented'[r]] = f,
                        pc'[r] \in {"revokePresented", "issue"}
                 PROVE  /\ pc'[r] = "revokePresented" => Live(f)' \subseteq {presented'[r]}
                        /\ pc'[r] = "issue" => Live(f)' = {}
      BY DEF HeldIsLast
    <3>1. CASE pc'[r] = pc[r] /\ presented'[r] = presented[r] /\ pc[r] # "idle"
      <4>1. presented[r] \in Issued
        BY <3>1 DEF TypeOK
      <4>2. family[presented[r]] = f
        BY <3>1, <4>1, HistoryKept
      <4>3. /\ pc[r] = "revokePresented" => Live(f) \subseteq {presented[r]}
            /\ pc[r] = "issue" => Live(f) = {}
        BY <2>1, <4>2 DEF OneLive, HeldIsLast
      <4>4. Live(f)' \subseteq Live(f)
        <5>1. CASE \E t \in Token, g \in Family : Login(t, g)
          BY <4>1, <4>2, <5>1, LoginBeginsFamily
        <5>2. CASE \E q \in Request, t \in Token : IssueSuccessor(q, t)
          <6>1. PICK q \in Request, t \in Token : IssueSuccessor(q, t)
            BY <5>2
          <6>2. q = r
            BY <2>1, <3>1, <6>1 DEF IssueSuccessor, OneLive, OneRefresh
          <6>3. pc'[r] = "idle"
            BY <6>1, <6>2 DEF IssueSuccessor, Return, Goto, TypeOK
          <6> QED
            BY <6>3
        <5>3. CASE /\ ~ \E t \in Token, g \in Family : Login(t, g)
                   /\ ~ \E q \in Request, t \in Token : IssueSuccessor(q, t)
          BY <5>3, LiveOnlyShrinks
        <5> QED
          BY <5>1, <5>2, <5>3
      <4> QED
        BY <3>1, <4>3, <4>4
    <3>2. CASE \E t \in Token : LookupRevoked(r, t) \/ LookupCurrent(r, t)
      <4>1. PICK t \in Token : LookupRevoked(r, t) \/ LookupCurrent(r, t)
        BY <3>2
      <4>2. LookupCurrent(r, t)
        BY <4>1 DEF LookupRevoked, Read, Goto, TypeOK
      <4>3. /\ pc'[r] = "revokePresented" /\ presented'[r] = t
            /\ t \in Live(f) /\ Live(f)' = Live(f)
        BY <4>2 DEF LookupCurrent, Read, Goto, TypeOK, Live, FamilyRows, Issued
      <4> QED
        BY <2>1, <4>3 DEF OneLive, OneLivePerFamily
    <3>3. CASE RevokePresented(r)
      <4>1. /\ pc'[r] = "issue" /\ presented'[r] = presented[r] /\ family[presented[r]] = f
            /\ pc[r] = "revokePresented" /\ Live(f)' = Live(f) \ {presented[r]}
        BY <3>3 DEF RevokePresented, Goto, TypeOK, Live, FamilyRows
      <4> QED
        BY <2>1, <4>1 DEF OneLive, HeldIsLast
    <3> QED
      BY <3>1, <3>2, <3>3, RequestSteps
  <2>5. OneLivePerFamily'
    <3> SUFFICES ASSUME NEW f \in Family, NEW s \in Live(f)', NEW u \in Live(f)'
                 PROVE  s = u
      BY DEF OneLivePerFamily
    <3>1. \A x, y \in Live(f) : x = y
      BY <2>1 DEF OneLive, OneLivePerFamily
    <3>2. CASE \E t \in Token, g \in Family : Login(t, g)
      BY <3>1, <3>2, LoginBeginsFamily
    <3>3. CASE \E r \in Request, t \in Token : IssueSuccessor(r, t)
      <4>1. PICK r \in Request, t \in Token : IssueSuccessor(r, t)
        BY <3>3
      <4>2. f = family[presented[r]] => Live(f) = {}
        BY <2>1, <4>1 DEF IssueSuccessor, OneLive, HeldIsLast
      <4> QED
        BY <3>1, <4>1, <4>2, SuccessorJoinsFamily
    <3>4. CASE /\ ~ \E t \in Token, g \in Family : Login(t, g)
               /\ ~ \E r \in Request, t \in Token : IssueSuccessor(r, t)
      BY <3>1, <3>4, LiveOnlyShrinks
    <3> QED
      BY <3>2, <3>3, <3>4
  <2> QED
    BY <2>3, <2>4, <2>5 DEF OneLive
<1> QED
  BY <1>1, <1>2, TypeCorrect, PTL DEF Spec

\* Until two refreshes overlap, and whatever else happens between their
\* statements, a family has one token that can be exchanged at most.
THEOREM FamiliesHaveOneLiveToken == Spec => []OneLivePerFamily
<1>1. OneLive => OneLivePerFamily
  BY DEF OneLive
<1> QED
  BY <1>1, OneLiveAlways, PTL

-----------------------------------------------------------------------------
(* The refinement: one refresh at a time keeps the promise of SessionFamilies *)

\* A family that was ended has been begun, and has no live token; a refresh
\* that goes on to exchange its token is of a family that was not ended.
EndedForGood ==
    /\ replayed \subseteq Begun
    /\ ~overlapped =>
           /\ \A f \in replayed : Live(f) = {}
           /\ \A r \in Request : pc[r] \in {"revokePresented", "issue"} =>
                  family[presented[r]] \notin replayed

\* What the promise sees of a family, in the terms of the table.
LEMMA CurrentInIs ==
  ASSUME NEW S, \A s, t \in S : s = t
  PROVE  /\ S = {} => CurrentIn(S) = NoToken
         /\ \A t \in S : CurrentIn(S) = t
<1>1. ASSUME NEW t \in S PROVE CurrentIn(S) = t
  <2>1. (CHOOSE x \in S : TRUE) \in S
    BY <1>1, Zenon
  <2> QED
    BY <1>1, <2>1 DEF CurrentIn
<1> QED
  BY <1>1 DEF CurrentIn

OneLiveEach == \A f \in Family : \A s, t \in Live(f) : s = t

LEMMA LiveIsIssued ==
  ASSUME TypeOK
  PROVE  /\ \A t \in Issued : family[t] \in Family
         /\ \A f \in Family : Live(f) \subseteq Issued
         /\ \A f \in Family : \A t \in Live(f) : family[t] = f
  BY DEF TypeOK, Issued, Live, FamilyRows

LEMMA SpentIs ==
  ASSUME TypeOK
  PROVE  spentSeen \subseteq Issued /\ \A t \in Issued : t \in spentSeen <=> t \notin Live(family[t])
  BY DEF spentSeen, Live, FamilyRows, TypeOK

\* The live tokens of the families F are retired at once.
LEMMA CloseSteps ==
  ASSUME TypeOK, TypeOK', OneLiveEach, NEW F \in SUBSET Family, NEW as,
         UNCHANGED family, OneLiveEach',
         \A f \in Family : Live(f)' = IF f \in F THEN {} ELSE Live(f),
         \A f \in Family : StatusOf(f)' = IF f \in F THEN as ELSE StatusOf(f)
  PROVE  Families!Close(F, as)
<1>1. statusSeen' = [f \in Family |-> IF f \in F THEN as ELSE statusSeen[f]]
  BY DEF statusSeen
<1>2. /\ \A f \in Family : Live(f) = {} => currentSeen[f] = NoToken
      /\ \A f \in Family : \A t \in Live(f) : currentSeen[f] = t
  BY CurrentInIs DEF currentSeen, OneLiveEach
<1>3. \A f \in Family : currentSeen'[f] = IF f \in F THEN NoToken ELSE currentSeen[f]
  BY CurrentInIs DEF currentSeen
<1>4. currentSeen' = [f \in Family |-> IF f \in F THEN NoToken ELSE currentSeen[f]]
  BY <1>3 DEF currentSeen
<1>5. spentSeen' = spentSeen \cup Families!CurrentOf(F)
  <2>1. Families!CurrentOf(F) = UNION {Live(f) : f \in F}
    <3>1. \A f \in Family : Live(f) \subseteq Token
      BY LiveIsIssued DEF Issued
    <3> QED
      BY <1>2, <3>1 DEF Families!CurrentOf
  <2>2. Issued' = Issued
    BY DEF Issued
  <2>3. /\ spentSeen \subseteq Issued
        /\ \A t \in Issued : t \in spentSeen <=> t \notin Live(family[t])
    BY SpentIs
  <2>4. /\ spentSeen' \subseteq Issued
        /\ \A t \in Issued : t \in spentSeen' <=> t \notin Live(family[t])'
    BY <2>2 DEF spentSeen, Live, FamilyRows, TypeOK
  <2>5. \A t \in Issued : t \in spentSeen' <=> t \in spentSeen \/ family[t] \in F
    BY <2>3, <2>4, LiveIsIssued
  <2>6. UNION {Live(f) : f \in F} \subseteq Issued
    BY LiveIsIssued
  <2>7. \A t \in Issued : t \in UNION {Live(f) : f \in F} <=> family[t] \in F /\ t \notin spentSeen
    BY <2>3, LiveIsIssued
  <2> QED
    BY <2>1, <2>3, <2>4, <2>5, <2>6, <2>7
<1> QED
  BY <1>1, <1>4, <1>5 DEF Families!Close

\* A token nobody has seen becomes the live token of a family that had none.
LEMMA OpenSteps ==
  ASSUME TypeOK, TypeOK', OneLiveEach, NEW f \in Family, NEW t \in Token \ Issued, NEW from,
         Live(f) = {}, Live(f)' = {t}, \A g \in Family \ {f} : Live(g)' = Live(g),
         Issued' = Issued \cup {t}, family'[t] = f, \A s \in Issued : family'[s] = family[s],
         StatusOf(f) = from, StatusOf(f)' = "open",
         \A g \in Family \ {f} : StatusOf(g)' = StatusOf(g)
  PROVE  Families!Open(f, t, from)
<1>1. statusSeen[f] = from /\ statusSeen' = [statusSeen EXCEPT ![f] = "open"]
  BY DEF statusSeen
<1>2. /\ \A g \in Family : Live(g) = {} => currentSeen[g] = NoToken
      /\ \A g \in Family : \A s \in Live(g) : currentSeen[g] = s
  BY CurrentInIs DEF currentSeen, OneLiveEach
<1>3. currentSeen' = [currentSeen EXCEPT ![f] = t]
  <2>1. CurrentIn(Live(f)') = t
    BY CurrentInIs
  <2> QED
    BY <2>1 DEF currentSeen
<1>4. spentSeen' = spentSeen
  <2>1. /\ spentSeen \subseteq Issued
        /\ \A s \in Issued : s \in spentSeen <=> s \notin Live(family[s])
    BY SpentIs
  <2>2. /\ spentSeen' \subseteq Issued'
        /\ \A s \in Issued', g \in Family :
               family'[s] = g => (s \in spentSeen' <=> s \notin Live(g)')
    BY DEF spentSeen, Live, FamilyRows, TypeOK
  <2>3. \A s \in Issued : s \in spentSeen' <=> s \in spentSeen
    <3> SUFFICES ASSUME NEW s \in Issued PROVE s \in spentSeen' <=> s \in spentSeen
      OBVIOUS
    <3>1. family[s] \in Family /\ family'[s] = family[s]
      BY LiveIsIssued
    <3> QED
      BY <2>1, <2>2, <3>1
  <2>4. t \notin spentSeen'
    BY <2>2
  <2> QED
    BY <2>1, <2>2, <2>3, <2>4
<1>5. Families!Fresh(t)
  <2>1. t \notin spentSeen
    BY SpentIs
  <2>2. \A g \in Family : currentSeen[g] # t
    <3> SUFFICES ASSUME NEW g \in Family PROVE currentSeen[g] # t
      OBVIOUS
    <3>1. CASE Live(g) = {}
      BY <1>2, <3>1
    <3>2. CASE \E s \in Live(g) : TRUE
      BY <1>2, <3>2, LiveIsIssued
    <3> QED
      BY <3>1, <3>2
  <2> QED
    BY <2>1, <2>2 DEF Families!Fresh
<1> QED
  BY <1>1, <1>3, <1>4, <1>5 DEF Families!Open

LEMMA StatusIs ==
  ASSUME NEW f \in Family
  PROVE  /\ f \in replayed => StatusOf(f) = "ended"
         /\ f \notin replayed /\ Live(f) # {} => StatusOf(f) = "open"
         /\ f \notin replayed /\ Live(f) = {} /\ f \notin Begun => StatusOf(f) = "new"
         /\ f \notin replayed /\ Live(f) = {} /\ f \in Begun => StatusOf(f) = "retired"
  BY DEF StatusOf

\* Rows that are revoked or deleted, and nothing else, retire some families.
LEMMA RetireSteps ==
  ASSUME TypeOK, TypeOK', OneLiveEach, \A f \in replayed : Live(f) = {},
         UNCHANGED <<family, replayed>>,
         \A f \in Family : Live(f)' \subseteq Live(f)
  PROVE  Families!Next
<1> DEFINE F == {f \in Family : Live(f)' # Live(f)}
<1>1. \A f \in F : Live(f) # {} /\ Live(f)' = {} /\ f \notin replayed
  <2> SUFFICES ASSUME NEW f \in F PROVE Live(f) # {} /\ Live(f)' = {} /\ f \notin replayed
    OBVIOUS
  <2>1. \A s, t \in Live(f) : s = t
    BY DEF OneLiveEach
  <2>2. Live(f)' \subseteq Live(f) /\ Live(f)' # Live(f)
    OBVIOUS
  <2> HIDE DEF F
  <2>3. Live(f) # {} /\ Live(f)' = {}
    BY <2>1, <2>2
  <2> QED
    BY <2>3
<1>2. \A f \in F : StatusOf(f) = "open"
  BY <1>1, StatusIs
<1>3. F \subseteq Begun /\ Begun' = Begun
  BY <1>1, LiveIsIssued DEF Issued, Begun
<1>4. \A f \in F : StatusOf(f)' = "retired"
  <2> SUFFICES ASSUME NEW f \in F PROVE StatusOf(f)' = "retired"
    OBVIOUS
  <2>1. /\ f \notin replayed' /\ Live(f)' = {}
        /\ f \in Begun'
    BY <1>1, <1>3
  <2> QED
    BY <2>1 DEF StatusOf
<1>5. \A f \in Family \ F : StatusOf(f)' = StatusOf(f) /\ Live(f)' = Live(f)
  BY <1>3 DEF StatusOf
<1>6. OneLiveEach'
  BY DEF OneLiveEach
<1>7. F \in SUBSET Family
  OBVIOUS
<1> HIDE DEF F
<1>8. Families!Close(F, "retired")
  <2>1. \A f \in Family : Live(f)' = IF f \in F THEN {} ELSE Live(f)
    BY <1>1, <1>5
  <2>2. \A f \in Family : StatusOf(f)' = IF f \in F THEN "retired" ELSE StatusOf(f)
    BY <1>4, <1>5
  <2> QED
    BY <1>6, <1>7, <2>1, <2>2, CloseSteps
<1>9. \A f \in F : statusSeen[f] = "open"
  BY <1>2, <1>7 DEF statusSeen
<1> QED
  BY <1>7, <1>8, <1>9 DEF Families!Retire, Families!Next

\* The INSERT of a login or of a refresh gives a family that has no live token
\* its next one, and changes nothing for the others.
LEMMA IssueSteps ==
  ASSUME TypeOK, TypeOK', OneLiveEach, NEW f \in Family, NEW t \in Token, NEW from \in Token \cup {NoToken},
         IssueRefreshToken(t, f, from), Live(f) = {}, f \notin replayed
  PROVE  Families!Next
<1> USE DEF IssueRefreshToken
<1>1. t \notin Issued /\ family[t] = NoFamily
  BY DEF Issued
<1>2. /\ family'[t] = f
      /\ \A s \in Issued : family'[s] = family[s]
      /\ Issued' = Issued \cup {t}
  BY <1>1 DEF TypeOK, Issued
<1>3. Live(f)' = {t} /\ \A g \in Family \ {f} : Live(g)' = Live(g)
  BY <1>1, <1>2 DEF TypeOK, Live, FamilyRows
<1>4. \A g \in Family : g \in Begun' <=> g \in Begun \/ g = f
  BY <1>1, <1>2 DEF Begun, TypeOK, Issued
<1>5. StatusOf(f)' = "open" /\ \A g \in Family \ {f} : StatusOf(g)' = StatusOf(g)
  BY <1>3, <1>4 DEF StatusOf
<1>6. Families!Open(f, t, StatusOf(f))
  BY <1>1, <1>2, <1>3, <1>5, OpenSteps
<1>7. f \notin Begun => StatusOf(f) = "new"
  BY StatusIs
<1>8. f \in Begun => StatusOf(f) = "retired"
  BY StatusIs
<1> QED
  BY <1>6, <1>7, <1>8 DEF Families!Begin, Families!Renew, Families!Next

LEMMA EndedAlways == Spec => []EndedForGood
<1>1. Init => EndedForGood
  BY DEF Init, EndedForGood
<1>2. TypeOK /\ TypeOK' /\ OneLive /\ EndedForGood /\ [Next]_vars => EndedForGood'
  <2> SUFFICES ASSUME TypeOK, TypeOK', OneLive, EndedForGood, [Next]_vars
               PROVE  EndedForGood'
    OBVIOUS
  <2>1. replayed' \subseteq Begun'
    <3>1. \A f \in Begun : f \in Family => f \in Begun'
      BY HistoryKept DEF Begun, TypeOK, Issued
    <3>2. \A f \in replayed' : f \in replayed \/ f \in Begun
      BY DEF TypeOK, Next, vars, Refresh, Login, LookupRevoked, LookupCurrent,
             Read, RevokeFamily, RevokePresented, IssueSuccessor, Begun, Issued,
             IssueRefreshToken, Abandon, Return, Goto, RevokeRefreshToken,
             Expire, DeleteUserTokens
    <3> QED
      BY <3>1, <3>2 DEF EndedForGood, TypeOK
  <2> SUFFICES ASSUME ~overlapped'
               PROVE  /\ \A f \in replayed' : Live(f)' = {}
                      /\ \A r \in Request : pc'[r] \in {"revokePresented", "issue"} =>
                             family'[presented'[r]] \notin replayed'
    BY <2>1 DEF EndedForGood
  <2>2. ~overlapped
    BY OverlapKept DEF TypeOK
  <2>3. /\ \A f \in replayed : f \in Begun /\ Live(f) = {}
        /\ \A r \in Request : pc[r] \in {"revokePresented", "issue"} =>
               family[presented[r]] \notin replayed
    BY <2>2 DEF EndedForGood
  <2>4. \A q, r \in Request : pc[q] # "idle" /\ pc[r] # "idle" => q = r
    BY <2>2 DEF OneLive, OneRefresh
  <2>5. ASSUME NEW r \in Request, pc'[r] \in {"revokePresented", "issue"}
        PROVE  family'[presented'[r]] \notin replayed'
    <3>1. CASE pc'[r] = pc[r] /\ presented'[r] = presented[r] /\ pc[r] # "idle"
      <4>1. presented[r] \in Issued /\ family'[presented[r]] = family[presented[r]]
        BY <3>1, HistoryKept DEF TypeOK
      <4>2. replayed' = replayed
        BY <2>4, <2>5, <3>1 DEF TypeOK, Next, vars, Refresh, Login, LookupRevoked, LookupCurrent,
             Read, RevokeFamily, RevokePresented, IssueSuccessor,
             IssueRefreshToken, Abandon, Return, Goto, RevokeRefreshToken,
             Expire, DeleteUserTokens
      <4> QED
        BY <2>3, <2>5, <3>1, <4>1, <4>2
    <3>2. CASE \E t \in Token : LookupRevoked(r, t) \/ LookupCurrent(r, t)
      <4>1. PICK t \in Token : LookupRevoked(r, t) \/ LookupCurrent(r, t)
        BY <3>2
      <4>2. LookupCurrent(r, t)
        BY <2>5, <4>1 DEF LookupRevoked, Read, Goto, TypeOK
      <4>3. presented'[r] = t /\ t \in Live(family[t]) /\ UNCHANGED <<family, replayed>>
        BY <4>2 DEF LookupCurrent, Read, TypeOK, Live, FamilyRows
      <4> QED
        BY <2>3, <4>3
    <3>3. CASE RevokePresented(r)
      BY <2>3, <3>3 DEF RevokePresented
    <3> QED
      BY <2>5, <3>1, <3>2, <3>3, RequestSteps
  <2>6. ASSUME NEW f \in replayed'
        PROVE  Live(f)' = {}
    <3>1. CASE \E r \in Request : RevokeFamily(r)
      BY <2>3, <3>1 DEF RevokeFamily, Live, FamilyRows, TypeOK
    <3>2. CASE ~ \E r \in Request : RevokeFamily(r)
      <4>1. f \in replayed /\ f \in Family
        BY <3>2 DEF TypeOK, Next, vars, Refresh, Login, LookupRevoked, LookupCurrent,
             Read, RevokePresented, IssueSuccessor,
             IssueRefreshToken, Abandon, RevokeRefreshToken,
             Expire, DeleteUserTokens
      <4>2. Live(f) = {}
        BY <2>3, <4>1
      <4>3. CASE \E t \in Token, g \in Family : Login(t, g)
        <5>1. PICK t \in Token, g \in Family : Login(t, g)
          BY <4>3
        <5>2. f # g
          BY <2>3, <4>1, <5>1 DEF Login, Begun
        <5> QED
          BY <4>1, <4>2, <5>1, <5>2, LoginBeginsFamily
      <4>4. CASE \E r \in Request, t \in Token : IssueSuccessor(r, t)
        <5>1. PICK r \in Request, t \in Token : IssueSuccessor(r, t)
          BY <4>4
        <5>2. f # family[presented[r]]
          BY <2>3, <4>1, <5>1 DEF IssueSuccessor
        <5> QED
          BY <4>1, <4>2, <5>1, <5>2, SuccessorJoinsFamily
      <4>5. CASE /\ ~ \E t \in Token, g \in Family : Login(t, g)
                 /\ ~ \E r \in Request, t \in Token : IssueSuccessor(r, t)
        BY <4>1, <4>2, <4>5, LiveOnlyShrinks
      <4> QED
        BY <4>3, <4>4, <4>5
    <3> QED
      BY <3>1, <3>2
  <2> QED
    BY <2>5, <2>6
<1> QED
  BY <1>1, <1>2, TypeCorrect, OneLiveAlways, PTL DEF Spec

\* Until refreshes overlap, every statement of a handler is a step of the promise
\* or none at all: a login begins a family, the UPDATE of a refresh, a logout and
\* an account deletion retire what was live, the INSERT of a refresh renews the
\* family it retired, and the UPDATE of a reuse ends it.
THEOREM RotationImplementsFamilies == Spec => ImplementsFamilies
<1>1. Init => Families!Init
  <2> SUFFICES ASSUME Init PROVE Families!Init
    OBVIOUS
  <2>1. Begun \cap Family = {} /\ Issued = {} /\ \A f \in Family : Live(f) = {}
    BY DEF Init, Begun, Issued, Live, FamilyRows
  <2>2. \A f \in Family : StatusOf(f) = "new" /\ CurrentIn(Live(f)) = NoToken
    BY <2>1 DEF Init, StatusOf, CurrentIn
  <2> QED
    BY <2>1, <2>2 DEF Families!Init, statusSeen, currentSeen, spentSeen
<1>2. TypeOK /\ TypeOK' /\ OneLive /\ EndedForGood /\ [Next]_vars
         => [~overlapped' => Families!Next]_(Families!vars)
  <2> SUFFICES ASSUME TypeOK, TypeOK', OneLive, EndedForGood, [Next]_vars, ~overlapped'
               PROVE  Families!Next \/ UNCHANGED Families!vars
    BY Zenon
  <2>1. ~overlapped
    BY OverlapKept DEF TypeOK
  <2>2. /\ OneLiveEach
        /\ replayed \subseteq Begun
        /\ \A f \in replayed : Live(f) = {}
        /\ \A r \in Request : pc[r] \in {"revokePresented", "issue"} =>
               family[presented[r]] \notin replayed
        /\ \A r \in Request : pc[r] = "issue" => Live(family[presented[r]]) = {}
    <3>1. \A r \in Request : pc[r] = "issue" => family[presented[r]] \in Family
      BY DEF TypeOK, Issued
    <3> QED
      BY <2>1, <3>1 DEF OneLive, OneLivePerFamily, OneLiveEach, EndedForGood, HeldIsLast
  <2>3. ASSUME NEW t \in Token, NEW f \in Family, Login(t, f)
        PROVE  Families!Next
    <3>1. f \notin Begun /\ f \notin replayed /\ Live(f) = {}
      BY <2>2, <2>3 DEF Login, Begun, Live, FamilyRows, TypeOK, Issued
    <3> QED
      BY <2>2, <2>3, <3>1, IssueSteps DEF Login
  <2>4. ASSUME NEW r \in Request, NEW t \in Token, IssueSuccessor(r, t)
        PROVE  Families!Next
    <3>1. presented[r] \in Token /\ family[presented[r]] \in Family
      BY <2>4 DEF IssueSuccessor, TypeOK, Issued
    <3>2. /\ family[presented[r]] \in Begun
          /\ family[presented[r]] \notin replayed
          /\ Live(family[presented[r]]) = {}
      BY <2>2, <2>4, <3>1 DEF IssueSuccessor, Begun
    <3> QED
      BY <2>2, <2>4, <3>1, <3>2, IssueSteps DEF IssueSuccessor
  <2>5. ASSUME NEW r \in Request, RevokeFamily(r)
        PROVE  Families!Next
    <3>1. PICK f \in Family : f = family[presented[r]] /\ f \in Begun
      BY <2>5 DEF RevokeFamily, TypeOK, Issued, Begun
    <3>2. /\ UNCHANGED family /\ replayed' = replayed \cup {f} /\ Live(f)' = {}
          /\ \A g \in Family \ {f} : Live(g)' = Live(g)
      BY <2>5, <3>1 DEF RevokeFamily, Live, FamilyRows, TypeOK
    <3>3. Begun' = Begun
      BY <3>2 DEF Begun
    <3>4. StatusOf(f)' = "ended" /\ \A g \in Family \ {f} : StatusOf(g)' = StatusOf(g)
      BY <3>2, <3>3 DEF StatusOf
    <3>5. OneLiveEach'
      BY <2>2, <3>1, <3>2 DEF OneLiveEach
    <3>6. Families!Close({f}, "ended")
      <4>1. {f} \in SUBSET Family
        BY <3>1
      <4>2. \A g \in Family : Live(g)' = IF g \in {f} THEN {} ELSE Live(g)
        BY <3>2
      <4>3. \A g \in Family : StatusOf(g)' = IF g \in {f} THEN "ended" ELSE StatusOf(g)
        BY <3>4
      <4> QED
        BY <2>2, <3>2, <3>5, <4>1, <4>2, <4>3, CloseSteps
    <3>7. statusSeen[f] # "new"
      BY <3>1 DEF statusSeen, StatusOf
    <3> QED
      BY <3>1, <3>6, <3>7 DEF Families!End, Families!Next
  <2>6. ASSUME NEW r \in Request, RevokePresented(r)
        PROVE  Families!Next
    <3>1. UNCHANGED <<family, replayed>> /\ \A f \in Family : Live(f)' \subseteq Live(f)
      BY <2>6 DEF RevokePresented, Live, FamilyRows
    <3> QED
      BY <2>2, <3>1, RetireSteps
  <2>7. ASSUME NEW t \in Token, RevokeRefreshToken(t)
        PROVE  Families!Next
    <3>1. UNCHANGED <<family, replayed>> /\ \A f \in Family : Live(f)' \subseteq Live(f)
      BY <2>7 DEF RevokeRefreshToken, Live, FamilyRows
    <3> QED
      BY <2>2, <3>1, RetireSteps
  <2>8. ASSUME NEW u \in User, DeleteUserTokens(u)
        PROVE  Families!Next
    <3>1. UNCHANGED <<family, replayed>> /\ \A f \in Family : Live(f)' \subseteq Live(f)
      BY <2>8 DEF DeleteUserTokens, Live, FamilyRows
    <3> QED
      BY <2>2, <3>1, RetireSteps
  <2>9. ASSUME UNCHANGED <<stored, family, revoked, replayed>>
        PROVE  UNCHANGED Families!vars
    BY <2>9 DEF Families!vars, statusSeen, currentSeen, spentSeen, StatusOf,
                Live, FamilyRows, Issued, Begun
  <2>10. \/ \E t \in Token, f \in Family : Login(t, f)
         \/ \E r \in Request, t \in Token : IssueSuccessor(r, t)
         \/ \E r \in Request : RevokeFamily(r) \/ RevokePresented(r)
         \/ \E t \in Token : RevokeRefreshToken(t)
         \/ \E u \in User : DeleteUserTokens(u)
         \/ UNCHANGED <<stored, family, revoked, replayed>>
    BY DEF Next, Refresh, LookupRevoked, LookupCurrent, Read, Abandon, Expire, vars
  <2> QED
    BY <2>3, <2>4, <2>5, <2>6, <2>7, <2>8, <2>9, <2>10
<1> QED
  BY <1>1, <1>2, TypeCorrect, OneLiveAlways, EndedAlways, PTL DEF Spec, ImplementsFamilies
=============================================================================
