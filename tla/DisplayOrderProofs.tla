-------------------------- MODULE DisplayOrderProofs ---------------------------
(***************************************************************************)
(* What holds of the order of a list for any rows and any number of        *)
(* concurrent requests.                                                    *)
(***************************************************************************)
EXTENDS DisplayOrder, FiniteSetTheorems, TLAPS

USE ItemAssumption, PlaceAssumption

-----------------------------------------------------------------------------
(* Lists, apart from the state: R is a set of rows and h their positions *)

Apart(R, h) == \A x, y \in R : h[x] = h[y] => x = y

\* The rows of R stand in the order in which b has them; `atEnd' says from
\* which side.
InOrder(atEnd, b, R, h) ==
    \A m, n \in DOMAIN b : m < n /\ b[m] \in R /\ b[n] \in R =>
        IF atEnd THEN h[b[m]] < h[b[n]] ELSE h[b[m]] > h[b[n]]

\* No row of R is where, or beyond where, a new row goes.
Free(atEnd, R, h, p) == \A i \in R : IF atEnd THEN h[i] < p ELSE p = 0 /\ h[i] > 0

\* The rows a plan leaves as they are.
Unplanned(P, R) == {i \in R : \A w \in P : w[1] # i}

\* What is left of a plan gives the rows positions that differ from each other
\* and from those of the rows it is done with.
Rewriting(P, R, h) ==
    /\ \A v, w \in P : v[2] = w[2] => v = w
    /\ \A w \in P : w[1] \in R
    /\ Apart(Unplanned(P, R), h)
    /\ \A i \in Unplanned(P, R), w \in P : h[i] # w[2]

\* The positions once what is left of a plan is written.
Target(P, h) ==
    [i \in Item |-> IF \E w \in P : w[1] = i THEN (CHOOSE w \in P : w[1] = i)[2] ELSE h[i]]

\* The rows V are at 0 .. n - 1, in the order of the positions in B.
Contiguous(B, V, h) ==
    /\ {h[i] : i \in V} = 0 .. Cardinality(V) - 1
    /\ Apart(V, h)
    /\ \A v, w \in B : v[2] < w[2] => h[v[1]] < h[w[1]]

\* What is left of a renumbering ends with the rows V contiguous, in the
\* order B found them in; the rows it has not come to are as B found them.
Numbers(P, B, V, h) ==
    /\ \A w \in P : w[1] \in V /\ <<w[1], h[w[1]]>> \in B
    /\ \A v, w \in P : v[1] = w[1] => v = w
    /\ \A v, w \in B : v[1] = w[1] => v = w
    /\ \A w \in B : w[1] \in V
    /\ Contiguous(B, V, Target(P, h))

-----------------------------------------------------------------------------
(* Lemmas about lists *)

Positions == [Item -> Nat]

LEMMA ApartFewer ==
  ASSUME NEW R, NEW S \in SUBSET R, NEW h, NEW k, \A i \in S : k[i] = h[i], Apart(R, h)
  PROVE  Apart(S, k)
  BY DEF Apart

LEMMA InOrderFewer ==
  ASSUME NEW e \in BOOLEAN, NEW b, NEW R, NEW S \in SUBSET R, NEW h, NEW k,
         \A i \in S : k[i] = h[i], InOrder(e, b, R, h)
  PROVE  InOrder(e, b, S, k)
  BY DEF InOrder

LEMMA NothingInOrder ==
  ASSUME NEW e \in BOOLEAN, NEW R, NEW h
  PROVE  InOrder(e, << >>, R, h)
  BY DEF InOrder

\* A shift keeps positions apart and in order.
LEMMA Shifted ==
  ASSUME NEW e \in BOOLEAN, NEW b, NEW R \in SUBSET Item, NEW h \in Positions,
         NEW k \in Positions, \A i \in R : k[i] = h[i] + 1
  PROVE  /\ Apart(R, h) => Apart(R, k)
         /\ InOrder(e, b, R, h) => InOrder(e, b, R, k)
         /\ Free(FALSE, R, k, 0)
<1>1. \A i \in R : h[i] \in Nat /\ k[i] \in Nat
  BY DEF Positions
<1> QED
  BY <1>1 DEF Apart, InOrder, Free

\* A row that goes where room was made for it.
LEMMA Placed ==
  ASSUME NEW e \in BOOLEAN, NEW b \in Seq(Item), NEW R \in SUBSET Item, NEW i \in Item \ R,
         NEW h \in Positions, NEW p \in Nat, Free(e, R, h, p),
         Apart(R, h), InOrder(e, b, R, h), \A n \in DOMAIN b : b[n] # i
  PROVE  /\ Apart(R \cup {i}, [h EXCEPT ![i] = p])
         /\ InOrder(e, Append(b, i), R \cup {i}, [h EXCEPT ![i] = p])
<1> DEFINE k == [h EXCEPT ![i] = p]
           c == Append(b, i)
<1>1. k[i] = p /\ \A x \in R : k[x] = h[x] /\ h[x] \in Nat
  BY DEF Positions
<1>2. /\ DOMAIN b = 1 .. Len(b) /\ DOMAIN c = 1 .. Len(b) + 1 /\ Len(b) \in Nat
      /\ c[Len(b) + 1] = i /\ \A n \in DOMAIN b : c[n] = b[n]
  OBVIOUS
<1>3. \A x \in R : IF e THEN h[x] < p ELSE p < h[x]
  BY <1>1 DEF Free
<1> HIDE DEF k, c
<1>4. Apart(R \cup {i}, k)
  <2> SUFFICES ASSUME NEW x \in R \cup {i}, NEW y \in R \cup {i}, k[x] = k[y], x # y
               PROVE  FALSE
    BY DEF Apart
  <2>1. x \in R => y # i
    BY <1>1, <1>3
  <2>2. y \in R => x # i
    BY <1>1, <1>3
  <2> QED
    BY <2>1, <2>2, <1>1 DEF Apart
<1>5. InOrder(e, c, R \cup {i}, k)
  <2> SUFFICES ASSUME NEW m \in DOMAIN c, NEW n \in DOMAIN c, m < n,
                      c[m] \in R \cup {i}, c[n] \in R \cup {i}
               PROVE  IF e THEN k[c[m]] < k[c[n]] ELSE k[c[m]] > k[c[n]]
    BY DEF InOrder
  <2>1. m \in DOMAIN b /\ c[m] = b[m] /\ c[m] \in R
    BY <1>2
  <2>2. CASE n \in DOMAIN b
    <3>1. c[n] = b[n] /\ c[n] \in R
      BY <2>2, <1>2
    <3>2. IF e THEN h[c[m]] < h[c[n]] ELSE h[c[m]] > h[c[n]]
      BY <2>1, <2>2, <3>1 DEF InOrder
    <3> QED
      BY <3>1, <3>2, <2>1, <1>1
  <2>3. CASE n = Len(b) + 1
    BY <2>1, <2>3, <1>1, <1>2, <1>3
  <2> QED
    BY <2>2, <2>3, <1>2
<1> QED
  BY <1>4, <1>5 DEF k, c

\* One UPDATE of a plan; after the last, the plan's positions are the rows'.
LEMMA Rewritten ==
  ASSUME NEW P \in SUBSET (Item \X Nat), NEW R \in SUBSET Item, NEW h \in Positions,
         NEW w \in P, Rewriting(P, R, h)
  PROVE  /\ w[1] \in R
         /\ Rewriting(P \ {w}, R, [h EXCEPT ![w[1]] = w[2]])
         /\ P = {w} => Apart(R, [h EXCEPT ![w[1]] = w[2]])
<1> DEFINE k == [h EXCEPT ![w[1]] = w[2]]
           Q == P \ {w}
<1>1. w[1] \in R /\ k[w[1]] = w[2] /\ \A i \in Item : i # w[1] => k[i] = h[i]
  BY DEF Rewriting, Positions
<1>2. \A i \in Unplanned(Q, R) : i # w[1] => i \in Unplanned(P, R)
  BY DEF Unplanned
<1>3. \A i \in Unplanned(P, R) : i # w[1] /\ h[i] # w[2]
  BY DEF Unplanned, Rewriting
<1> HIDE DEF k
<1>4. Apart(Unplanned(Q, R), k)
  <2> SUFFICES ASSUME NEW x \in Unplanned(Q, R), NEW y \in Unplanned(Q, R), k[x] = k[y], x # y
               PROVE  FALSE
    BY DEF Apart
  <2>1. x \in Item /\ y \in Item
    BY DEF Unplanned
  <2>2. CASE x = w[1]
    BY <2>1, <2>2, <1>1, <1>2, <1>3
  <2>3. CASE y = w[1]
    BY <2>1, <2>3, <1>1, <1>2, <1>3
  <2>4. CASE x # w[1] /\ y # w[1]
    <3>1. h[x] = h[y]
      BY <2>1, <2>4, <1>1
    <3> QED
      BY <3>1, <2>4, <1>2 DEF Rewriting, Apart
  <2> QED
    BY <2>2, <2>3, <2>4
<1>5. \A i \in Unplanned(Q, R), v \in Q : k[i] # v[2]
  <2> TAKE i \in Unplanned(Q, R), v \in Q
  <2>1. i \in Item
    BY DEF Unplanned
  <2>2. CASE i = w[1]
    BY <2>2, <1>1 DEF Rewriting
  <2>3. CASE i # w[1]
    BY <2>1, <2>3, <1>1, <1>2 DEF Rewriting
  <2> QED
    BY <2>2, <2>3
<1>6. Rewriting(Q, R, k)
  BY <1>4, <1>5 DEF Rewriting
<1>7. P = {w} => Unplanned(Q, R) = R
  BY DEF Unplanned
<1> QED
  BY <1>1, <1>4, <1>6, <1>7 DEF k

\* A whole plan with positions of its own.
LEMMA RewritingStarts ==
  ASSUME NEW P, NEW R, NEW h, {w[1] : w \in P} = R, \A v, w \in P : v[2] = w[2] => v = w
  PROVE  Rewriting(P, R, h)
<1>1. Unplanned(P, R) = {}
  BY DEF Unplanned
<1>2. \A w \in P : w[1] \in R
  OBVIOUS
<1> QED
  BY <1>1, <1>2 DEF Rewriting, Apart

\* One UPDATE of a renumbering, or none for a row that is at its index.
LEMMA Numbered ==
  ASSUME NEW P \in SUBSET (Item \X Nat), NEW B \in SUBSET (Item \X Nat), NEW V \in SUBSET Item,
         NEW h \in Positions, NEW w \in P, NEW k, Numbers(P, B, V, h),
         k = IF w \notin B THEN [h EXCEPT ![w[1]] = w[2]] ELSE h
  PROVE  /\ Target(P \ {w}, k) = Target(P, h)
         /\ Numbers(P \ {w}, B, V, k)
<1> DEFINE Q == P \ {w}
<1>1. w \in Item \X Nat /\ w = <<w[1], w[2]>> /\ w[1] \in Item /\ w[2] \in Nat
  OBVIOUS
<1>2. w \in B => h[w[1]] = w[2]
  <2> SUFFICES ASSUME w \in B PROVE h[w[1]] = w[2]
    OBVIOUS
  <2> DEFINE u == <<w[1], h[w[1]]>>
  <2>1. u \in B /\ u[1] = w[1] /\ u[2] = h[w[1]]
    BY DEF Numbers
  <2>2. u = w
    BY <2>1 DEF Numbers
  <2> QED
    BY <2>1, <2>2
<1>3. k[w[1]] = w[2] /\ \A i \in Item : i # w[1] => k[i] = h[i]
  BY <1>1, <1>2 DEF Positions
<1>4. \A v \in P : v[1] = w[1] => v = w
  BY DEF Numbers
<1>5. \A i \in Item : Target(Q, k)[i] = Target(P, h)[i]
  <2> TAKE i \in Item
  <2>1. CASE i = w[1]
    <3>1. ~ \E v \in Q : v[1] = i
      BY <2>1, <1>4
    <3>2. (CHOOSE v \in P : v[1] = i) = w
      BY <2>1, <1>4
    <3> QED
      BY <2>1, <3>1, <3>2, <1>3 DEF Target
  <2>2. CASE i # w[1]
    <3>1. \A v : (v \in Q /\ v[1] = i) <=> (v \in P /\ v[1] = i)
      BY <2>2
    <3>2. (CHOOSE v \in Q : v[1] = i) = (CHOOSE v \in P : v[1] = i)
      BY <3>1
    <3> QED
      BY <2>2, <3>1, <3>2, <1>3 DEF Target
  <2> QED
    BY <2>1, <2>2
<1>6. Target(Q, k) = Target(P, h)
  BY <1>5 DEF Target
<1>7. \A v \in Q : v[1] # w[1] /\ v[1] \in Item
  BY <1>4
<1>8. \A v \in Q : v[1] \in V /\ <<v[1], k[v[1]]>> \in B
  <2> TAKE v \in Q
  <2>1. v[1] \in V /\ <<v[1], h[v[1]]>> \in B
    BY DEF Numbers
  <2>2. k[v[1]] = h[v[1]]
    BY <1>3, <1>7
  <2> QED
    BY <2>1, <2>2
<1>9. \A v, u \in Q : v[1] = u[1] => v = u
  BY DEF Numbers
<1> QED
  BY <1>6, <1>8, <1>9 DEF Numbers

\* The orders in which the rows may be read number them 0 .. n - 1: one that
\* does not repeat an index leaves none out.
LEMMA IndicesUsed ==
  ASSUME NEW V \in SUBSET Item, NEW f \in [V -> 0 .. Cardinality(V) - 1],
         \A x, y \in V : f[x] = f[y] => x = y
  PROVE  {f[i] : i \in V} = 0 .. Cardinality(V) - 1
<1> DEFINE N == 0 .. Cardinality(V) - 1
<1>1. IsFiniteSet(V) /\ Cardinality(V) \in Nat
  BY FS_Subset, FS_CardinalityType
<1>2. IsFiniteSet(N) /\ Cardinality(N) = Cardinality(V)
  BY <1>1, FS_Interval
<1>3. f \in Injection(V, N)
  BY DEF Injection, IsInjective
<1>4. f \in Surjection(V, N)
  BY <1>2, <1>3, FS_Injection
<1> QED
  BY <1>4 DEF Surjection

Pairs(V, h) == {<<i, h[i]>> : i \in V}

\* What a renumbering sets out with: f is the order the rows were read in.
LEMMA NumbersStart ==
  ASSUME NEW V \in SUBSET Item, NEW h \in Positions, NEW f \in [V -> 0 .. Cardinality(V) - 1],
         \A x, y \in V : (f[x] = f[y] => x = y) /\ (h[x] < h[y] => f[x] < f[y]),
         NEW P, P = Pairs(V, f), NEW B, B = Pairs(V, h)
  PROVE  /\ Numbers(P, B, V, h)
         /\ \A i \in V : Target(P, h)[i] = f[i]
<1>1. \A w \in P : w[1] \in V /\ w = <<w[1], f[w[1]]>> /\ w[2] = f[w[1]]
  BY DEF Pairs
<1>2. \A w \in B : w[1] \in V /\ w = <<w[1], h[w[1]]>> /\ w[2] = h[w[1]]
  BY DEF Pairs
<1>3. \A i \in V : <<i, f[i]>> \in P /\ <<i, h[i]>> \in B
  BY DEF Pairs
<1>4. \A i \in V : Target(P, h)[i] = f[i]
  <2> TAKE i \in V
  <2>1. \A w \in P : w[1] = i => w = <<i, f[i]>>
    BY <1>1
  <2>2. <<i, f[i]>> \in P /\ <<i, f[i]>>[1] = i /\ <<i, f[i]>>[2] = f[i]
    BY <1>3
  <2>3. (CHOOSE w \in P : w[1] = i) = <<i, f[i]>>
    BY <2>1, <2>2
  <2> QED
    BY <2>2, <2>3 DEF Target
<1>5. {Target(P, h)[i] : i \in V} = 0 .. Cardinality(V) - 1
  BY <1>4, IndicesUsed
<1>6. Apart(V, Target(P, h))
  BY <1>4 DEF Apart
<1>7. \A v, w \in B : v[2] < w[2] => Target(P, h)[v[1]] < Target(P, h)[w[1]]
  BY <1>2, <1>4
<1>8. \A w \in P : w[1] \in V /\ <<w[1], h[w[1]]>> \in B
  BY <1>1, <1>3
<1>9. (\A v, w \in P : v[1] = w[1] => v = w) /\ (\A v, w \in B : v[1] = w[1] => v = w)
  BY <1>1, <1>2
<1> QED
  BY <1>2, <1>4, <1>5, <1>6, <1>7, <1>8, <1>9, Zenon DEF Numbers, Contiguous

\* A renumbering with nothing left to write has done what it set out to do.
LEMMA NumbersEnd ==
  ASSUME NEW B, NEW V \in SUBSET Item, NEW h \in Positions, NEW P, P = {}, Numbers(P, B, V, h)
  PROVE  /\ Target(P, h) = h
         /\ Contiguous(B, V, h)
<1>1. Target(P, h) = h
  BY DEF Target, Positions
<1> QED
  BY <1>1 DEF Numbers

\* The order a list was in is the order it is read and numbered in.
LEMMA InOrderNumbered ==
  ASSUME NEW e \in BOOLEAN, NEW b, NEW V, NEW h, NEW k, InOrder(e, b, V, h),
         \A x, y \in V : h[x] < h[y] => k[x] < k[y],
         \A x \in V : h[x] \in Int /\ k[x] \in Int
  PROVE  InOrder(e, b, V, k)
  BY DEF InOrder

\* A list has a largest position: take a smallest set of rows that has none.
LEMMA Largest ==
  ASSUME NEW R \in SUBSET Item, NEW h \in Positions, R # {}
  PROVE  \E m \in {h[i] : i \in R} : \A i \in R : h[i] <= m
<1> DEFINE Bounded(S) == \E x \in S : \A y \in S : h[y] <= h[x]
           T == {S \in FiniteSubsetsOf(R) : S # {} /\ ~ Bounded(S)}
<1>1. IsFiniteSet(R) /\ \A i \in R : h[i] \in Nat
  BY FS_Subset DEF Positions
<1>2. Bounded(R)
  <2> SUFFICES ASSUME ~ Bounded(R) PROVE FALSE
    OBVIOUS
  <2>1. R \in T
    BY <1>1 DEF FiniteSubsetsOf
  <2>2. PICK S \in T : \A U \in T : ~ (<<U, S>> \in StrictSubsetOrdering(R))
    <3>1. IsWellFoundedOn(StrictSubsetOrdering(R), FiniteSubsetsOf(R))
      BY FS_StrictSubsetOrderingWellFounded
    <3>2. T \subseteq FiniteSubsetsOf(R) /\ T # {}
      BY <2>1
    <3> HIDE DEF T
    <3> QED
      BY <3>1, <3>2, WFMin
  <2>3. PICK x \in S : TRUE
    OBVIOUS
  <2> DEFINE U == S \ {x}
  <2>4. S \subseteq R /\ IsFiniteSet(S) /\ ~ Bounded(S)
    BY DEF FiniteSubsetsOf
  <2>5. U \subseteq R /\ U \subseteq S /\ U # S /\ IsFiniteSet(U)
    BY <2>4, FS_Subset
  <2>6. U \notin T
    BY <2>2, <2>4, <2>5 DEF StrictSubsetOrdering
  <2>7. CASE U = {}
    <3>1. \A y \in S : y = x
      BY <2>7
    <3> QED
      BY <3>1, <2>3, <2>4, <1>1
  <2>8. CASE Bounded(U)
    <3>1. PICK z \in U : \A y \in U : h[y] <= h[z]
      BY <2>8
    <3>2. \A y \in S : y \in U \/ y = x
      OBVIOUS
    <3>3. h[x] \in Nat /\ h[z] \in Nat /\ x \in S /\ z \in S /\ \A y \in S : h[y] \in Nat
      BY <1>1, <2>3, <2>4, <2>5
    <3>4. CASE h[x] <= h[z]
      BY <2>4, <3>1, <3>2, <3>3, <3>4
    <3>5. CASE h[z] < h[x]
      <4>1. \A y \in S : h[y] <= h[x]
        BY <3>1, <3>2, <3>3, <3>5
      <4> QED
        BY <2>4, <3>3, <4>1
    <3> QED
      BY <3>3, <3>4, <3>5
  <2> QED
    BY <2>5, <2>6, <2>7, <2>8 DEF FiniteSubsetsOf
<1> QED
  BY <1>2

-----------------------------------------------------------------------------
(* The inductive invariant *)

AtEnd == kind \in {"subjects", "categories"}

\* The rows whose order is kept.  The hidden rows of a subject's list are not
\* numbered; those of a user's circles come back to their positions.
Kept == IF kind = "subjectPrayers" THEN Visible ELSE rows

Ordered(h) == InOrder(AtEnd, born, Kept, h)

\* A request that nothing ran beside is the only one that runs, and in a tidy
\* list every request that runs is such a one.
OneBusy ==
    /\ \A r \in alone : job[r] # Idle /\ \A q \in Request \ {r} : job[q] = Idle
    /\ tidy => \A r \in Request : job[r] # Idle => r \in alone

\* Requests insert rows of different keys.
InsertsDiffer ==
    \A q, r \in Request :
        At(q, "insert") /\ At(r, "insert") /\ job[q].item = job[r].item => q = r

\* A row came in once its key was given out and no longer waits for its insert.
BornIn ==
    \A n \in DOMAIN born :
        born[n] \in drawn /\ \A r \in Request : At(r, "insert") => job[r].item # born[n]

\* Which lists hide rows, and which are renumbered.
KindsFit ==
    /\ hidden # {} => kind \in {"circles", "subjectPrayers"}
    /\ \A r \in Request : job[r].step \in {"sort", "number", "answer"} =>
           kind \in {"subjects", "subjectPrayers"}

Keys == InsertsDiffer /\ BornIn /\ KindsFit /\ (~ tidy => born = << >>)

\* Where a request stands that nothing has run beside.
Undisturbed(j) ==
    /\ tidy /\ j.step = "insert" =>
           Apart(Kept, place) /\ Ordered(place) /\ Free(AtEnd, rows, place, j.at)
    /\ j.step = "reorder" =>
           /\ tidy => j.full
           /\ born = << >>
           /\ j.full => Rewriting(j.plan, rows, place)
    /\ j.step = "sort" => Ordered(place)
    /\ j.step \in {"number", "answer"} =>
           Numbers(j.plan, j.before, Visible, place) /\ Ordered(Target(j.plan, place))
    /\ j.step = "answer" => j.plan = {}

\* A tidy list at rest is in order, and requests that run alone keep it so.
ListInv ==
    /\ Settled => Apart(Kept, place) /\ Ordered(place)
    /\ \A r \in alone : Undisturbed(job[r])

IInv == TypeOK /\ OneBusy /\ Keys /\ ListInv

-----------------------------------------------------------------------------
(* Lemmas about requests *)

\* The parts of the type invariant that a statement on the list can disturb,
\* and those that a request can.
ListTyped ==
    /\ kind \in Kind
    /\ rows \subseteq drawn /\ drawn \subseteq Item
    /\ hidden \subseteq rows
    /\ place \in Positions
    /\ born \in Seq(Item)

JobsTyped ==
    /\ job \in [Request -> Job]
    /\ alone \subseteq Request
    /\ tidy \in BOOLEAN

InsertsTyped == \A r \in Request : At(r, "insert") => job[r].item \in drawn \ rows

LEMMA TypeParts == TypeOK <=> ListTyped /\ JobsTyped /\ InsertsTyped
  BY DEF TypeOK, ListTyped, JobsTyped, InsertsTyped, Positions, At

LEMMA IdleIsJob == Idle \in Job /\ Idle.step = "idle"
  BY DEF Idle, Job

\* A busy request either has run alone so far, or the list is not tidy.
LEMMA Beside ==
  ASSUME OneBusy, NEW r \in Request, job[r] # Idle
  PROVE  alone = {r} \/ (alone = {} /\ ~ tidy)
  BY DEF OneBusy

LEMMA Starts ==
  ASSUME JobsTyped, OneBusy, NEW r \in Request, NEW j \in Job, j # Idle, NEW fine \in BOOLEAN,
         Start(r, j, fine)
  PROVE  /\ JobsTyped' /\ OneBusy'
         /\ job[r] = Idle /\ job'[r] = j /\ \A q \in Request \ {r} : job'[q] = job[q]
         /\ alone' \subseteq {r}
         /\ tidy' => tidy /\ fine
         /\ tidy' \/ alone' # {} => \A q \in Request : job[q] = Idle
<1> DEFINE others == {q \in Request \ {r} : job[q] # Idle}
<1>1. /\ job' = [job EXCEPT ![r] = j] /\ job[r] = Idle
      /\ alone' = IF others = {} THEN {r} ELSE {}
      /\ tidy' = (tidy /\ fine /\ others = {})
  BY Zenon DEF Start
<1>2. job'[r] = j /\ \A q \in Request \ {r} : job'[q] = job[q]
  BY <1>1 DEF JobsTyped
<1>3. job' \in [Request -> Job] /\ alone' \subseteq {r}
  BY <1>1 DEF JobsTyped
<1>4. tidy' \in BOOLEAN /\ (tidy' => tidy /\ fine /\ others = {})
  BY <1>1, Zenon DEF JobsTyped
<1>5. others = {} => \A q \in Request : job[q] = Idle
  BY <1>1
<1>6. OneBusy'
  <2>1. alone' # {} => others = {}
    BY <1>1
  <2>2. others = {} => alone' = {r}
    BY <1>1
  <2> HIDE DEF others
  <2> QED
    BY <1>2, <1>3, <1>4, <1>5, <2>1, <2>2 DEF OneBusy
<1> QED
  BY <1>1, <1>2, <1>3, <1>4, <1>5, <1>6 DEF JobsTyped

LEMMA Becomes ==
  ASSUME JobsTyped, OneBusy, NEW r \in Request, job[r] # Idle, NEW j \in Job, Become(r, j)
  PROVE  /\ JobsTyped' /\ OneBusy'
         /\ job'[r] = j /\ \A q \in Request \ {r} : job'[q] = job[q]
         /\ tidy' = tidy
         /\ j = Idle => alone' = {}
         /\ alone' \subseteq {r}
         /\ alone' # {} => r \in alone
<1>1. /\ job' = [job EXCEPT ![r] = j] /\ tidy' = tidy
      /\ alone' = IF j = Idle THEN alone \ {r} ELSE alone
  BY DEF Become
<1>2. job'[r] = j /\ \A q \in Request \ {r} : job'[q] = job[q]
  BY <1>1 DEF JobsTyped
<1>3. alone = {r} \/ (alone = {} /\ ~ tidy)
  BY Beside
<1>4. JobsTyped'
  BY <1>1 DEF JobsTyped
<1>5. OneBusy'
  BY <1>1, <1>2, <1>3 DEF OneBusy
<1> QED
  BY <1>1, <1>2, <1>3, <1>4, <1>5

LEMMA Completes ==
  ASSUME JobsTyped, OneBusy, NEW r \in Request, job[r] # Idle, NEW j \in Job, Complete(r, j)
  PROVE  /\ JobsTyped' /\ OneBusy'
         /\ job'[r] = j /\ \A q \in Request \ {r} : job'[q] = job[q]
         /\ tidy' => r \in alone /\ (tidy \/ job[r].full)
         /\ tidy => tidy'
         /\ j = Idle => alone' = {}
         /\ alone' \subseteq {r}
         /\ alone' # {} => r \in alone
<1>1. /\ job' = [job EXCEPT ![r] = j] /\ tidy' = (tidy \/ (r \in alone /\ job[r].full))
      /\ alone' = IF j = Idle THEN alone \ {r} ELSE alone
  BY DEF Complete
<1>2. job'[r] = j /\ \A q \in Request \ {r} : job'[q] = job[q]
  BY <1>1 DEF JobsTyped
<1>3. alone = {r} \/ (alone = {} /\ ~ tidy)
  BY Beside
<1>4. tidy' \in BOOLEAN /\ (tidy => tidy') /\ (tidy' => r \in alone /\ (tidy \/ job[r].full))
  BY <1>1, <1>3, Zenon DEF JobsTyped
<1>5. JobsTyped'
  BY <1>1, <1>4 DEF JobsTyped
<1>6. OneBusy'
  BY <1>1, <1>2, <1>3, <1>4 DEF OneBusy
<1> QED
  BY <1>1, <1>2, <1>3, <1>4, <1>5, <1>6

LEMMA AtOnceWorks ==
  ASSUME JobsTyped, NEW fine \in BOOLEAN, AtOnce(fine)
  PROVE  /\ JobsTyped' /\ OneBusy'
         /\ job' = job /\ alone' = {}
         /\ tidy' => tidy /\ fine /\ \A r \in Request : job[r] = Idle
<1>1. /\ job' = job /\ alone' = {}
      /\ tidy' = (tidy /\ fine /\ \A r \in Request : job[r] = Idle)
  BY DEF AtOnce
<1>2. tidy' \in BOOLEAN /\ (tidy' => tidy /\ fine /\ \A r \in Request : job[r] = Idle)
  BY <1>1, Zenon
<1> QED
  BY <1>1, <1>2 DEF JobsTyped, OneBusy

LEMMA Remembers ==
  ASSUME ListTyped, Keys, Remember(born)
  PROVE  born' \in Seq(Item) /\ born' \in {born, << >>} /\ (tidy' => born' = born)
         /\ (~ tidy' => born' = << >>)
  BY DEF Remember, ListTyped

\* Requests that go on inserting, or stop, keep their keys apart.
LEMMA KeysStay ==
  ASSUME Keys, InsertsTyped,
         \A q \in Request : job'[q].step = "insert" =>
             job[q].step = "insert" /\ job'[q].item = job[q].item,
         \A q \in Request : job'[q].step \in {"sort", "number", "answer"} =>
             kind \in {"subjects", "subjectPrayers"},
         kind' = kind, drawn' = drawn, rows' \subseteq rows,
         hidden' # {} => kind \in {"circles", "subjectPrayers"},
         born' \in {born, << >>}, ~ tidy' => born' = << >>
  PROVE  Keys' /\ InsertsTyped'
<1>1. InsertsDiffer'
  BY DEF Keys, InsertsDiffer, At
<1>2. BornIn'
  BY DEF Keys, BornIn, At
<1>3. KindsFit'
  BY DEF Keys, KindsFit
<1>4. InsertsTyped'
  BY DEF InsertsTyped, At
<1> QED
  BY <1>1, <1>2, <1>3, <1>4 DEF Keys

-----------------------------------------------------------------------------
(* New rows *)

InsertJob(i, p) == [Idle EXCEPT !.step = "insert", !.item = i, !.at = p]

LEMMA InsertJobOK ==
  ASSUME NEW i \in Item, NEW p \in Nat
  PROVE  /\ InsertJob(i, p) \in Job /\ InsertJob(i, p) # Idle
         /\ InsertJob(i, p).step = "insert" /\ InsertJob(i, p).item = i
         /\ InsertJob(i, p).at = p
<1> DEFINE j == InsertJob(i, p)
<1>1. j.step = "insert" /\ j.item = i /\ j.at = p
  BY DEF InsertJob, Idle
<1>2. j \in Job
  BY DEF InsertJob, Idle, Job
<1> HIDE DEF j
<1>3. j # Idle
  BY <1>1, IdleIsJob
<1> QED
  BY <1>1, <1>2, <1>3 DEF j

\* A job that starts with the column's zero value.
LEMMA InsertJobAtZero ==
  ASSUME NEW i \in Item
  PROVE  [Idle EXCEPT !.step = "insert", !.item = i] = InsertJob(i, 0)
<1> DEFINE j == [Idle EXCEPT !.step = "insert", !.item = i]
           k == InsertJob(i, 0)
<1>1. j \in Job /\ k \in Job
  BY InsertJobOK DEF Idle, Job
<1>2. /\ j.step = k.step /\ j.item = k.item /\ j.at = k.at /\ j.plan = k.plan
      /\ j.full = k.full /\ j.before = k.before
  BY DEF InsertJob, Idle
<1> HIDE DEF j, k
<1>3. \A x \in Job : x = [step |-> x.step, item |-> x.item, at |-> x.at, plan |-> x.plan,
                           full |-> x.full, before |-> x.before]
  BY DEF Job
<1>4. j = k
  BY <1>1, <1>2, <1>3
<1> QED
  BY <1>4 DEF j, k

\* A request draws a key and will insert its row at p, where there is room.
LEMMA Drawn ==
  ASSUME IInv, NEW r \in Request, NEW i \in Item, NEW p \in Nat, NEW fine \in BOOLEAN,
         Draw(i), Start(r, InsertJob(i, p), fine), Remember(born),
         UNCHANGED <<kind, rows, hidden>>, place' \in Positions,
         tidy /\ fine /\ (\A q \in Request : job[q] = Idle) =>
             /\ Apart(Kept, place') /\ InOrder(AtEnd, born, Kept, place')
             /\ Free(AtEnd, rows, place', p)
  PROVE  IInv'
<1> DEFINE j == InsertJob(i, p)
<1> j \in Job /\ j # Idle /\ j.step = "insert" /\ j.item = i /\ j.at = p
  BY InsertJobOK
<1> HIDE DEF j
<1>1. ListTyped /\ JobsTyped /\ InsertsTyped /\ OneBusy /\ Keys
  BY TypeParts DEF IInv
<1>2. /\ JobsTyped' /\ OneBusy'
      /\ job[r] = Idle /\ job'[r] = j /\ \A q \in Request \ {r} : job'[q] = job[q]
      /\ alone' \subseteq {r}
      /\ tidy' => tidy /\ fine
      /\ tidy' \/ alone' # {} => \A q \in Request : job[q] = Idle
  BY <1>1, Starts DEF j
<1>3. born' \in Seq(Item) /\ born' \in {born, << >>} /\ (tidy' => born' = born)
      /\ (~ tidy' => born' = << >>)
  BY <1>1, Remembers
<1>4. i \notin drawn /\ drawn' = drawn \cup {i}
  BY DEF Draw
<1>5. ListTyped'
  BY <1>1, <1>3, <1>4 DEF ListTyped
<1>6. InsertsTyped'
  BY <1>1, <1>2, <1>4 DEF InsertsTyped, ListTyped, At
<1>7. InsertsDiffer'
  BY <1>1, <1>2, <1>4 DEF Keys, InsertsDiffer, InsertsTyped, At
<1>8. BornIn'
  BY <1>1, <1>2, <1>3, <1>4 DEF Keys, BornIn, At
<1>9. KindsFit'
  BY <1>1, <1>2 DEF Keys, KindsFit
<1>10. ListInv'
  <2>1. ~ Settled'
    BY <1>2 DEF Settled
  <2>2. ASSUME NEW q \in alone' PROVE Undisturbed(job[q])'
    <3>1. q = r /\ job'[q] = j
      BY <2>2, <1>2
    <3>2. tidy' => Apart(Kept', place') /\ Ordered(place)' /\ Free(AtEnd', rows', place', p)
      BY <1>2, <1>3 DEF Kept, Visible, AtEnd, Ordered
    <3> QED
      BY <3>1, <3>2 DEF Undisturbed
  <2> QED
    BY <2>1, <2>2 DEF ListInv
<1> QED
  BY <1>2, <1>3, <1>5, <1>6, <1>7, <1>8, <1>9, <1>10, TypeParts
     DEF IInv, Keys, TypeOK, ListTyped, JobsTyped, InsertsTyped, At, Positions

\* In a tidy list at rest.
LEMMA AtRest ==
  ASSUME IInv, tidy, \A q \in Request : job[q] = Idle
  PROVE  Apart(Kept, place) /\ InOrder(AtEnd, born, Kept, place)
  BY DEF IInv, ListInv, Settled, Ordered

LEMMA KeptIsPart ==
  ASSUME IInv
  PROVE  /\ rows \in SUBSET Item /\ Kept \in SUBSET rows /\ Visible \in SUBSET Kept
         /\ AtEnd \in BOOLEAN
         /\ kind \in {"subjects", "subjectPrayers"} => Kept = Visible
  BY DEF IInv, TypeOK, Kept, Visible, AtEnd, Keys, KindsFit

LEMMA NewOnTopKeeps ==
  ASSUME IInv, NEW r \in Request, NEW i \in Item, NewOnTop(r, i), ~ AtEnd
  PROVE  IInv'
<1>1. /\ Draw(i) /\ ShiftAll /\ Start(r, InsertJob(i, 0), TRUE) /\ Remember(born)
      /\ UNCHANGED <<kind, rows, hidden>>
  BY InsertJobAtZero DEF NewOnTop
<1>2. place \in Positions
  BY DEF IInv, TypeOK, Positions
<1>3. /\ place' \in Positions /\ \A x \in rows : place'[x] = place[x] + 1
  BY <1>1, <1>2, KeptIsPart DEF ShiftAll, Positions
<1>4. tidy /\ (\A q \in Request : job[q] = Idle) =>
          /\ Apart(Kept, place') /\ InOrder(AtEnd, born, Kept, place')
          /\ Free(AtEnd, rows, place', 0)
  <2>1. \A x \in Kept : place'[x] = place[x] + 1
    BY <1>3, KeptIsPart
  <2>2. Free(FALSE, rows, place', 0)
    BY <1>2, <1>3, KeptIsPart, Shifted
  <2>3. Kept \in SUBSET Item /\ AtEnd \in BOOLEAN
    BY KeptIsPart
  <2> QED
    BY <1>2, <1>3, <2>1, <2>2, <2>3, AtRest, Shifted DEF Free
<1> QED
  BY <1>1, <1>3, <1>4, Drawn

LEMMA LastIsLast ==
  ASSUME IInv
  PROVE  Last + 1 \in Nat /\ Free(TRUE, rows, place, Last + 1)
<1>1. rows \in SUBSET Item /\ place \in Positions
  BY KeptIsPart DEF IInv, TypeOK, Positions
<1>2. CASE rows = {}
  BY <1>2 DEF Last, Free
<1>3. CASE rows # {}
  <2>1. \E m \in {place[i] : i \in rows} : \A i \in rows : place[i] <= m
    BY <1>1, <1>3, Largest
  <2>2. Last \in {place[i] : i \in rows} /\ \A i \in rows : place[i] <= Last
    BY <1>3, <2>1 DEF Last
  <2>3. Last \in Nat /\ \A i \in rows : place[i] \in Nat
    BY <1>1, <2>2 DEF Positions
  <2> QED
    BY <2>2, <2>3 DEF Free
<1> QED
  BY <1>2, <1>3

LEMMA NewAtEndKeeps ==
  ASSUME IInv, NEW r \in Request, NEW i \in Item, NewAtEnd(r, i), AtEnd
  PROVE  IInv'
<1>1. /\ Draw(i) /\ Start(r, InsertJob(i, Last + 1), TRUE) /\ Remember(born)
      /\ UNCHANGED <<kind, rows, hidden>> /\ place' = place
  BY DEF NewAtEnd, InsertJob, list
<1>2. place' \in Positions
  BY <1>1 DEF IInv, TypeOK, Positions
<1>3. Free(AtEnd, rows, place', Last + 1)
  BY <1>1, LastIsLast DEF Free
<1>4. Last + 1 \in Nat
  BY LastIsLast
<1> HIDE DEF Last
<1>5. tidy /\ (\A q \in Request : job[q] = Idle) =>
          Apart(Kept, place') /\ InOrder(AtEnd, born, Kept, place')
  BY <1>1, AtRest
<1> QED
  BY <1>1, <1>2, <1>3, <1>4, <1>5, Drawn

LEMMA CategoryLastFailsKeeps ==
  ASSUME IInv, NEW r \in Request, NEW i \in Item, CategoryLastFails(r, i)
  PROVE  IInv'
<1>1. [Idle EXCEPT !.step = "insert", !.item = i] = InsertJob(i, 0)
  BY InsertJobAtZero
<1>2. /\ Draw(i) /\ Start(r, InsertJob(i, 0), FALSE) /\ Remember(born)
      /\ UNCHANGED <<kind, rows, hidden>> /\ place' = place
  BY <1>1 DEF CategoryLastFails, list
<1>3. place' \in Positions
  BY <1>2 DEF IInv, TypeOK, Positions
<1> QED
  BY <1>2, <1>3, Drawn

\* A request that has an item to insert.
LEMMA InsertRowKeeps ==
  ASSUME IInv, NEW r \in Request, InsertRow(r)
  PROVE  IInv'
<1>1. PICK i : i = job[r].item
  OBVIOUS
<1>2. PICK p : p = job[r].at
  OBVIOUS
<1>3. ListTyped /\ JobsTyped /\ InsertsTyped /\ OneBusy /\ Keys
  BY TypeParts DEF IInv
<1>4. job[r] \in Job /\ job[r].step = "insert" /\ job[r] # Idle /\ p \in Nat
  BY <1>2, <1>3, IdleIsJob DEF InsertRow, At, JobsTyped, Job
<1>5. i \in drawn \ rows /\ i \in Item
  BY <1>1, <1>3, <1>4 DEF InsertsTyped, At, ListTyped
<1>6. /\ rows' = rows \cup {i} /\ place' = [place EXCEPT ![i] = p]
      /\ hidden' = hidden \/ (kind = "subjectPrayers" /\ hidden' = hidden \cup {i})
      /\ born' = IF tidy THEN Append(born, i) ELSE << >>
      /\ Become(r, Idle) /\ kind' = kind /\ drawn' = drawn
  BY <1>1, <1>2 DEF InsertRow
<1>7. /\ JobsTyped' /\ OneBusy'
      /\ job'[r] = Idle /\ \A q \in Request \ {r} : job'[q] = job[q]
      /\ tidy' = tidy /\ alone' = {}
  BY <1>3, <1>4, <1>6, IdleIsJob, Becomes
<1>8. ListTyped'
  BY <1>3, <1>4, <1>5, <1>6 DEF ListTyped, Positions
<1>9. \A q \in Request : job'[q].step = "insert" =>
          q # r /\ job[q].step = "insert" /\ job'[q].item = job[q].item
  BY <1>7, IdleIsJob
<1>10. \A q \in Request : job'[q].step = "insert" => job'[q].item # i
  BY <1>1, <1>3, <1>4, <1>9 DEF Keys, InsertsDiffer, At
<1>11. InsertsTyped'
  BY <1>3, <1>6, <1>9, <1>10 DEF InsertsTyped, At
<1>12. InsertsDiffer'
  BY <1>3, <1>9 DEF Keys, InsertsDiffer, At
<1>13. \A n \in DOMAIN born' : born'[n] = i \/ \E m \in DOMAIN born : born'[n] = born[m]
  BY <1>3, <1>6 DEF ListTyped
<1>14. BornIn'
  BY <1>3, <1>5, <1>6, <1>9, <1>10, <1>13 DEF Keys, BornIn, At
<1>15. KindsFit'
  <2>1. \A q \in Request : job'[q].step \in {"sort", "number", "answer"} =>
            job[q].step \in {"sort", "number", "answer"}
    BY <1>7, IdleIsJob
  <2> QED
    BY <1>3, <1>6, <2>1 DEF Keys, KindsFit
<1>16. ListInv'
  <2> SUFFICES ASSUME Settled' PROVE Apart(Kept', place') /\ Ordered(place)'
    BY <1>7 DEF ListInv
  <2>1. tidy /\ r \in alone
    BY <1>3, <1>4, <1>7 DEF Settled, OneBusy
  <2>2. Apart(Kept, place) /\ Ordered(place) /\ Free(AtEnd, rows, place, p)
    BY <1>2, <1>4, <2>1 DEF IInv, ListInv, Undisturbed
  <2>3. Kept \in SUBSET Item /\ i \in Item \ Kept /\ Free(AtEnd, Kept, place, p)
        /\ AtEnd \in BOOLEAN /\ place \in Positions /\ born \in Seq(Item)
    BY <1>3, <1>5, <2>2, KeptIsPart DEF Free, ListTyped
  <2>4. \A n \in DOMAIN born : born[n] # i
    BY <1>1, <1>3, <1>4 DEF Keys, BornIn, At
  <2>5. /\ Apart(Kept \cup {i}, [place EXCEPT ![i] = p])
        /\ InOrder(AtEnd, Append(born, i), Kept \cup {i}, [place EXCEPT ![i] = p])
    BY <1>4, <2>2, <2>3, <2>4, Placed DEF Ordered
  <2>6. Apart(Kept \cup {i}, place') /\ InOrder(AtEnd', born', Kept \cup {i}, place')
    BY <1>6, <2>1, <2>5 DEF AtEnd
  <2>7. Kept' \in SUBSET (Kept \cup {i}) /\ AtEnd' \in BOOLEAN
    BY <1>6 DEF Kept, Visible, AtEnd
  <2> QED
    BY <2>6, <2>7, ApartFewer, InOrderFewer DEF Ordered
<1> QED
  BY <1>3, <1>6, <1>7, <1>8, <1>11, <1>12, <1>14, <1>15, <1>16
     DEF IInv, Keys, TypeOK, ListTyped, JobsTyped, InsertsTyped, At, Positions

-----------------------------------------------------------------------------
(* Handlers that are one statement *)

LEMMA AtOnceKeeps ==
  ASSUME IInv, NEW fine \in BOOLEAN, AtOnce(fine), ListTyped', Keys', InsertsTyped',
         fine /\ tidy /\ tidy' => Apart(Kept', place') /\ Ordered(place)'
  PROVE  IInv'
<1>1. JobsTyped
  BY TypeParts DEF IInv
<1>2. /\ JobsTyped' /\ OneBusy' /\ job' = job /\ alone' = {}
      /\ tidy' => tidy /\ fine /\ \A r \in Request : job[r] = Idle
  BY <1>1, AtOnceWorks
<1>3. ListInv'
  BY <1>2 DEF ListInv, Settled
<1> QED
  BY <1>2, <1>3 DEF IInv, TypeOK, ListTyped, JobsTyped, InsertsTyped, At, Positions

LEMMA InsertAtKeeps ==
  ASSUME IInv, NEW i \in Item, NEW p \in Nat, InsertAt(i, p)
  PROVE  IInv'
<1>1. ListTyped /\ JobsTyped /\ InsertsTyped /\ OneBusy /\ Keys
  BY TypeParts DEF IInv
<1>2. /\ i \notin drawn /\ drawn' = drawn \cup {i} /\ rows' = rows \cup {i}
      /\ place' = [place EXCEPT ![i] = p] /\ AtOnce(FALSE) /\ Remember(born)
      /\ kind' = kind /\ hidden' = hidden
  BY DEF InsertAt, Draw
<1>3. born' \in Seq(Item) /\ born' \in {born, << >>} /\ (~ tidy' => born' = << >>)
  BY <1>1, <1>2, Remembers
<1>4. job' = job
  BY <1>2 DEF AtOnce
<1>5. ListTyped'
  BY <1>1, <1>2, <1>3 DEF ListTyped, Positions
<1>6. InsertsTyped'
  BY <1>1, <1>2, <1>4 DEF InsertsTyped, At
<1>7. InsertsDiffer' /\ BornIn' /\ KindsFit'
  BY <1>1, <1>2, <1>3, <1>4 DEF Keys, InsertsDiffer, BornIn, KindsFit, At
<1> QED
  BY <1>2, <1>3, <1>5, <1>6, <1>7, AtOnceKeeps DEF Keys

\* What stays of a list stays in its order.
LEMMA Removed ==
  ASSUME IInv, NEW i \in rows, Remove(i), kind' = kind, drawn' = drawn,
         Remember(born)
  PROVE  /\ ListTyped' /\ rows' \subseteq rows /\ hidden' \subseteq hidden
         /\ born' \in {born, << >>} /\ (~ tidy' => born' = << >>)
         /\ Apart(Kept, place) => Apart(Kept', place')
         /\ ~ tidy' \/ Ordered(place) => Ordered(place)'
<1>1. ListTyped /\ Keys /\ i \in Item
  BY TypeParts, KeptIsPart DEF IInv
<1>2. rows' = rows \ {i} /\ hidden' = hidden \ {i} /\ place' = [place EXCEPT ![i] = 0]
  BY DEF Remove
<1>3. born' \in Seq(Item) /\ born' \in {born, << >>} /\ (~ tidy' => born' = << >>)
      /\ (tidy' => born' = born)
  BY <1>1, Remembers
<1>4. ListTyped'
  BY <1>1, <1>2, <1>3 DEF ListTyped, Positions
<1>5. Kept' \in SUBSET Kept /\ i \notin Kept'
  BY <1>2 DEF Kept, Visible
<1>6. \A x \in Kept' : place'[x] = place[x]
  <2>1. \A x \in Item : x # i => place'[x] = place[x]
    BY <1>1, <1>2 DEF ListTyped, Positions
  <2> QED
    BY <2>1, <1>5, KeptIsPart
<1>7. AtEnd' = AtEnd /\ AtEnd \in BOOLEAN
  BY DEF AtEnd
<1>8. Apart(Kept, place) => Apart(Kept', place')
  BY <1>5, <1>6, ApartFewer
<1>9. ~ tidy' \/ Ordered(place) => Ordered(place)'
  <2>1. CASE tidy'
    <3>1. Ordered(place) => InOrder(AtEnd, born, Kept', place')
      BY <1>5, <1>6, <1>7, InOrderFewer DEF Ordered
    <3> QED
      BY <2>1, <3>1, <1>3, <1>7 DEF Ordered
  <2>2. CASE ~ tidy'
    <3>1. InOrder(AtEnd, << >>, Kept', place')
      BY <1>7, NothingInOrder
    <3> QED
      BY <2>2, <3>1, <1>3, <1>7 DEF Ordered
  <2> QED
    BY <2>1, <2>2
<1> QED
  BY <1>2, <1>3, <1>4, <1>8, <1>9

\* The list is in order if it is tidy now and was when an AtOnce began.
LEMMA WasAtRest ==
  ASSUME IInv, NEW fine \in BOOLEAN, AtOnce(fine), tidy'
  PROVE  /\ fine /\ tidy /\ (\A q \in Request : job[q] = Idle)
         /\ Apart(Kept, place) /\ Ordered(place)
<1>1. JobsTyped
  BY TypeParts DEF IInv
<1>2. tidy /\ fine /\ \A q \in Request : job[q] = Idle
  BY <1>1, AtOnceWorks
<1> QED
  BY <1>2, AtRest DEF Ordered

LEMMA RemoveRowKeeps ==
  ASSUME IInv, NEW i \in Item, RemoveRow(i)
  PROVE  IInv'
<1>1. i \in rows /\ Remove(i) /\ AtOnce(TRUE) /\ Remember(born) /\ kind' = kind /\ drawn' = drawn
  BY DEF RemoveRow
<1>2. /\ ListTyped' /\ rows' \subseteq rows /\ hidden' \subseteq hidden
      /\ born' \in {born, << >>} /\ (~ tidy' => born' = << >>)
      /\ Apart(Kept, place) => Apart(Kept', place')
      /\ ~ tidy' \/ Ordered(place) => Ordered(place)'
  BY <1>1, Removed
<1>3. InsertsTyped /\ Keys /\ job' = job
  BY <1>1, TypeParts DEF IInv, AtOnce
<1>4. Keys' /\ InsertsTyped'
  <2>1. hidden' # {} => kind \in {"circles", "subjectPrayers"}
    BY <1>2, <1>3 DEF Keys, KindsFit
  <2>2. \A q \in Request : job'[q].step \in {"sort", "number", "answer"} =>
            kind \in {"subjects", "subjectPrayers"}
    BY <1>3 DEF Keys, KindsFit
  <2> QED
    BY <1>1, <1>2, <1>3, <2>1, <2>2, KeysStay
<1>5. tidy' => Apart(Kept', place') /\ Ordered(place)'
  BY <1>1, <1>2, WasAtRest
<1> QED
  BY <1>1, <1>2, <1>4, <1>5, AtOnceKeeps

\* Rows go out of sight and come back where the order does not look.
LEMMA HidingKeeps ==
  ASSUME IInv, NEW fine \in BOOLEAN, AtOnce(fine), Remember(born),
         UNCHANGED <<kind, rows, place, drawn>>, hidden' \in SUBSET rows,
         kind \in {"circles", "subjectPrayers"}, fine => kind = "circles"
  PROVE  IInv'
<1>1. ListTyped /\ InsertsTyped /\ Keys /\ job' = job
  BY TypeParts DEF IInv, AtOnce
<1>2. born' \in Seq(Item) /\ born' \in {born, << >>} /\ (~ tidy' => born' = << >>)
      /\ (tidy' => born' = born)
  BY <1>1, Remembers
<1>3. ListTyped'
  BY <1>1, <1>2 DEF ListTyped
<1>4. Keys' /\ InsertsTyped'
  <2>1. \A q \in Request : job'[q].step \in {"sort", "number", "answer"} =>
            kind \in {"subjects", "subjectPrayers"}
    BY <1>1 DEF Keys, KindsFit
  <2> QED
    BY <1>1, <1>2, <2>1, KeysStay
<1>5. ASSUME fine, tidy' PROVE Apart(Kept', place') /\ Ordered(place)'
  <2>1. Apart(Kept, place) /\ Ordered(place)
    BY <1>5, WasAtRest
  <2>2. Kept' = Kept /\ AtEnd' = AtEnd /\ born' = born
    BY <1>2, <1>5 DEF Kept, AtEnd
  <2> QED
    BY <2>1, <2>2 DEF Ordered
<1> QED
  BY <1>3, <1>4, <1>5, AtOnceKeeps

LEMMA SightKeeps ==
  ASSUME IInv, NEW i \in Item, ArchiveCircle(i) \/ RestoreCircle(i) \/ ShareToSelf(i)
  PROVE  IInv'
<1>1. hidden \subseteq rows
  BY DEF IInv, TypeOK
<1>2. CASE ArchiveCircle(i)
  BY <1>1, <1>2, HidingKeeps DEF ArchiveCircle, Visible
<1>3. CASE RestoreCircle(i)
  BY <1>1, <1>3, HidingKeeps DEF RestoreCircle
<1>4. CASE ShareToSelf(i)
  BY <1>1, <1>4, HidingKeeps DEF ShareToSelf
<1> QED
  BY <1>2, <1>3, <1>4

-----------------------------------------------------------------------------
(* Requests that read, reorder and renumber *)

\* One request moves to a job j other than an insert; the rest stand.
LEMMA Moves ==
  ASSUME IInv, NEW r \in Request, NEW j \in Job, j.step # "insert",
         j.step \in {"sort", "number", "answer"} => kind \in {"subjects", "subjectPrayers"},
         JobsTyped', OneBusy', job'[r] = j, \A q \in Request \ {r} : job'[q] = job[q],
         alone' \subseteq {r}, ListTyped', kind' = kind, drawn' = drawn,
         rows' \subseteq rows, hidden' \subseteq hidden,
         born' \in {born, << >>}, ~ tidy' => born' = << >>,
         Settled' => Apart(Kept', place') /\ Ordered(place)',
         alone' # {} => Undisturbed(j)'
  PROVE  IInv'
<1>1. InsertsTyped /\ Keys
  BY TypeParts DEF IInv
<1>2. \A q \in Request : job'[q].step = "insert" =>
          job[q].step = "insert" /\ job'[q].item = job[q].item
  OBVIOUS
<1>3. \A q \in Request : job'[q].step \in {"sort", "number", "answer"} =>
          kind \in {"subjects", "subjectPrayers"}
  BY <1>1 DEF Keys, KindsFit
<1>4. hidden' # {} => kind \in {"circles", "subjectPrayers"}
  BY <1>1 DEF Keys, KindsFit
<1>5. Keys' /\ InsertsTyped'
  BY <1>1, <1>2, <1>3, <1>4, KeysStay
<1>6. ListInv'
  <2>1. ASSUME NEW q \in alone' PROVE Undisturbed(job[q])'
    <3>1. q = r /\ job'[q] = j /\ Undisturbed(j)'
      BY <2>1
    <3> QED
      BY <3>1 DEF Undisturbed
  <2> QED
    BY <2>1 DEF ListInv
<1> QED
  BY <1>5, <1>6 DEF IInv, TypeOK, ListTyped, JobsTyped, InsertsTyped, At, Positions

\* The pairs a reorder writes have positions of their own.
LEMMA RewriteKeeps ==
  ASSUME IInv, NEW r \in Request, NEW plan \in SUBSET (Item \X Nat), Rewrite(r, plan),
         \A v, w \in plan : v[2] = w[2] => v = w
  PROVE  IInv'
<1>1. PICK full \in BOOLEAN : full = ({w[1] : w \in plan} = rows)
  OBVIOUS
<1>2. PICK j : j = [Idle EXCEPT !.step = "reorder", !.plan = plan, !.full = full]
  OBVIOUS
<1>3. j.step = "reorder" /\ j.plan = plan /\ j.full = full
  BY <1>2 DEF Idle
<1>4. j \in Job /\ j # Idle
  BY <1>2, <1>3, IdleIsJob DEF Idle, Job
<1>5. Start(r, j, full) /\ born' = << >> /\ UNCHANGED <<kind, rows, hidden, place, drawn>>
  BY <1>1, <1>2, Zenon DEF Rewrite, list
<1>6. ListTyped /\ JobsTyped /\ OneBusy
  BY TypeParts DEF IInv
<1>7. /\ JobsTyped' /\ OneBusy'
      /\ job'[r] = j /\ \A q \in Request \ {r} : job'[q] = job[q]
      /\ alone' \subseteq {r} /\ (tidy' => tidy /\ full)
  BY <1>4, <1>5, <1>6, Starts
<1>8. ListTyped' /\ ~ Settled'
  BY <1>4, <1>5, <1>6, <1>7 DEF ListTyped, Settled
<1>9. full => Rewriting(plan, rows, place)
  BY <1>1, RewritingStarts
<1>10. Undisturbed(j)'
  BY <1>3, <1>5, <1>7, <1>9 DEF Undisturbed
<1> QED
  BY <1>3, <1>4, <1>5, <1>7, <1>8, <1>10, Moves

SortJob == [Idle EXCEPT !.step = "sort"]

LEMMA SortJobOK == SortJob \in Job /\ SortJob # Idle /\ SortJob.step = "sort"
<1>1. SortJob.step = "sort" /\ SortJob \in Job
  BY DEF SortJob, Idle, Job
<1> HIDE DEF SortJob
<1> QED
  BY <1>1, IdleIsJob

\* A request sets out to renumber a list it may have taken a row from.
LEMMA SortKeeps ==
  ASSUME IInv, NEW r \in Request, Start(r, SortJob, TRUE), ListTyped',
         kind \in {"subjects", "subjectPrayers"}, kind' = kind, drawn' = drawn,
         rows' \subseteq rows, hidden' \subseteq hidden,
         born' \in {born, << >>}, ~ tidy' => born' = << >>,
         ~ tidy' \/ Ordered(place) => Ordered(place)'
  PROVE  IInv'
<1>1. JobsTyped /\ OneBusy
  BY TypeParts DEF IInv
<1>2. PICK j \in Job : j = SortJob /\ j # Idle /\ j.step = "sort"
  BY SortJobOK
<1>3. /\ JobsTyped' /\ OneBusy'
      /\ job'[r] = j /\ \A q \in Request \ {r} : job'[q] = job[q]
      /\ alone' \subseteq {r}
      /\ tidy' => tidy /\ \A q \in Request : job[q] = Idle
  BY <1>1, <1>2, Starts
<1>4. Ordered(place)'
  BY <1>3, AtRest DEF Ordered
<1>5. Undisturbed(j)' /\ ~ Settled'
  BY <1>2, <1>3, <1>4 DEF Undisturbed, Settled
<1> QED
  BY <1>2, <1>3, <1>5, Moves

LEMMA GetUserPrayerSubjectsKeeps ==
  ASSUME IInv, NEW r \in Request, NEW done, NEW twice, GetUserPrayerSubjects(r, done, twice)
  PROVE  IInv'
<1>1. /\ Start(r, SortJob, TRUE) /\ Remember(born) /\ kind = "subjectPrayers"
      /\ UNCHANGED <<kind, rows, hidden, place, drawn>>
  BY DEF GetUserPrayerSubjects, SortJob, list
<1>2. ListTyped /\ Keys
  BY TypeParts DEF IInv
<1>3. born' \in Seq(Item) /\ born' \in {born, << >>} /\ (~ tidy' => born' = << >>)
      /\ (tidy' => born' = born)
  BY <1>1, <1>2, Remembers
<1>4. ListTyped'
  BY <1>1, <1>2, <1>3 DEF ListTyped
<1>5. Kept' = Kept /\ AtEnd' = AtEnd /\ AtEnd \in BOOLEAN
  BY <1>1 DEF Kept, Visible, AtEnd
<1>6. ~ tidy' \/ Ordered(place) => Ordered(place)'
  BY <1>1, <1>3, <1>5, NothingInOrder DEF Ordered
<1> QED
  BY <1>1, <1>3, <1>4, <1>6, SortKeeps

LEMMA DeletePrayerSubjectKeeps ==
  ASSUME IInv, NEW r \in Request, NEW i \in Item, DeletePrayerSubject(r, i)
  PROVE  IInv'
<1>1. /\ kind = "subjects" /\ i \in rows /\ Remove(i) /\ Start(r, SortJob, TRUE)
      /\ Remember(born) /\ kind' = kind /\ drawn' = drawn
  BY DEF DeletePrayerSubject, SortJob
<1>2. /\ ListTyped' /\ rows' \subseteq rows /\ hidden' \subseteq hidden
      /\ born' \in {born, << >>} /\ (~ tidy' => born' = << >>)
      /\ ~ tidy' \/ Ordered(place) => Ordered(place)'
  BY <1>1, Removed
<1> QED
  BY <1>1, <1>2, SortKeeps

\* What a request that is under way can count on.
LEMMA UnderWay ==
  ASSUME IInv, NEW r \in Request, job[r] # Idle
  PROVE  /\ ListTyped /\ JobsTyped /\ OneBusy /\ job[r] \in Job
         /\ r \in alone => Undisturbed(job[r])
         /\ tidy => r \in alone
         /\ ~ tidy => born = << >>
         /\ job[r].step \in {"sort", "number", "answer"} =>
                kind \in {"subjects", "subjectPrayers"}
         /\ place \in Positions
  BY TypeParts DEF IInv, JobsTyped, ListInv, OneBusy, Keys, KindsFit, ListTyped

LEMMA BusyStep ==
  ASSUME NEW r \in Request, job[r].step # "idle"
  PROVE  job[r] # Idle
  BY IdleIsJob

LEMMA PlaceTyped ==
  ASSUME NEW h \in Positions, NEW i \in Item, NEW p \in Nat
  PROVE  [h EXCEPT ![i] = p] \in Positions
  BY DEF Positions

LEMMA WriteNextKeeps ==
  ASSUME IInv, NEW r \in Request, WriteNext(r)
  PROVE  IInv'
<1>1. job[r].step = "reorder" /\ job[r] # Idle
  BY BusyStep DEF WriteNext, At
<1>2. PICK k : k = job[r]
  OBVIOUS
<1>3. /\ ListTyped /\ JobsTyped /\ OneBusy /\ k \in Job
      /\ r \in alone => Undisturbed(k)
      /\ ~ tidy => born = << >>
      /\ place \in Positions
  BY <1>1, <1>2, UnderWay
<1>4. PICK w \in k.plan :
        /\ place' = IF w[1] \in rows THEN [place EXCEPT ![w[1]] = w[2]] ELSE place
        /\ IF k.plan = {w} THEN Complete(r, Idle)
           ELSE Become(r, [k EXCEPT !.plan = k.plan \ {w}])
  BY <1>2 DEF WriteNext
<1>5. UNCHANGED <<kind, rows, hidden, drawn, born>>
  BY DEF WriteNext
<1>6. k.step = "reorder" /\ k.plan \in SUBSET (Item \X Nat) /\ k.full \in BOOLEAN
  BY <1>1, <1>2, <1>3 DEF Job
<1>7. w[1] \in Item /\ w[2] \in Nat
  BY <1>6
<1>8. ListTyped'
  BY <1>3, <1>4, <1>5, <1>7, PlaceTyped DEF ListTyped
<1>9. ASSUME r \in alone
      PROVE  (tidy => k.full) /\ born = << >> /\ (k.full => Rewriting(k.plan, rows, place))
  BY <1>3, <1>6, <1>9 DEF Undisturbed
<1>10. ASSUME r \in alone, k.full
       PROVE  /\ Rewriting(k.plan \ {w}, rows, place')
              /\ k.plan = {w} => Apart(rows, place')
  <2>1. rows \in SUBSET Item
    BY KeptIsPart
  <2>2. Rewriting(k.plan, rows, place)
    BY <1>9, <1>10
  <2>3. /\ w[1] \in rows
        /\ Rewriting(k.plan \ {w}, rows, [place EXCEPT ![w[1]] = w[2]])
        /\ k.plan = {w} => Apart(rows, [place EXCEPT ![w[1]] = w[2]])
    BY <1>3, <1>6, <2>1, <2>2, Rewritten
  <2> QED
    BY <1>4, <2>3
<1>11. CASE k.plan = {w}
  <2>1. Complete(r, Idle)
    BY <1>4, <1>11
  <2>2. /\ JobsTyped' /\ OneBusy'
        /\ job'[r] = Idle /\ \A q \in Request \ {r} : job'[q] = job[q]
        /\ tidy' => r \in alone /\ (tidy \/ k.full)
        /\ tidy => tidy'
        /\ alone' = {}
    BY <1>1, <1>2, <1>3, <2>1, IdleIsJob, Completes
  <2>3. ASSUME tidy' PROVE Apart(Kept', place') /\ Ordered(place)'
    <3>1. r \in alone /\ k.full /\ born' = << >>
      BY <1>5, <1>9, <2>2, <2>3
    <3>2. Apart(rows, place')
      BY <1>10, <1>11, <3>1
    <3>3. Kept' \in SUBSET rows /\ AtEnd' \in BOOLEAN
      BY <1>5 DEF Kept, Visible, AtEnd
    <3>4. Apart(Kept', place')
      BY <3>2, <3>3 DEF Apart
    <3>5. InOrder(AtEnd', << >>, Kept', place')
      BY <3>3, NothingInOrder
    <3> QED
      BY <3>1, <3>4, <3>5 DEF Ordered
  <2> QED
    BY <1>3, <1>5, <1>8, <2>2, <2>3, IdleIsJob, Moves DEF Settled
<1>12. CASE k.plan # {w}
  <2>1. PICK j : j = [k EXCEPT !.plan = k.plan \ {w}]
    OBVIOUS
  <2>2. j \in Job
    BY <1>3, <1>6, <2>1 DEF Job
  <2>3. j.step = "reorder" /\ j.plan = k.plan \ {w} /\ j.full = k.full
    BY <1>3, <1>6, <2>1 DEF Job
  <2>4. Become(r, j) /\ j # Idle
    BY <1>4, <1>12, <2>1, <2>3, IdleIsJob
  <2>5. /\ JobsTyped' /\ OneBusy'
        /\ job'[r] = j /\ \A q \in Request \ {r} : job'[q] = job[q]
        /\ tidy' = tidy /\ alone' \subseteq {r} /\ (alone' # {} => r \in alone)
    BY <1>1, <1>3, <2>2, <2>4, Becomes
  <2>6. ASSUME alone' # {} PROVE Undisturbed(j)'
    <3>1. /\ tidy' => j.full
          /\ born' = << >>
          /\ j.full => Rewriting(j.plan, rows', place')
      BY <1>5, <1>9, <1>10, <2>3, <2>5, <2>6
    <3> QED
      BY <2>3, <3>1 DEF Undisturbed
  <2>7. ~ Settled'
    BY <2>4, <2>5 DEF Settled
  <2> QED
    BY <1>3, <1>5, <1>8, <2>2, <2>3, <2>5, <2>6, <2>7, Moves
<1> QED
  BY <1>11, <1>12

LEMMA SortRowsKeeps ==
  ASSUME IInv, NEW r \in Request, Sort(r)
  PROVE  IInv'
<1>1. job[r].step = "sort" /\ job[r] # Idle
  BY BusyStep DEF Sort, At
<1>2. /\ ListTyped /\ JobsTyped /\ OneBusy /\ job[r] \in Job
      /\ r \in alone => Undisturbed(job[r])
      /\ ~ tidy => born = << >>
      /\ kind \in {"subjects", "subjectPrayers"}
      /\ place \in Positions
  BY <1>1, UnderWay
<1>3. PICK f \in Sorted :
        Become(r, [Idle EXCEPT !.step = "number", !.full = TRUE,
                               !.plan = {<<i, f[i]>> : i \in Visible},
                               !.before = {<<i, place[i]>> : i \in Visible}])
  BY DEF Sort
<1>4. UNCHANGED <<kind, rows, hidden, place, drawn, born>>
  BY DEF Sort, list
<1>5. PICK P : P = {<<i, f[i]>> : i \in Visible}
  OBVIOUS
<1>6. PICK B : B = {<<i, place[i]>> : i \in Visible}
  OBVIOUS
<1>7. Visible \in SUBSET Item /\ Visible \in SUBSET rows /\ Kept = Visible /\ AtEnd \in BOOLEAN
  BY <1>2, KeptIsPart
<1>8. /\ f \in [Visible -> 0 .. Cardinality(Visible) - 1]
      /\ \A x, y \in Visible : (f[x] = f[y] => x = y) /\ (place[x] < place[y] => f[x] < f[y])
  BY DEF Sorted
<1>9. \A i \in Visible : f[i] \in Nat /\ place[i] \in Nat
  BY <1>2, <1>7, <1>8, FS_Subset, FS_CardinalityType DEF Positions
<1>10. Numbers(P, B, Visible, place) /\ \A i \in Visible : Target(P, place)[i] = f[i]
  <2>1. PICK V : V = Visible
    OBVIOUS
  <2>2. PICK h : h = place
    OBVIOUS
  <2>3. /\ V \in SUBSET Item /\ h \in Positions /\ f \in [V -> 0 .. Cardinality(V) - 1]
        /\ \A x, y \in V : (f[x] = f[y] => x = y) /\ (h[x] < h[y] => f[x] < f[y])
    BY <1>2, <1>7, <1>8, <2>1, <2>2
  <2>4. P = Pairs(V, f) /\ B = Pairs(V, h)
    BY <1>5, <1>6, <2>1, <2>2 DEF Pairs
  <2>5. Numbers(P, B, V, h) /\ \A i \in V : Target(P, h)[i] = f[i]
    BY <2>3, <2>4, NumbersStart
  <2> QED
    BY <2>1, <2>2, <2>5
<1>11. P \in SUBSET (Item \X Nat) /\ B \in SUBSET (Item \X Nat)
  BY <1>5, <1>6, <1>7, <1>9
<1>12. PICK j : j = [Idle EXCEPT !.step = "number", !.full = TRUE, !.plan = P, !.before = B]
  OBVIOUS
<1>13. j.step = "number" /\ j.plan = P /\ j.before = B
  BY <1>12 DEF Idle
<1>14. j \in Job /\ j # Idle
  BY <1>11, <1>12, <1>13, IdleIsJob DEF Idle, Job
<1>15. Become(r, j)
  BY <1>3, <1>5, <1>6, <1>12
<1>16. /\ JobsTyped' /\ OneBusy'
       /\ job'[r] = j /\ \A q \in Request \ {r} : job'[q] = job[q]
       /\ tidy' = tidy /\ alone' \subseteq {r} /\ (alone' # {} => r \in alone)
  BY <1>1, <1>2, <1>14, <1>15, Becomes
<1>17. ListTyped' /\ ~ Settled'
  BY <1>2, <1>4, <1>14, <1>16 DEF ListTyped, Settled
<1>18. ASSUME alone' # {} PROVE Undisturbed(j)'
  <2>1. InOrder(AtEnd, born, Visible, place)
    BY <1>1, <1>2, <1>7, <1>16, <1>18 DEF Undisturbed, Ordered
  <2>2. \A x, y \in Visible : place[x] < place[y] => Target(P, place)[x] < Target(P, place)[y]
    BY <1>8, <1>10
  <2>3. \A x \in Visible : place[x] \in Int /\ Target(P, place)[x] \in Int
    BY <1>9, <1>10
  <2>4. InOrder(AtEnd, born, Visible, Target(P, place))
    BY <1>7, <2>1, <2>2, <2>3, InOrderNumbered
  <2>5. Visible' = Visible /\ Kept' = Visible /\ AtEnd' = AtEnd
    BY <1>4, <1>7 DEF Visible, Kept, AtEnd
  <2>6. Numbers(P, B, Visible', place') /\ InOrder(AtEnd', born', Kept', Target(P, place'))
    BY <1>4, <1>10, <2>4, <2>5
  <2> QED
    BY <1>13, <2>6 DEF Undisturbed, Ordered
<1> QED
  BY <1>2, <1>4, <1>13, <1>14, <1>16, <1>17, <1>18, Moves

LEMMA NumberNextKeeps ==
  ASSUME IInv, NEW r \in Request, NumberNext(r)
  PROVE  IInv'
<1>1. job[r].step = "number" /\ job[r] # Idle
  BY BusyStep DEF NumberNext, At
<1>2. PICK k : k = job[r]
  OBVIOUS
<1>3. /\ ListTyped /\ JobsTyped /\ OneBusy /\ k \in Job
      /\ r \in alone => Undisturbed(k)
      /\ ~ tidy => born = << >>
      /\ kind \in {"subjects", "subjectPrayers"}
      /\ place \in Positions
  BY <1>1, <1>2, UnderWay
<1>4. PICK w \in k.plan :
        /\ place' = IF w \notin k.before /\ w[1] \in rows
                    THEN [place EXCEPT ![w[1]] = w[2]] ELSE place
        /\ Become(r, [k EXCEPT !.plan = k.plan \ {w}])
  BY <1>2 DEF NumberNext
<1>5. UNCHANGED <<kind, rows, hidden, drawn, born>>
  BY DEF NumberNext
<1>6. k.step = "number" /\ k.plan \in SUBSET (Item \X Nat) /\ k.before \in SUBSET (Item \X Nat)
  BY <1>1, <1>2, <1>3 DEF Job
<1>7. w[1] \in Item /\ w[2] \in Nat
  BY <1>6
<1>8. ListTyped'
  BY <1>3, <1>4, <1>5, <1>7, PlaceTyped DEF ListTyped
<1>9. PICK j : j = [k EXCEPT !.plan = k.plan \ {w}]
  OBVIOUS
<1>10. j \in Job
  BY <1>3, <1>6, <1>9 DEF Job
<1>11. j.step = "number" /\ j.plan = k.plan \ {w} /\ j.before = k.before
  BY <1>3, <1>6, <1>9 DEF Job
<1>12. j # Idle
  BY <1>11, IdleIsJob
<1>13. /\ JobsTyped' /\ OneBusy'
       /\ job'[r] = j /\ \A q \in Request \ {r} : job'[q] = job[q]
       /\ tidy' = tidy /\ alone' \subseteq {r} /\ (alone' # {} => r \in alone)
  BY <1>1, <1>3, <1>4, <1>9, <1>10, <1>12, Becomes
<1>14. ~ Settled'
  BY <1>12, <1>13 DEF Settled
<1>15. ASSUME alone' # {} PROVE Undisturbed(j)'
  <2>1. Numbers(k.plan, k.before, Visible, place) /\ Ordered(Target(k.plan, place))
    BY <1>3, <1>6, <1>13, <1>15 DEF Undisturbed
  <2>2. w[1] \in rows /\ Visible \in SUBSET Item
    BY <2>1, KeptIsPart DEF Numbers, Visible
  <2>3. place' = IF w \notin k.before THEN [place EXCEPT ![w[1]] = w[2]] ELSE place
    BY <1>4, <2>2
  <2>4. /\ Target(k.plan \ {w}, place') = Target(k.plan, place)
        /\ Numbers(k.plan \ {w}, k.before, Visible, place')
    <3>1. PICK h \in Positions : h = place
      BY <1>3
    <3>2. PICK V \in SUBSET Item : V = Visible
      BY <2>2
    <3>3. PICK g : g = place'
      OBVIOUS
    <3>4. g = IF w \notin k.before THEN [h EXCEPT ![w[1]] = w[2]] ELSE h
      BY <2>3, <3>1, <3>3
    <3>5. Target(k.plan \ {w}, g) = Target(k.plan, h) /\ Numbers(k.plan \ {w}, k.before, V, g)
      BY <1>6, <2>1, <3>1, <3>2, <3>4, Numbered
    <3> QED
      BY <3>1, <3>2, <3>3, <3>5
  <2>5. Visible' = Visible /\ Kept' = Kept /\ AtEnd' = AtEnd
    BY <1>5 DEF Visible, Kept, AtEnd
  <2>6. Numbers(j.plan, j.before, Visible', place')
        /\ InOrder(AtEnd', born', Kept', Target(j.plan, place'))
    BY <1>5, <1>11, <2>1, <2>4, <2>5 DEF Ordered
  <2> QED
    BY <1>11, <2>6 DEF Undisturbed, Ordered
<1> QED
  BY <1>3, <1>5, <1>8, <1>10, <1>11, <1>13, <1>14, <1>15, Moves

LEMMA NumberLastKeeps ==
  ASSUME IInv, NEW r \in Request, NumberLast(r)
  PROVE  IInv'
<1>1. job[r].step = "number" /\ job[r] # Idle
  BY BusyStep DEF NumberLast, At
<1>2. PICK k : k = job[r]
  OBVIOUS
<1>3. /\ ListTyped /\ JobsTyped /\ OneBusy /\ k \in Job
      /\ r \in alone => Undisturbed(k)
      /\ ~ tidy => born = << >>
      /\ kind \in {"subjects", "subjectPrayers"}
  BY <1>1, <1>2, UnderWay
<1>4. /\ k.plan = {} /\ Complete(r, [k EXCEPT !.step = "answer"])
      /\ UNCHANGED <<kind, rows, hidden, place, drawn, born>>
  BY <1>2 DEF NumberLast, list
<1>5. PICK j : j = [k EXCEPT !.step = "answer"]
  OBVIOUS
<1>6. j \in Job
  BY <1>3, <1>5 DEF Job
<1>7. j.step = "answer" /\ j.plan = {} /\ j.before = k.before
  BY <1>3, <1>4, <1>5 DEF Job
<1>8. j # Idle
  BY <1>7, IdleIsJob
<1>9. /\ JobsTyped' /\ OneBusy'
      /\ job'[r] = j /\ \A q \in Request \ {r} : job'[q] = job[q]
      /\ (tidy => tidy') /\ alone' \subseteq {r} /\ (alone' # {} => r \in alone)
  BY <1>1, <1>3, <1>4, <1>5, <1>6, <1>8, Completes
<1>10. ListTyped' /\ ~ Settled'
  BY <1>3, <1>4, <1>8, <1>9 DEF ListTyped, Settled
<1>11. ASSUME alone' # {} PROVE Undisturbed(j)'
  <2>1. Numbers(k.plan, k.before, Visible, place) /\ Ordered(Target(k.plan, place))
    BY <1>1, <1>2, <1>3, <1>9, <1>11 DEF Undisturbed
  <2>2. Visible' = Visible /\ Kept' = Kept /\ AtEnd' = AtEnd
    BY <1>4 DEF Visible, Kept, AtEnd
  <2>3. Numbers(j.plan, j.before, Visible', place')
        /\ InOrder(AtEnd', born', Kept', Target(j.plan, place'))
    BY <1>4, <1>7, <2>1, <2>2 DEF Ordered
  <2> QED
    BY <1>7, <2>3 DEF Undisturbed, Ordered
<1> QED
  BY <1>3, <1>4, <1>6, <1>7, <1>9, <1>10, <1>11, Moves

LEMMA AnswerKeeps ==
  ASSUME IInv, NEW r \in Request, Answer(r)
  PROVE  IInv'
<1>1. job[r].step = "answer" /\ job[r] # Idle
  BY BusyStep DEF Answer, At
<1>2. /\ ListTyped /\ JobsTyped /\ OneBusy
      /\ r \in alone => Undisturbed(job[r])
      /\ tidy => r \in alone
      /\ ~ tidy => born = << >>
      /\ kind \in {"subjects", "subjectPrayers"}
      /\ place \in Positions
  BY <1>1, UnderWay
<1>3. Become(r, Idle) /\ UNCHANGED <<kind, rows, hidden, place, drawn, born>>
  BY DEF Answer, list
<1>4. /\ JobsTyped' /\ OneBusy'
      /\ job'[r] = Idle /\ \A q \in Request \ {r} : job'[q] = job[q]
      /\ tidy' = tidy /\ alone' = {}
  BY <1>1, <1>2, <1>3, IdleIsJob, Becomes
<1>5. ListTyped'
  BY <1>2, <1>3 DEF ListTyped
<1>6. ASSUME tidy' PROVE Apart(Kept', place') /\ Ordered(place)'
  <2>1. /\ job[r].plan = {} /\ Numbers(job[r].plan, job[r].before, Visible, place)
        /\ Ordered(Target(job[r].plan, place))
    BY <1>1, <1>2, <1>4, <1>6 DEF Undisturbed
  <2>2. Visible \in SUBSET Item /\ Kept = Visible
    BY <1>2, KeptIsPart
  <2>3. Target(job[r].plan, place) = place /\ Apart(Visible, place)
    <3>1. \A B : \A h \in Positions : Numbers({}, B, Visible, h) =>
              Target({}, h) = h /\ Apart(Visible, h)
      BY <2>2, NumbersEnd DEF Contiguous
    <3> QED
      BY <1>2, <2>1, <3>1
  <2>4. Kept' = Visible /\ AtEnd' = AtEnd
    BY <1>3, <2>2 DEF Kept, Visible, AtEnd
  <2> QED
    BY <1>3, <2>1, <2>2, <2>3, <2>4 DEF Ordered
<1> QED
  BY <1>2, <1>3, <1>4, <1>5, <1>6, IdleIsJob, Moves DEF Settled

LEMMA AbandonKeeps ==
  ASSUME IInv, NEW r \in Request, Abandon(r)
  PROVE  IInv'
<1>1. /\ job[r] # Idle /\ job' = [job EXCEPT ![r] = Idle] /\ tidy' = FALSE
      /\ alone' = alone \ {r} /\ born' = << >>
      /\ UNCHANGED <<kind, rows, hidden, place, drawn>>
  BY DEF Abandon, list
<1>2. ListTyped /\ JobsTyped /\ OneBusy
  BY <1>1, UnderWay
<1>3. alone' = {}
  BY <1>1, <1>2, Beside
<1>4. /\ JobsTyped' /\ job'[r] = Idle /\ \A q \in Request \ {r} : job'[q] = job[q]
  BY <1>1, <1>2, <1>3, IdleIsJob DEF JobsTyped
<1>5. OneBusy' /\ ListTyped' /\ ~ Settled'
  BY <1>1, <1>2, <1>3 DEF OneBusy, ListTyped, Settled
<1> QED
  BY <1>1, <1>3, <1>4, <1>5, IdleIsJob, Moves

-----------------------------------------------------------------------------
(* Every step *)

LEMMA InsertKeeps ==
  ASSUME IInv, NEW r \in Request, NEW i \in Item, Insert(r, i)
  PROVE  IInv'
<1>1. CASE CreateGroup(r, i)
  BY <1>1, NewOnTopKeeps DEF CreateGroup, AtEnd
<1>2. CASE AddUserToGroup(r, i)
  BY <1>2, NewOnTopKeeps DEF AddUserToGroup, AtEnd
<1>3. CASE JoinGroup(r, i)
  BY <1>3, NewOnTopKeeps DEF JoinGroup, AtEnd
<1>4. CASE CreateUserPrayer(r, i)
  BY <1>4, NewOnTopKeeps DEF CreateUserPrayer, AtEnd
<1>5. CASE CreateGroupPrayer(r, i)
  BY <1>5, NewOnTopKeeps DEF CreateGroupPrayer, AtEnd
<1>6. CASE CreatePrayerSubject(r, i)
  BY <1>6, NewAtEndKeeps DEF CreatePrayerSubject, AtEnd
<1>7. CASE CreateUserCategory(r, i)
  BY <1>7, NewAtEndKeeps DEF CreateUserCategory, AtEnd
<1>8. CASE CreateGroupCategory(r, i)
  BY <1>8, NewAtEndKeeps DEF CreateGroupCategory, AtEnd
<1>9. CASE CategoryLastFails(r, i)
  BY <1>9, CategoryLastFailsKeeps
<1> QED
  BY <1>1, <1>2, <1>3, <1>4, <1>5, <1>6, <1>7, <1>8, <1>9 DEF Insert

\* A request that lists keys by position gives no position twice.
LEMMA CountedKeeps ==
  ASSUME IInv, NEW r \in Request, NEW n \in Nat, NEW keys \in KeysFor(n), Counted(r, keys)
  PROVE  IInv'
<1> DEFINE plan == {<<keys[p], p>> : p \in DOMAIN keys}
<1>1. \A p \in DOMAIN keys : p \in Nat /\ keys[p] \in Item
  BY DEF KeysFor, IInv, TypeOK
<1>2. plan \in SUBSET (Item \X Nat)
  BY <1>1
<1>3. \A v \in plan : v = <<keys[v[2]], v[2]>>
  OBVIOUS
<1>4. \A v, w \in plan : v[2] = w[2] => v = w
  BY <1>3
<1>5. Rewrite(r, plan)
  BY DEF Counted
<1> HIDE DEF plan
<1> QED
  BY <1>2, <1>4, <1>5, RewriteKeeps

LEMMA ReorderPrayerSubjectsKeeps ==
  ASSUME IInv, NEW r \in Request, NEW D \in SUBSET drawn, NEW places \in [D -> 0 .. MaxPlace],
         ReorderPrayerSubjects(r, places)
  PROVE  IInv'
<1> DEFINE plan == {<<i, places[i]>> : i \in DOMAIN places}
<1>1. \A i \in DOMAIN places : i \in Item /\ places[i] \in Nat
  BY DEF IInv, TypeOK
<1>2. plan \in SUBSET (Item \X Nat)
  BY <1>1
<1>3. \A v \in plan : v[1] \in DOMAIN places /\ v = <<v[1], places[v[1]]>> /\ v[2] = places[v[1]]
  OBVIOUS
<1>4. \A i, j \in DOMAIN places : places[i] = places[j] => i = j
  BY DEF ReorderPrayerSubjects
<1>5. \A v, w \in plan : v[2] = w[2] => v = w
  BY <1>3, <1>4
<1>6. Rewrite(r, plan)
  BY DEF ReorderPrayerSubjects
<1> HIDE DEF plan
<1> QED
  BY <1>2, <1>5, <1>6, RewriteKeeps

LEMMA ReorderKeeps ==
  ASSUME IInv, NEW r \in Request, Reorder(r)
  PROVE  IInv'
<1>1. IsFiniteSet(Visible) /\ IsFiniteSet(drawn)
  BY KeptIsPart, FS_Subset DEF IInv, TypeOK
<1>2. Cardinality(Visible) \in Nat /\ Cardinality(drawn) \in Nat
  BY <1>1, FS_CardinalityType
<1>3. ASSUME NEW keys \in KeysFor(Cardinality(Visible)),
             \/ ReorderUserGroups(r, keys)
             \/ ReorderUserPrayers(r, keys) \/ ReorderGroupPrayers(r, keys)
             \/ ReorderPrayerSubjectPrayers(r, keys)
      PROVE  IInv'
  <2>1. Counted(r, keys)
    BY <1>3 DEF ReorderUserGroups, ReorderUserPrayers, ReorderGroupPrayers,
                ReorderPrayerSubjectPrayers
  <2> QED
    BY <1>2, <2>1, CountedKeeps
<1>4. ASSUME NEW D \in SUBSET drawn, NEW places \in [D -> 0 .. MaxPlace],
             ReorderPrayerSubjects(r, places)
      PROVE  IInv'
  BY <1>4, ReorderPrayerSubjectsKeeps
<1>5. ASSUME NEW n \in 0 .. Cardinality(drawn), NEW keys \in KeysFor(n),
             ReorderUserCategories(r, keys) \/ ReorderGroupCategories(r, keys)
      PROVE  IInv'
  <2>1. Counted(r, keys) /\ n \in Nat
    BY <1>2, <1>5 DEF ReorderUserCategories, ReorderGroupCategories
  <2> QED
    BY <2>1, CountedKeeps
<1> QED
  BY <1>3, <1>4, <1>5 DEF Reorder

\* Rows that nothing made room for, and rows that leave or go out of sight.
LEMMA OneStatementKeeps ==
  ASSUME IInv, NEW i \in Item,
         \/ AddPrayerAccess(i) \/ ContactAtZero(i)
         \/ \E p \in 0 .. MaxPlace : MoveToSubject(i, p)
         \/ RemoveUserFromGroup(i) \/ RemovePrayerAccess(i)
         \/ DeletePrayer(i) \/ DeleteCategory(i)
         \/ ArchiveCircle(i) \/ RestoreCircle(i) \/ ShareToSelf(i)
  PROVE  IInv'
<1>1. CASE AddPrayerAccess(i) \/ ContactAtZero(i)
  <2>1. InsertAt(i, 0)
    BY <1>1 DEF AddPrayerAccess, ContactAtZero
  <2> QED
    BY <2>1, InsertAtKeeps
<1>2. ASSUME NEW p \in 0 .. MaxPlace, MoveToSubject(i, p)
      PROVE  IInv'
  BY <1>2, InsertAtKeeps DEF MoveToSubject
<1>3. CASE RemoveUserFromGroup(i) \/ RemovePrayerAccess(i) \/ DeletePrayer(i) \/ DeleteCategory(i)
  <2>1. RemoveRow(i)
    BY <1>3 DEF RemoveUserFromGroup, RemovePrayerAccess, DeletePrayer, DeleteCategory
  <2> QED
    BY <2>1, RemoveRowKeeps
<1>4. CASE ArchiveCircle(i) \/ RestoreCircle(i) \/ ShareToSelf(i)
  BY <1>4, SightKeeps
<1> QED
  BY <1>1, <1>2, <1>3, <1>4

LEMMA NextKeeps == IInv /\ [Next]_vars => IInv'
<1> SUFFICES ASSUME IInv, [Next]_vars PROVE IInv'
  OBVIOUS
<1>1. ASSUME NEW r \in Request, NEW i \in Item, Insert(r, i) \/ DeletePrayerSubject(r, i)
      PROVE  IInv'
  BY <1>1, InsertKeeps, DeletePrayerSubjectKeeps
<1>2. ASSUME NEW r \in Request, NEW done \in SUBSET Visible, NEW twice \in BOOLEAN,
             GetUserPrayerSubjects(r, done, twice)
      PROVE  IInv'
  BY <1>2, GetUserPrayerSubjectsKeeps
<1>3. ASSUME NEW r \in Request, Reorder(r)
      PROVE  IInv'
  BY <1>3, ReorderKeeps
<1>4. ASSUME NEW r \in Request,
             InsertRow(r) \/ WriteNext(r) \/ Sort(r) \/ NumberNext(r)
                 \/ NumberLast(r) \/ Answer(r) \/ Abandon(r)
      PROVE  IInv'
  BY <1>4, InsertRowKeeps, WriteNextKeeps, SortRowsKeeps, NumberNextKeeps, NumberLastKeeps,
     AnswerKeeps, AbandonKeeps
<1>5. ASSUME NEW i \in Item,
             \/ AddPrayerAccess(i) \/ ContactAtZero(i)
             \/ \E p \in 0 .. MaxPlace : MoveToSubject(i, p)
             \/ RemoveUserFromGroup(i) \/ RemovePrayerAccess(i)
             \/ DeletePrayer(i) \/ DeleteCategory(i)
             \/ ArchiveCircle(i) \/ RestoreCircle(i) \/ ShareToSelf(i)
      PROVE  IInv'
  BY <1>5, OneStatementKeeps
<1>6. CASE UNCHANGED vars
  <2>1. UNCHANGED <<kind, rows, hidden, place, drawn, job, alone, tidy, born>>
    BY <1>6 DEF vars, list
  <2> QED
    BY <2>1 DEF IInv, TypeOK, OneBusy, Keys, InsertsDiffer, BornIn, KindsFit, ListInv, Settled,
                Undisturbed, Ordered, Kept, Visible, AtEnd, At
<1> QED
  BY <1>1, <1>2, <1>3, <1>4, <1>5, <1>6 DEF Next

LEMMA InitHolds == Init => IInv
<1> SUFFICES ASSUME Init PROVE IInv
  OBVIOUS
<1>1. JobsTyped /\ \A r \in Request : job[r] = Idle
  BY IdleIsJob DEF Init, JobsTyped
<1>2. ListTyped /\ InsertsTyped
  BY <1>1, IdleIsJob DEF Init, ListTyped, InsertsTyped, At, Positions
<1>3. OneBusy
  BY <1>1 DEF Init, OneBusy
<1>4. Keys
  BY <1>1, IdleIsJob DEF Init, Keys, InsertsDiffer, BornIn, KindsFit, At
<1>5. ListInv
  <2>1. Kept = {} /\ AtEnd \in BOOLEAN
    BY DEF Init, Kept, Visible, AtEnd
  <2> QED
    BY <2>1 DEF Init, ListInv, Apart, Ordered, InOrder
<1> QED
  BY <1>1, <1>2, <1>3, <1>4, <1>5, TypeParts DEF IInv

LEMMA Inductive == Spec => []IInv
  BY InitHolds, NextKeeps, PTL DEF Spec

-----------------------------------------------------------------------------
(* The theorems *)

\* Type correctness of a list, its requests and their plans: an insert under
\* way waits with a key of its own that has no row yet, and archived rows are
\* rows, whatever overlaps or fails.
THEOREM TypeCorrect == Spec => []TypeOK
<1>1. IInv => TypeOK
  BY DEF IInv
<1> QED
  BY <1>1, Inductive, PTL

\* The inserts at the top and at the end, reorders that name every row and
\* renumberings leave no two rows in one position, for any number of rows.
THEOREM PlacesStayApart == Spec => []PlacesDiffer
<1>1. IInv => PlacesDiffer
  <2> SUFFICES ASSUME IInv, Settled PROVE \A x, y \in Visible : place[x] = place[y] => x = y
    BY DEF PlacesDiffer
  <2>1. Apart(Kept, place) /\ Visible \subseteq Kept
    BY KeptIsPart DEF IInv, ListInv
  <2> QED
    BY <2>1 DEF Apart
<1> QED
  BY <1>1, Inductive, PTL

\* Until they are reordered, lists stand in the order their rows came in,
\* across removals, archiving, restoring and renumbering.
THEOREM ListsKeepOrder == Spec => []InOrderOfCreation
<1>1. IInv => InOrderOfCreation
  <2> SUFFICES ASSUME IInv, Settled, NEW m \in DOMAIN born, NEW n \in DOMAIN born,
                      m < n, {born[m], born[n]} \subseteq Visible
               PROVE  IF kind \in {"subjects", "categories"}
                      THEN place[born[m]] < place[born[n]]
                      ELSE place[born[m]] > place[born[n]]
    BY DEF InOrderOfCreation
  <2>1. Ordered(place) /\ Visible \subseteq Kept
    BY KeptIsPart DEF IInv, ListInv
  <2> QED
    BY <2>1 DEF Ordered, InOrder, AtEnd
<1> QED
  BY <1>1, Inductive, PTL

\* An undisturbed renumbering repairs a list in whatever state: it answers
\* with the rows at 0 .. n - 1 and no two of them turned round.
THEOREM RenumberingRepairs == Spec => []Renumbered
<1>1. IInv => Renumbered
  <2> SUFFICES ASSUME IInv, NEW r \in alone, At(r, "answer")
               PROVE  /\ {place[i] : i \in Visible} = 0 .. Cardinality(Visible) - 1
                      /\ \A v, w \in job[r].before :
                             v[2] < w[2] => place[v[1]] < place[w[1]]
    BY DEF Renumbered
  <2>1. job[r].plan = {} /\ Numbers(job[r].plan, job[r].before, Visible, place)
    BY DEF IInv, ListInv, Undisturbed, At
  <2>2. Visible \in SUBSET Item /\ place \in Positions
    BY KeptIsPart DEF IInv, TypeOK, Positions
  <2>3. Contiguous(job[r].before, Visible, place)
    <3>1. \A B : Numbers({}, B, Visible, place) => Contiguous(B, Visible, place)
      BY <2>2, NumbersEnd
    <3> QED
      BY <2>1, <3>1
  <2> QED
    BY <2>3 DEF Contiguous
<1> QED
  BY <1>1, Inductive, PTL
=============================================================================
