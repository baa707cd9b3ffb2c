---------------------------- MODULE DisplayOrder -----------------------------
(***************************************************************************)
(* The display order of the lists a user sees: positions are a column of   *)
(* each row, shifted, handed out, rewritten and renumbered by statements   *)
(* of their own.                                                           *)
(*                                                                         *)
(* A behaviour follows one list.  Its kind says which table it is and so   *)
(* which handlers reach it: "circles" (user_group of a user), "prayers"    *)
(* (prayer_access of a user or a circle), "subjectPrayers" (prayer rows of *)
(* one subject), "subjects" (prayer_subject of a user) and "categories"    *)
(* (prayer_category of a user or a circle).  Lists do not share rows, and  *)
(* a handler that touches two of them does so in statements of its own.    *)
(***************************************************************************)

EXTENDS FiniteSets, Integers, Sequences

CONSTANTS
    Item,       \* keys of rows; each is given out once
    Request,    \* concurrent request slots
    MaxPlace,   \* bound: the positions a client sends are at most this
    NoItem

ASSUME ItemAssumption == IsFiniteSet(Item) /\ NoItem \notin Item
ASSUME PlaceAssumption == MaxPlace \in Nat

Kind == {"circles", "prayers", "subjectPrayers", "subjects", "categories"}

VARIABLES
    kind,       \* which list this is
    rows,       \* the keys that have a row
    hidden,     \* rows the counts leave out: archived, or shared with a circle only
    place,      \* the position of each row
    drawn,      \* keys given out so far
    job,        \* what each request slot is doing
    alone,      \* history: running requests that nothing has run beside
    tidy,       \* history: since Init, or since the last undisturbed request that
                \*   gave every row a place, no requests overlapped, none failed,
                \*   and no row came in without room being made for it
    born        \* history: rows in the order they came in, while that is the order

list == <<rows, hidden, place>>
vars == <<kind, list, drawn, job, alone, tidy, born>>

Idle == [step |-> "idle", item |-> NoItem, at |-> 0, plan |-> {}, full |-> FALSE,
         before |-> {}]

\* full: the plan places every row.
\* before: the visible rows with their positions, as the renumbering read them.
Job == [step : {"idle", "insert", "reorder", "sort", "number", "answer"},
        item : Item \cup {NoItem}, at : Nat,
        plan : SUBSET (Item \X Nat), full : BOOLEAN, before : SUBSET (Item \X Nat)]

Visible == rows \ hidden

TypeOK ==
    /\ kind \in Kind
    /\ rows \subseteq drawn /\ drawn \subseteq Item
    /\ hidden \subseteq rows
    /\ place \in [Item -> Nat]
    /\ job \in [Request -> Job]
    /\ \A r \in Request : job[r].step = "insert" => job[r].item \in drawn \ rows
    /\ alone \subseteq Request
    /\ tidy \in BOOLEAN
    /\ born \in Seq(Item)

Init ==
    /\ kind \in Kind
    /\ rows = {} /\ hidden = {} /\ drawn = {}
    /\ place = [i \in Item |-> 0]
    /\ job = [r \in Request |-> Idle]
    /\ alone = {}
    /\ tidy = TRUE
    /\ born = << >>

-----------------------------------------------------------------------------
(* Jobs *)

\* A handler begins; `fine': what it does leaves a tidy list tidy.
Start(r, j, fine) ==
    /\ job[r] = Idle
    /\ job' = [job EXCEPT ![r] = j]
    /\ LET others == {q \in Request \ {r} : job[q] # Idle} IN
           /\ alone' = IF others = {} THEN {r} ELSE {}
           /\ tidy' = (tidy /\ fine /\ others = {})

At(r, step) == job[r].step = step

Become(r, j) ==
    /\ job' = [job EXCEPT ![r] = j]
    /\ alone' = IF j = Idle THEN alone \ {r} ELSE alone
    /\ UNCHANGED tidy

\* A handler that is one statement.
AtOnce(fine) ==
    /\ tidy' = (tidy /\ fine /\ \A r \in Request : job[r] = Idle)
    /\ alone' = {}
    /\ UNCHANGED job

\* The last write of a plan.
Complete(r, j) ==
    /\ job' = [job EXCEPT ![r] = j]
    /\ tidy' = (tidy \/ (r \in alone /\ job[r].full))
    /\ alone' = IF j = Idle THEN alone \ {r} ELSE alone

Remember(b) == born' = IF tidy' THEN b ELSE << >>

Draw(i) == i \notin drawn /\ drawn' = drawn \cup {i}

-----------------------------------------------------------------------------
(* A new row at the top: every row is shifted, then the row is inserted *)

\* Mutant of ShiftAll: the last row stays where it is.
ShiftSome == place' = [i \in Item |-> IF i \in rows /\ place[i] + 1 < Cardinality(rows)
                                      THEN place[i] + 1 ELSE place[i]]

ShiftAll == place' = [i \in Item |-> IF i \in rows THEN place[i] + 1 ELSE place[i]]

NewOnTop(r, i) ==
    /\ Draw(i)
    /\ ShiftAll
    /\ Start(r, [Idle EXCEPT !.step = "insert", !.item = i], TRUE)
    /\ Remember(born)
    /\ UNCHANGED <<kind, rows, hidden>>

CreateGroup(r, i) == kind = "circles" /\ NewOnTop(r, i)
AddUserToGroup(r, i) == kind = "circles" /\ NewOnTop(r, i)
JoinGroup(r, i) == kind = "circles" /\ NewOnTop(r, i)
CreateUserPrayer(r, i) == kind \in {"prayers", "subjectPrayers"} /\ NewOnTop(r, i)

\* In a subject's list the author has no access row for it: hidden.
CreateGroupPrayer(r, i) == kind \in {"prayers", "subjectPrayers"} /\ NewOnTop(r, i)

(* A new row at the end: the largest position is read, then the row inserted *)

Last == IF rows = {} THEN -1
        ELSE CHOOSE m \in {place[i] : i \in rows} : \A i \in rows : place[i] <= m

\* Mutant of NewAtEnd: the rows are counted instead.
NewAtEndCounted(r, i) ==
    /\ Draw(i)
    /\ Start(r, [Idle EXCEPT !.step = "insert", !.item = i, !.at = Cardinality(rows)], TRUE)
    /\ Remember(born)
    /\ UNCHANGED <<kind, list>>

NewAtEnd(r, i) ==
    /\ Draw(i)
    /\ Start(r, [Idle EXCEPT !.step = "insert", !.item = i, !.at = Last + 1], TRUE)
    /\ Remember(born)
    /\ UNCHANGED <<kind, list>>

CreatePrayerSubject(r, i) == kind = "subjects" /\ NewAtEnd(r, i)
CreateUserCategory(r, i) == kind = "categories" /\ NewAtEnd(r, i)
CreateGroupCategory(r, i) == kind = "categories" /\ NewAtEnd(r, i)

\* A failing read of the largest position is logged and taken for an empty list.
CategoryLastFails(r, i) ==
    /\ kind = "categories"
    /\ Draw(i)
    /\ Start(r, [Idle EXCEPT !.step = "insert", !.item = i], FALSE)
    /\ Remember(born)
    /\ UNCHANGED <<kind, list>>

InsertRow(r) ==
    /\ At(r, "insert")
    /\ LET i == job[r].item IN
           /\ rows' = rows \cup {i}
           /\ place' = [place EXCEPT ![i] = job[r].at]
           /\ hidden' \in {hidden} \cup IF kind = "subjectPrayers" THEN {hidden \cup {i}} ELSE {}
           /\ born' = IF tidy THEN Append(born, i) ELSE << >>
    /\ Become(r, Idle)
    /\ UNCHANGED <<kind, drawn>>

(* A new row that nothing made room for *)

InsertAt(i, p) ==
    /\ Draw(i)
    /\ rows' = rows \cup {i}
    /\ place' = [place EXCEPT ![i] = p]
    /\ AtOnce(FALSE)
    /\ Remember(born)
    /\ UNCHANGED <<kind, hidden>>

\* The new access row has the column's zero value.
AddPrayerAccess(i) == kind = "prayers" /\ InsertAt(i, 0)

\* The self subject and the contact cards: "will be sorted with other contacts".
ContactAtZero(i) == kind = "subjects" /\ InsertAt(i, 0)

\* A prayer comes from another subject with the position it had there.
MoveToSubject(i, p) == kind = "subjectPrayers" /\ InsertAt(i, p)

-----------------------------------------------------------------------------
(* Rows leave, and go out of sight *)

\* Mutant of Remove: the archived copy of the row stays.
RemoveShownOnly(i) ==
    /\ rows' = rows \ {i}
    /\ place' = [place EXCEPT ![i] = 0]
    /\ UNCHANGED hidden

Remove(i) ==
    /\ rows' = rows \ {i}
    /\ hidden' = hidden \ {i}
    /\ place' = [place EXCEPT ![i] = 0]

RemoveRow(i) ==
    /\ i \in rows
    /\ Remove(i)
    /\ AtOnce(TRUE)
    /\ Remember(born)
    /\ UNCHANGED <<kind, drawn>>

RemoveUserFromGroup(i) == kind = "circles" /\ RemoveRow(i)
RemovePrayerAccess(i) == kind = "prayers" /\ RemoveRow(i)
DeletePrayer(i) == kind = "subjectPrayers" /\ RemoveRow(i)
DeleteCategory(i) == kind = "categories" /\ RemoveRow(i)

ArchiveCircle(i) ==
    /\ kind = "circles"
    /\ i \in Visible
    /\ hidden' = hidden \cup {i}
    /\ AtOnce(TRUE)
    /\ Remember(born)
    /\ UNCHANGED <<kind, rows, place, drawn>>

RestoreCircle(i) ==
    /\ kind = "circles"
    /\ i \in hidden
    /\ hidden' = hidden \ {i}
    /\ AtOnce(TRUE)
    /\ Remember(born)
    /\ UNCHANGED <<kind, rows, place, drawn>>

\* The share-to-self row of AddPrayerAccess brings a prayer back in sight, at
\* the position it has.
ShareToSelf(i) ==
    /\ kind = "subjectPrayers"
    /\ i \in hidden
    /\ hidden' = hidden \ {i}
    /\ AtOnce(FALSE)
    /\ Remember(born)
    /\ UNCHANGED <<kind, rows, place, drawn>>

-----------------------------------------------------------------------------
(* Reordering: the client sends keys with positions; one UPDATE for each *)

Rewrite(r, plan) ==
    /\ plan # {}
    /\ LET full == {w[1] : w \in plan} = rows IN
           Start(r, [Idle EXCEPT !.step = "reorder", !.plan = plan, !.full = full], full)
    /\ born' = << >>
    /\ UNCHANGED <<kind, list, drawn>>

\* "Validate that all ... are included": by their number.  Positions are
\* unique and contiguous, keys are not looked at.
Counted(r, keys) == Rewrite(r, {<<keys[p], p>> : p \in DOMAIN keys})

KeysFor(n) == [0 .. n - 1 -> drawn]

ReorderUserGroups(r, keys) == kind = "circles" /\ Counted(r, keys)
ReorderUserPrayers(r, keys) == kind = "prayers" /\ Counted(r, keys)
ReorderGroupPrayers(r, keys) == kind = "prayers" /\ Counted(r, keys)
ReorderPrayerSubjectPrayers(r, keys) == kind = "subjectPrayers" /\ Counted(r, keys)

\* Unique positions, for as many subjects as the client likes.
ReorderPrayerSubjects(r, places) ==
    /\ kind = "subjects"
    /\ \A i, j \in DOMAIN places : places[i] = places[j] => i = j
    /\ Rewrite(r, {<<i, places[i]>> : i \in DOMAIN places})

\* The index in the request, for as many categories as the client likes.
ReorderUserCategories(r, keys) == kind = "categories" /\ Counted(r, keys)
ReorderGroupCategories(r, keys) == kind = "categories" /\ Counted(r, keys)

\* Categories are written in the order of their indices; the other requests
\* list their pairs in whatever order the client chose.
WriteNext(r) ==
    /\ At(r, "reorder")
    /\ \E w \in job[r].plan :
          /\ kind = "categories" => \A v \in job[r].plan : w[2] <= v[2]
          /\ place' = IF w[1] \in rows THEN [place EXCEPT ![w[1]] = w[2]] ELSE place
          /\ IF job[r].plan = {w} THEN Complete(r, Idle)
             ELSE Become(r, [job[r] EXCEPT !.plan = @ \ {w}])
    /\ UNCHANGED <<kind, rows, hidden, drawn, born>>

-----------------------------------------------------------------------------
(* Renumbering *)

\* The rows come with the answered ones last (`done'); which prayers are
\* answered is left open.
InPlace(done) ==
    LET Before(x, y) == \/ x \notin done /\ y \in done
                        \/ (x \in done <=> y \in done) /\ place[x] < place[y]
    IN  /\ \A x \in Visible : place[x] = Cardinality({y \in Visible : Before(y, x)})
        /\ \A x, y \in Visible : place[x] = place[y] => x = y

\* A read that renumbers when a position is not its row's index, or when an
\* access row of type subject shows a prayer a second time.
GetUserPrayerSubjects(r, done, twice) ==
    /\ kind = "subjectPrayers"
    /\ Visible # {}
    /\ twice \/ ~ InPlace(done)
    /\ Start(r, [Idle EXCEPT !.step = "sort"], TRUE)
    /\ Remember(born)
    /\ UNCHANGED <<kind, list, drawn>>

\* The checks before the DELETE look at other tables (Contacts).
DeletePrayerSubject(r, i) ==
    /\ kind = "subjects"
    /\ i \in rows
    /\ Remove(i)
    /\ Start(r, [Idle EXCEPT !.step = "sort"], TRUE)
    /\ Remember(born)
    /\ UNCHANGED <<kind, drawn>>

\* Mutant of Sorted: the rows come in any order.
SortedSomehow == {f \in [Visible -> 0 .. Cardinality(Visible) - 1] :
                     \A x, y \in Visible : f[x] = f[y] => x = y}

\* The orders in which the SELECT may return the rows: ties are arbitrary.
Sorted == {f \in [Visible -> 0 .. Cardinality(Visible) - 1] :
              \A x, y \in Visible : /\ f[x] = f[y] => x = y
                                    /\ place[x] < place[y] => f[x] < f[y]}

\* resequencePrayersInSubject, resequencePrayerSubjects: read the rows in
\* order, then UPDATE those whose position is not their index.
Sort(r) ==
    /\ At(r, "sort")
    /\ \E f \in Sorted :
          Become(r, [Idle EXCEPT !.step = "number", !.full = TRUE,
                                 !.plan = {<<i, f[i]>> : i \in Visible},
                                 !.before = {<<i, place[i]>> : i \in Visible}])
    /\ UNCHANGED <<kind, list, drawn, born>>

\* A row that was read at its index needs no UPDATE.
NumberNext(r) ==
    /\ At(r, "number")
    /\ \E w \in job[r].plan :
          /\ \A v \in job[r].plan : w[2] <= v[2]
          /\ place' = IF w \notin job[r].before /\ w[1] \in rows
                      THEN [place EXCEPT ![w[1]] = w[2]] ELSE place
          /\ Become(r, [job[r] EXCEPT !.plan = @ \ {w}])
    /\ UNCHANGED <<kind, rows, hidden, drawn, born>>

NumberLast(r) ==
    /\ At(r, "number")
    /\ job[r].plan = {}
    /\ Complete(r, [job[r] EXCEPT !.step = "answer"])
    /\ UNCHANGED <<kind, list, drawn, born>>

\* The rows are fetched again for the answer.
Answer(r) ==
    /\ At(r, "answer")
    /\ Become(r, Idle)
    /\ UNCHANGED <<kind, list, drawn, born>>

-----------------------------------------------------------------------------

\* A statement fails and the handler answers 500, or the server stops.
Abandon(r) ==
    /\ job[r] # Idle
    /\ job' = [job EXCEPT ![r] = Idle]
    /\ tidy' = FALSE
    /\ alone' = alone \ {r}
    /\ born' = << >>
    /\ UNCHANGED <<kind, list, drawn>>

Insert(r, i) ==
    \/ CreateGroup(r, i) \/ AddUserToGroup(r, i) \/ JoinGroup(r, i)
    \/ CreateUserPrayer(r, i) \/ CreateGroupPrayer(r, i)
    \/ CreatePrayerSubject(r, i)
    \/ CreateUserCategory(r, i) \/ CreateGroupCategory(r, i) \/ CategoryLastFails(r, i)

Reorder(r) ==
    \/ \E keys \in KeysFor(Cardinality(Visible)) :
          \/ ReorderUserGroups(r, keys)
          \/ ReorderUserPrayers(r, keys) \/ ReorderGroupPrayers(r, keys)
          \/ ReorderPrayerSubjectPrayers(r, keys)
    \/ \E D \in SUBSET drawn : \E places \in [D -> 0 .. MaxPlace] :
          ReorderPrayerSubjects(r, places)
    \/ \E n \in 0 .. Cardinality(drawn) : \E keys \in KeysFor(n) :
          ReorderUserCategories(r, keys) \/ ReorderGroupCategories(r, keys)

Next ==
    \/ \E r \in Request, i \in Item : Insert(r, i) \/ DeletePrayerSubject(r, i)
    \/ \E r \in Request, done \in SUBSET Visible, twice \in BOOLEAN :
          GetUserPrayerSubjects(r, done, twice)
    \/ \E r \in Request : Reorder(r)
    \/ \E r \in Request : InsertRow(r) \/ WriteNext(r) \/ Sort(r) \/ NumberNext(r)
                          \/ NumberLast(r) \/ Answer(r) \/ Abandon(r)
    \/ \E i \in Item :
          \/ AddPrayerAccess(i) \/ ContactAtZero(i)
          \/ \E p \in 0 .. MaxPlace : MoveToSubject(i, p)
          \/ RemoveUserFromGroup(i) \/ RemovePrayerAccess(i)
          \/ DeletePrayer(i) \/ DeleteCategory(i)
          \/ ArchiveCircle(i) \/ RestoreCircle(i) \/ ShareToSelf(i)

Spec == Init /\ [][Next]_vars

-----------------------------------------------------------------------------
(* Properties *)

Settled == tidy /\ \A r \in Request : job[r] = Idle

\* "This makes room for the new prayer at position 0", "each group must have a
\* unique sequence": while requests do not overlap or fail and each reorder
\* names every row, no two rows that are shown have one position.
PlacesDiffer ==
    Settled => \A x, y \in Visible : place[x] = place[y] => x = y

\* Until someone reorders them, lists that insert at the top show the newest
\* row first, and lists that append show it last, whatever is removed,
\* hidden or renumbered in between.
InOrderOfCreation ==
    Settled => \A m, n \in DOMAIN born :
        m < n /\ {born[m], born[n]} \subseteq Visible =>
            IF kind \in {"subjects", "categories"}
            THEN place[born[m]] < place[born[n]]
            ELSE place[born[m]] > place[born[n]]

\* "ensures sequences are contiguous (0, 1, 2, ...)": from whatever gaps and
\* duplicates the list was in, a renumbering that nothing disturbs leaves the
\* rows at 0 .. n - 1, and never turns two of them round.
Renumbered ==
    \A r \in alone : At(r, "answer") =>
        /\ {place[i] : i \in Visible} = 0 .. Cardinality(Visible) - 1
        /\ \A v, w \in job[r].before : v[2] < w[2] => place[v[1]] < place[w[1]]
=============================================================================
