# Prayerloop backend: a TLA+ verification project

The backend is a Go service (Gin handlers, goqu over PostgreSQL) for sharing
prayers in circles. This directory holds TLA+ models of its core, TLC
configurations that check them on small instances, and proofs, checked by
TLAPS, of the properties that matter most for every instance. Paths below are
relative to the repository; `controllers/` stands for `src/controllers/` and so
on. `PROJECT.json` lists components, runs, the source lines each definition
models, findings, hazards and theorems in machine-readable form.

Every request is handled by its own goroutine. There is no lock around the data
and no queue, and there are eight explicit transactions in all: a handler is a
sequence of SQL statements, each committed on its own, and two requests may
interleave between any two of them. That is where the program can go wrong in
ways its tests, which run one handler at a time against a mocked database, do
not show, so it is what the models are about. The rule used throughout: **one
action is one SQL statement together with the code up to the next one**, and a
request slot (`job`, or `pc` and `presented`) holds what its handler has read
and will still rely on. Handlers that consist of a single statement, or of one
transaction, are one action.

What may be claimed of such a program comes in two kinds, and most properties
here are one or the other: what holds **however requests overlap and fail**,
and what holds **until they overlap or fail**. For the second kind every module
keeps a history variable (`overlapped`, `calm`, `tidy`) that records whether
anything has overlapped or failed yet, and the property is stated of behaviours
in which nothing has. One run then answers both kinds of question.

## 1. The system and its parts

| Component (sources) | State | Operations | What is hard | What makes it correct | Module |
|---|---|---|---|---|---|
| Refresh tokens (`controllers/authHelpers.go`, `models/authToken.go`) | `auth_refresh_token`: hash, family, revoked, expiry | issue at login, rotate, detect reuse, logout, delete with the account | SELECT, UPDATE and INSERT of one rotation interleave with other rotations; a crash between them | an exchanged token is dead, a family is one login and has one live token | `RefreshTokens` |
| Circles (`controllers/groupController.go`, `groupOwnershipController.go`) | `group_profile.created_by`, `user_group` | create, add, remove, delete, transfer, hand-off | the leaving owner is deleted before an heir is found; checks before unconditional writes | someone who is in the circle, and has it open, leads it | `Circles` |
| Invites (`controllers/inviteController.go`) | `group_invite` | create, expire, join | the code is closed three statements after it was read | a code lets in one user, or as many as overlap | `Circles` |
| Circle limit, archive, restore budget (`controllers/subscriptionHelpers.go`, `circleArchiveController.go`, `circleArchiveHelpers.go`) | active rows of a user, `circle_restore_event`, undo window | gate of create and join, archive, restore | count now, insert later; bulk restore; rolling windows; a lapsing subscription | free users stay within limit and budget, nobody loses a circle, charges match restores | `CircleAllowance` |
| Subscription cache (`controllers/revenueCatController.go`, `services/revenueCatService.go`) | `user_subscription`, `revenuecat_webhook_event` | webhook, sync, read | repeated, delayed, reordered deliveries; a sync that writes an old answer | the row ends up saying what the store says; grandfathered users stay premium | `Subscription` |
| OAuth sign-in and links (`controllers/oauthController.go`) | `user_external_identity`, `oauth_pending_link` | login, confirm link, link, unlink | a pending link claimed twice, the last credential removed, attempts counted by read and write | a claim works once, a user can always sign in | `Credentials` |
| Password reset (`controllers/passwordResetController.go`) | `password_reset_tokens` | request, verify, reset | attempts counted by read and write; the temporary token outlives its use | no code gives out more tokens than attempts are allowed | `Credentials` |
| Display order (every handler that writes a position) | `display_sequence` of circles, prayers, contacts and categories | insert at the top or the end, remove, reorder, renumber while reading | a shift and an insert are two statements; lists are renumbered row by row | rows that are shown have different places, in an order their user knows | `DisplayOrder` |
| Connection requests (`controllers/connectionRequestController.go`) | `prayer_connection_request`, links of contacts | request, answer, remove a link | two answers at a time, removal while pending, a contact marked by a later statement | a contact waits only for a request that can be answered | `Contacts` |
| Contacts (`controllers/prayerSubjectController.go`) | `prayer_subject`, families and groups | create, link, retype, nest, delete | checks before writes; the fate of a contact's prayers | individuals have no members; no prayer is left without a contact | `Contacts`, `Prayers` |
| Circle contacts (`controllers/groupContactHelpers.go`) | cards and fellow contacts of a circle | set up and tear down when someone joins or leaves | find, then insert | a card for each member, and none for those who left; no prayer loses its contact but those on such a card | `Contacts`, `Prayers` |
| Prayers (`controllers/prayerController.go`, `prayerAccessHelpers.go`) | `prayer`, `prayer_access` | create, share, withdraw, edit, delete | rows of four origins for one prayer, deleted by five handlers | no two rows for one viewer, none of a prayer or for a circle that is gone | `Prayers` |
| Comments (`controllers/commentController.go`) | `prayer_comment` | add, hide, make private, delete | the flag that is written was read before | a deleted comment stays deleted | `PrayerActivity` |
| Prayer analytics (`controllers/prayerAnalyticsController.go`) | counters of a prayer | record | who prayed last is read before the counting statement | nobody who prayed is left out | `PrayerActivity` |
| Notifications (`services/notificationTriggerService.go`) | `notification`, `notification_debounce` | tell of a comment, an edit, a share | overlapping triggers within a window; two goroutines for one share | one notice per window; each member hears of a share once | `PrayerActivity` |
| Users and account deletion (`controllers/userController.go`) | `user_profile` and every table that refers to it | signup, delete | a long series of statements in an order the foreign keys dictate | an account can be deleted, and what remains has an owner | `Circles`, `RefreshTokens`, `Contacts`, `Prayers`, `Credentials` (signup, passwords) |
| OAuth providers, push, e-mail, rate limiter, routing, fixtures, static pages | | | section 6 | | |

How they interact. Handlers call one another's helpers as Go functions inside
the same request (`RemoveUserFromGroup` and `DeleteUserAccount` both call the
hand-off of `groupOwnershipController.go`; `JoinGroup` asks `isUnderCircleLimit`,
which asks `isPremiumUser`, which reads the row the webhook writes; creating,
joining and leaving a circle call the contact helpers). Otherwise they meet only
in the database. RevenueCat is the one outside party that calls in. The only
background work is what a handler starts with `go` and does not wait for: the
two goroutines of a share, which `PrayerActivity` models, and the notices and
history rows of other handlers, which nothing here depends on.

## 2. Modules

| Module | Models | Run | Proofs |
|---|---|---|---|
| `SessionFamilies` | the promise of rotating tokens | `ImplementsFamilies` of `RefreshTokens` | |
| `RefreshTokens` | `authHelpers.go` and the endpoints over it | `RefreshTokens`, `RefreshTokensReuse` | `RefreshTokensProofs` |
| `Circles` | one circle: row, members, invites, hand-off, account deletion as far as it touches a circle | `CirclesSerial`, `CirclesRacing` | `CirclesProofs` |
| `FreeTier` | what a user is promised and held to | `ImplementsFreeTier` of `Allowance` | |
| `CircleAllowance` | one user over all circles: gate, archive, restore, budget, a changing subscription | `Allowance` | `CircleAllowanceProofs` |
| `Subscription` | one user's cached subscription, with the store outside | `Subscription` | `CircleAllowanceProofs` |
| `Credentials` | passwords, identities, pending links, reset codes | `Credentials` | `CredentialsProofs` |
| `DisplayOrder` | the positions of one list, of any of five kinds | `DisplayOrder` | `DisplayOrderProofs` |
| `Contacts` | contacts, connection requests, and the contacts of one circle | `Contacts` | `ContactsProofs` |
| `Prayers` | prayers, their rows of access, the contacts, cards, circles and accounts they hang on | `Prayers`, `PrayersUpdated` | `PrayersProofs` |
| `PrayerActivity` | comments, counters and notices of one prayer | `PrayerActivity` | `PrayerActivityProofs` |

`MC*` modules add symmetry sets, the values of function constants and the
constraints of section 3.

Rows of different circles, users, prayers and families do not interact inside a
handler except through the tables named, so each module takes the smallest unit
that owns its state: a circle in `Circles`, a user in `CircleAllowance` and
`Subscription`, a list in `DisplayOrder`, a prayer in `PrayerActivity`. The
views of shared tables fit together: a request in `Circles` has already passed
the gate of `CircleAllowance`, and `Leave` of `CircleAllowance` stands for
whatever `Circles` does to the user's row; `CircleAllowance` takes `is_premium`
as a flag that may change between any two statements, which covers every
behaviour of `Subscription`; `Contacts` and `PrayerActivity` let anyone join,
archive or leave at any moment, whoever leads the circle, and `Contacts` has
each of the ways in which a membership begins or ends: a creator, `AddUserToGroup`
and `JoinGroup`, which create cards; `RemoveUserFromGroup` and `DeleteGroup`,
which take them away; and the deletion of an account, which leaves them. `Prayers`
has the same ways, since a prayer may be on a card. `PrayerActivity` lets
rows of access and links come and go, as `Prayers` and `Contacts` do while the
prayer is there;
and positions, which `Prayers` and `Contacts` leave out, are `DisplayOrder`.
A composed state space of two such modules would have nothing that the two do
not have: they share a column that one of them writes and the other only reads.

### RefreshTokens and SessionFamilies

`stored`, `family`, `revoked` and `expired` are the columns of
`auth_refresh_token`. A refresh goes `LookupCurrent` (SELECT), `RevokePresented`
(UPDATE), `IssueSuccessor` (INSERT); a revoked token takes `LookupRevoked`
and `RevokeFamily` instead. `Login`, `RevokeRefreshToken` (logout) and
`DeleteUserTokens` (account deletion) are single statements. `Abandon` is a
failing statement or a crash: what was committed stays. `parent`, `replayed` and
`overlapped` are history. Tokens and family identifiers are drawn from
`crypto/rand` and never twice; hashing is therefore left out.
`SessionFamilies` is the promise: a login opens a session, a refresh replaces
its token by a new one, a reuse ends it.

### Circles

`members`, `active` and `senior` (who joined first) are `user_group`; `owner` is
`created_by`; `invite`, `inviter` are `group_invite`. Every handler that writes
one of them is modelled statement by statement: `CreateGroup`,
`AddUserToGroup`, `RemoveUserFromGroup` with its hand-off, `DeleteGroup`,
`TransferGroupOwnership`, `CreateGroupInviteCode`, `JoinGroup`, archive and
restore of the circle by one user, and the statements of `DeleteUserAccount`
that touch a circle. `RemoveUserUnread` is a removal whose SELECT of
`created_by` failed: the handler goes on without a hand-off. `Abandon` and
`HandOffFails` are failing statements; `MayFail` switches them on. `adrift`
records that a hand-off failed or found nobody, `admitted` and `unspent` what an
invite did, `slipped` the requests about to hand the circle to someone who has left
or archived it since they looked. The schema is in another repository; from how the code uses it the
model takes: one `user_group` row per user and circle, foreign keys from it to
user and circle, from `group_invite` to its creator, invites cascading with the
circle, and no foreign key on `created_by`.

### CircleAllowance and FreeTier

One user. `member` and `active` are the rows, `fresh` the archived ones still in
the undo window, `used` the events of `circle_restore_event` inside the budget
window; `Age` and `Forget` are the passing of time. Create and join run
`AddCount`, `AddPremium`, `AddInsert`; restore runs `RestorePremium`,
`RestoreUsed`, `RestoreCount`, `RestoreCommit`, each check in the order and with
the comparison of the code (`count < Limit` for one circle,
`active + n <= Limit` for a bulk restore). `BeginRestore` decides which rows
will be charged when it reads them, as the code does. `AddUserToGroup` is not
gated; circles that came in that way are in `enrolled`. `exempted` records that
the user was ever let past as premium or admin, `overlapped` that a request
arrived while another was running.

`FreeTier` is the policy in six indivisible steps. `Take` adds circles within
the limit at a charge within the budget; `Grant` gives someone who is premium
at that moment a pass for one request. The refinement maps the pass to the
`exempt` flag of a running request, which is what the code really promises: the
subscription is looked at once per request, not at the write.

### Subscription

`log` is the store's list of events (external), `recorded` the table
`revenuecat_webhook_event`, `row` the user's row, `sync` the request slots of
SyncSubscription; a missing row is `NoRow`, for
every reader treats it as free. `Webhook` is one transaction: insert the event
or stop as a duplicate, then `Upsert` under `grandfatherGuard`. Deliveries are
not queued: any event of the log may be delivered at any time, any number of
times or never, so repetition, loss, delay and reordering are all there. A sync
is `SyncFetch`, then `SyncUpsert`, then perhaps `SyncReload`. `orderly` is
history: true while events are first recorded in the order they happened and no
event is recorded, and no pause is reported, between a sync's answer and its
write. `NULL` in `will_renew` is modelled as false. There is one subscription
product.

### Credentials

`accounts`, `mail`, `password`, `named` are columns of `user_profile`, `linked`
is `user_external_identity`, `link` and `code` are `oauth_pending_link` and
`password_reset_tokens`. A temporary reset token is not stored: it is a user's
identifier and a time, and `ResetPassword` asks of it no more than the code does.
Addresses are compared in lower case by `LoginMail` (`SameAddress`,
oauthController.go:109) and exactly by the keys. Accounts are not deleted here.
`OAuthLogin` reads the identity, then `LoginMail` decides between a
pending link (`PendSweep`, `PendInsert`) and a new account (`CreateName`,
`CreateCommit`, one transaction that the keys can roll back). `ConfirmLink`
reads a pending link; `ConfirmUser` compares the password and goes on to
`ConfirmGuess`, which writes the count that was read plus one, or to
`ConfirmClaim`, whose DELETE claims the row. `UnlinkCount` counts what
`UnlinkDelete` then deletes by key. A reset is `VerifyCount`, `ResetWrite`,
`ResetMark`. `guesses`, `claims`, `verified` are history. The keys the model
assumes (identities unique by provider and sub, and by user and provider; names
and addresses unique) are the constraint names the code tests for.

### DisplayOrder

A behaviour follows one list; `kind` says which table it is, and with it which
handlers reach it: a user's circles, the prayers of a user or circle, the
prayers of a contact, a user's contacts, or the categories of a user or circle.
New rows come in at the top by a shift and an insert (`ShiftSome`, `InsertRow`)
or at the end by a SELECT of the last place and an insert, some at a fixed place
(`InsertAt`). Reorders write a row at a time in the order of a Go map
(`WriteNext`). `GetUserPrayerSubjects` appends missing rows and renumbers the
list, which the sort may order in any way where places are equal (`Sort`,
`NumberNext`). `tidy` is history: since the last request that gave every row a
place, nothing overlapped or failed and no row came in without room being made.

### Contacts

`subject` is `prayer_subject`, `ask` `prayer_connection_request`, `nest` the
members of families and groups. The rest is one circle: its row, its members,
its card (`anchor`) and the cards wired to it (`wired`). A connection request
takes `AskRowInsert` and `AskMark`, an answer `Answer` and `AnswerMark`, and
`RemovePrayerSubjectLink` may come between. Creating, joining and being added to
a circle end in `EnsureCircleContactsForUser`, whose reads decide what the
transaction `EnsureCommit` then inserts; leaving and the circle's deletion take the
cards away. The deletion of an account (`DeleteUserAccount`, userController.go:1681)
ends the user's memberships without the helper that does this, so their card stays.
`carded` and `letGo` record which contacts became cards and which cards
were deleted by someone whom the circle does not keep from it, `left` the users
whose membership the deletion of their account ended and who did not come back.
What happens to contacts and connection requests that name a user whose row of
`user_profile` is deleted is a matter of the schema, which is not in the
repository; they are taken to stay.

### Prayers

`prayer`, `access`, `contact` are the rows of the three tables. Creation is a
prayer, then its row of access; sharing is a row for the circle, then one for
whoever shared it; `RemovePrayerAccess` deletes one row, or all of them and then
marks the prayer; `DeletePrayer` marks a prayer that has no rows. `DeletePrayerSubject`
has three fates for the prayers of a contact. `Merged` is the copying of fields by
index in `UpdatePrayer`, the subject of `PrayersUpdated`.

A contact may be a card, a group wired to a circle, and a prayer may be for a card.
`Join` and `EnsureCard` give a member one; `Leave` and `DropCard`, and `DropCards`
between the statements of `DeleteGroup`, delete cards without a look at the prayers
on them (`TearDown`; `GoOn` when that fails, which is only logged). `Retype` is there
because a card that is no group any more is not found by the tear-down. The deletion
of an account is its statements in order: memberships (`AccountLeave`), rows of
access that name the user (`AccountAccess`), every prayer they created
(`AccountPrayers`) and the account (`AccountRow`).

`swept`, `sharers` and `stranded` are history: prayers deleted with their contact,
who shared what, and prayers whose contact was torn down with a membership or a
circle. Of the schema the model assumes that a prayer whose contact goes has none
(SET NULL), and that rows of access go with their prayer's row (CASCADE); the module's
header says what in the code these are read from. Rows that list a prayer under a
contact stay when that contact goes: nothing in the code deletes them.

### PrayerActivity

One prayer and one circle. Handlers are slots: a comment is inserted, its
recipients are listed and each of them is gated, debounced and told in turn. The
two goroutines of a share are records in `posted`, each of which reads, decides
and tells. `window` is the rows of `notification_debounce` that are under
fifteen minutes old; `ShouldSendDebounced` is the one upsert whose WHERE decides
who may send. `count`, `told`, `audience`, `present` and `prayed` are history.
That a prayer has one row of `prayer_analytics` is a constraint of the schema.

## 3. Runs

`S` is a run that passes, `V` one that TLC must find violated. "Always" marks
what is checked however requests overlap and fail, "calm" what is checked until
they do.

| Run | | What it asks | Instance |
|---|---|---|---|
| `RefreshTokens` | S | always: types, an exchanged token is dead; calm: one live token per family, the table implements `SessionFamilies` | 2 users, 2 logins, 4 tokens, 2 slots |
| `RefreshTokensReuse` | V | always: a family whose reuse was detected has no live token | the same |
| `CirclesSerial` | S | one request at a time, no failures: types, the circle is led by a member unless a hand-off found no heir, an account deletion gets to its end | 3 users, 1 of them admin, 1 invite, 1 slot |
| `CirclesRacing` | S | always: an invite that admitted someone is closed or about to be, and admits no more users than requests overlap, unless its closing UPDATE failed; the circle passes to an active member, or to one who left or archived it between the check and the write of the same request | 3 users, 1 invite, 2 slots, failures |
| `Allowance` | S | always: types, limit and budget are exceeded at most by the factor of overlapping requests; calm: they are kept, the handlers implement `FreeTier`, a lapsed user gains nothing over the limit, charges match restores | 4 circles, limit 1, budget 1, 2 slots, a subscription that comes and goes |
| `Subscription` | S | always: types, the grant of migration 029 stands; while orderly: the row settles on what the store says | 5 events, 2 syncs |
| `Credentials` | S | always: types and keys, a pending link creates one identity, no account appears that cannot sign in; calm: every account keeps a way to sign in, attempts are limited | 2 users, 3 identities at 2 providers, 1 pending link, 1 code, limits of 2, 2 slots |
| `DisplayOrder` | S | tidy: rows shown have different places, in order of creation until someone reorders; always: an undisturbed renumbering repairs any list | 3 rows, places up to 2, 2 slots |
| `Contacts` | S | always: types, a request is answered once per slot at most; calm: who waits has a request to answer, individuals have no members, a card is gone with its membership unless the deletion of the account ended that | 2 users, 4 contacts, 2 requests, 2 slots |
| `Prayers` | S | always: types and foreign keys; calm: no two rows for one viewer, none for a prayer or circle that is gone, no prayer without its contact but those on a card that was torn down, whoever shares keeps a row | 2 users, 1 of them admin, 1 circle, 2 contacts, 2 prayers, 3 rows, 2 slots |
| `PrayersUpdated` | V | an update keeps the fields it leaves out | 1 user, 3 bodies |
| `PrayerActivity` | S | always: types, whoever prayed is counted, one notice is cleared per window, only members hear of a share; calm: the notice is sent, each who should hear of a share does once | 3 users, 2 comments, 2 slots, 2 goroutines |

Why the instances are large enough. Two slots are the least that race, and with
two slots every pair of handlers meets at every pair of statements. Four tokens
are a login, two successors and a second login. Three users are an owner, an
heir and someone else (an admin, or the leaver). A limit and a budget of 1 with
four circles let a bulk restore be within, at and past them, and leave room
above for a user who lapsed. Five events are enough for purchase, cancellation,
expiry, renewal and a repetition of any after any other. Two identities at one
provider and one at another tell the two keys of `user_external_identity` apart.
Three rows are the least that a shift can put in the wrong order while it makes
room. Four contacts are the cards of two members and their contacts for each
other. Three users around a prayer are its creator, the one it is about or who
shares it, and a bystander.

Bounds. `MaxEvents`, `MaxPlace` and `MaxPrayed` cap what would grow for ever, and
the sets of ids what is ever drawn. Constraints of the MC modules cut a run to
parts of its state space that answer its questions:

* `Followed` of `MCCircles`: behaviours without an invite are followed to their end;
  those with one until an account or the circle is gone, a membership is archived, or
  the invite is left open by a failing UPDATE, after which the two invariants have
  nothing more to say of the one invite. Joining by an invite is, to a hand-over, a
  member added.
* `Followed` of `MCCredentials`: the address has two spellings, the second of which
  is followed while requests do not overlap or fail; a behaviour draws a pending link or a reset
  code, not both, since they meet in the password only; and once requests
  overlap there are no codes, and no further step after a wrong guess, since
  what is said of codes and guesses is said of calm behaviours.
* `Followed` of `MCDisplayOrder`: a tidy list is followed through every overlap;
  once untidy, through one new request at a time.
* `Followed` and `OfTheCircle` of `MCContacts`: a behaviour has connection
  requests for one contact (with all overlaps and failures), or two contacts
  that may be nested, or a circle until it is gone with at most one contact from
  before; once a card was deleted by hand, or a membership ended with an account,
  nobody archives the circle and contacts keep their links. The overlaps of two
  members who join at once are therefore not in this run; what is claimed of
  cards is claimed of calm behaviours.
* `Followed` of `MCPrayers`: one prayer that is shared, with circles, members, cards
  and accounts coming and going; or two prayers whose contacts are deleted and
  changed; or one prayer on the cards of two members; overlaps and failures for one
  contact and one prayer, until it has a row.
* `Followed` of `MCPrayerActivity`: comments with their notices, moderation,
  edits with their notices, prayers, or a share; each with all overlaps and
  failures, and with the changes elsewhere that it looks at.

The theorems of section 4 are about the specifications themselves and have none
of these restrictions: what is claimed of two members who join at once, say, is
proved although no run follows it.

The other state spaces are finite by themselves and explored completely.
`CHECK_DEADLOCK FALSE` everywhere: ids run out in a small instance, and a server
without requests rests.

Every property of a passing run has a mutant: a definition of the model changed
as a plausible bug would change the code, under which TLC finds the property
violated. The mutated forms stand next to the definitions they replace.

### Fairness

Only `DeletionCompletes` (`CirclesSerial`) is a liveness property. It is checked
under `WF_vars(Advance(r))` for each slot: a handler that has started executes
its next statement. Gin runs a handler to its end in its own goroutine and
nothing in it waits for another request, so weak fairness is what the scheduler
gives; it holds only where statements do not fail (`MayFail = FALSE`). Nothing is
assumed about requests arriving. Elsewhere the interesting question is not
whether a handler ends but what it leaves behind, which the properties of calm
and settled states ask.

### What the violated runs show

* `RefreshTokensReuse`: a rotation that is already past its own UPDATE when the
  family is revoked inserts a successor that survives. `models/authToken.go`
  says the entire family is revoked.
* `PrayersUpdated`: an omitted field is filled from the stored prayer's field of
  the same index, but the two structs list their fields in different orders; an
  omitted title is emptied, an omitted text becomes the old title.

### What the guards of the properties leave out

A property that is stated of calm behaviours is one that overlaps or failures
break in the model. The cases worth knowing: when every other member has
archived the circle, a hand-off finds no heir although members remain who can
restore it (`adrift`); `TransferGroupOwnership` checks the new owner in one statement
and writes `created_by` in another that has no condition but the circle's key, so
that someone who leaves or archives in between comes to lead the circle (`slipped`),
of whom the comment at groupOwnershipController.go:125 says that it must not be;
prayers that are on a circle's card are left without a contact
when the member leaves or the circle goes (`stranded`), which no overlap is needed
for; the card of a deleted account stays (`left`), and its prayers go, those that are
shared with a circle of others too (`AccountPrayers`), where userController.go:1713
says "Group prayers will remain for other group members" (under a key that does not
cascade as the model assumes, that statement would fail on a prayer that still has
rows and the deletion would end there);
`AddUserToGroup` does not ask for the circle limit (`enrolled`); two restores that
overlap charge twice for one circle; two unlinks that overlap can remove both
remaining identities; overlapping inserts at the top of a list can give two
rows one place; two overlapping shares can give a prayer two rows for one circle;
and a comment whose request ends after its window was opened is a window without
a notice.

## 4. Proofs

All theorems are for every value of the constants: any number of users, tokens,
circles, requests, limits and events, within the assumptions listed below.

`RefreshTokensProofs`. `TypeCorrect`; `RotatedTokensAreRetired`, from the
invariant `Rotation` that adds to it what a refresh holds between its UPDATE and
its INSERT: the presented token is already retired, and retirement is final;
`FamiliesAreLogins`, inductive with the type invariant. No assumption on
overlap or failures. `FamiliesHaveOneLiveToken` is about behaviours without
overlap: a family's live token is the only one, or there is none and a refresh
is about to issue one. `RotationImplementsFamilies` is the refinement of
`SessionFamilies`, where a family's current token is its live row and its status
is read off `replayed`. It adds `EndedForGood`: a family whose reuse was seen has
no live token, and no refresh under way holds one of its. Each action is then
one of three steps of the promise: a login opens, the UPDATE of a refresh, a
logout and an account deletion retire what was live (`CloseSteps`,
`RetireSteps`), the INSERT renews what the same refresh retired (`IssueSteps`).

`CirclesProofs`. `TypeCorrect`, split into the rows and the slots.
`InvitesAreSpent` from `InviteInv`: an undrawn invite was never used, and one
that admitted someone is closed or is the one a `joinConsume` is about to close;
any overlap, any failure. `AdmissionsAreBounded` is about the same races and
counts them: `Counted` says that while an invite is usable everyone it admitted
has a request that is still to close it, and that those admitted and the joins
that have read the invite are together no more than the slots. `CirclesAreOwned`
assumes `OneRequest` and `~MayFail`. Its invariant `OwnerInv` says for each step of
each handler what is true of the owner in the middle of it: a leaving owner is
on the way to a hand-off, an heir that was picked is still active.
`OwnershipPassesToMembers` assumes neither: `HeirInv` says of every request that has
chosen an heir and not yet written it that the heir is an active member still or the
request is in `slipped`, and `OnlyHandOvers` that no other step changes the owner of a
circle that has one.

`CircleAllowanceProofs`. `TypeCorrect`, `AllowanceIsBounded`,
`LapsedUsersDoNotGrow`, `ChargesWereRestored` and `GatesImplementFreeTier`, of the
specification itself: any number of slots. What they say of behaviours without
overlap rests on `SoloInv`: until something overlaps there is at most
one request (`Alone`), the bounds hold, and whatever that request has read or
checked still holds at each step (its count is still the count, its circles are
still archived, what it will charge is still outside the undo window).
`GatesImplementFreeTier` shows that every such statement is a step of `FreeTier`
or a stutter, with `premium` changing at any moment.

What `AllowanceIsBounded` says of requests that overlap rests on `RaceInv`. What
a request was promised by its check (`Granted`, `Spending`) is counted together
with what is held and spent already, as a set of pairs of slot and circle:
`Pooled` says that no slot was promised more than the bound and that all
promises and holdings are within the bound times the number of slots. A step
either keeps or drops a promise, makes it good, or is given a new one when what
is held and what it asks for are together within the bound (`Honours`); the other
slots then account for the rest (`PoolStep`). That slots with at most `n` circles
each have at most `n` times as many pairs is `PairsBounded`, shown by numbering
each slot's circles, since induction over sets is out of reach.

The last part of `CircleAllowanceProofs` is about `Subscription`, where `premium`
comes from. The two specifications share no variable and no step (`CacheSpec`
has a state, slots and a next-state relation of its own, hence the prefixes on its
names); they only share a module of proofs: `CacheTypeCorrect`; `GrantStands`; `RowAgreesWithStore` from `SettleInv`: while
things are orderly the recorded events are the first `k`, and both the row and
every answer on its way to it were true after the `k`-th event or a later one.
None of them uses a bound on the events.

`DisplayOrderProofs`. All four properties of the run, `TypeCorrect`,
`PlacesStayApart`, `ListsKeepOrder` and `RenumberingRepairs`, from one invariant,
`IInv`, for lists of any length. Its first part speaks of lists apart from the
state, as sets of rows with positions: a shift keeps rows apart and in order
(`Shifted`), a row that goes where room was made keeps both (`Placed`), and one
UPDATE of a reorder or of a renumbering brings the list nearer to what the plan
makes of it (`Rewritten`, `Numbered`). The state's part:

* `OneBusy`: a request in `alone` is the only one that runs, and while the list
  is tidy every request that runs is in `alone`. A request that is not finds
  the list untidy, and nothing is claimed of it (`Beside`).
* `Keys`: inserts under way have different keys, which no row had before;
  `born` has none of them; only circles and the prayers of a subject hide rows,
  and only subjects and their prayers are renumbered.
* `ListInv`: a tidy list at rest has its rows apart and in order, and
  `Undisturbed` says where a lone request stands. Before an insert there is room
  (`Free`); a reorder's remaining pairs differ from each other and from the rows
  it is done with (`Rewriting`), whatever the order of its writes; of a renumbering
  the positions it is heading for (`Target`) stay the same with each UPDATE, are
  0 .. n - 1, and keep the order that was read and the order of creation
  (`Numbers`).

The order is kept for more rows than are shown (`Kept`): an archived circle comes
back to the position it had, so its place must stay apart too, and a property of
the shown rows alone is not inductive. That a list has a largest position
(`Largest`, for the inserts at the end) uses that a finite set has a smallest
subset without one, by the library's well-founded order on subsets. That distinct
indices below `n` leave none out is `IndicesUsed`.

`PrayerActivityProofs`. All four properties of the run. They rest on one
invariant, `Inv`, whose parts are preserved each by a lemma of its own:

* `JobsOK`, `PeopleOK`, `CommentsOK`: types, slots first (a slot that debounces
  or sends has someone to tell).
* `CountInv`, for `EveryoneWhoPrayedIsCounted`: a request that will not count its
  user read that the user prayed last, and whoever prayed last is among those who
  prayed; so an uncounted prayer never adds to the set. Cardinalities come from
  the library's theorems on finite sets.
* `WindowInv`, for `OneNoticeForEachWindow`: only a running window has a count, and
  it was cleared once, because the upsert finds the row of the first; while calm
  there is one busy slot, so the notice is either sent or in that slot.
* `PresentInv` and `ShareInv`, for `SharesAreTold`: a goroutine that has its list
  lists people who were there. `Will(g)` is whom a goroutine would tell if nothing
  changed; while calm these sets are disjoint, no step of a goroutine changes
  its own, and who should hear of the share either has or is in one of them.

`CredentialsProofs`. `TypeCorrect`, `LinksAreClaimedOnce` and `AccountsAreWhole`,
with no assumption on how requests overlap or fail. One invariant, `Inv`, has a
part for each table (`ProfilesOK`, `IdentitiesOK`, `LinksOK`, `CodesOK`), one for
what a slot holds at each step (`JobsOK`) and `ClaimsOK`: a link that is not gone
was never claimed. What slots hold stays true because rows only `Grows`: accounts
are added, a link that was drawn stays drawn, a code keeps its user.
`AccountsAreWhole` is `CreateKeeps` (profile and identity are committed together,
which the keys of both tables allow or refuse as one) and the signup's password.
`AttemptsAreCounted` and `AccountsKeepSignIn` are about calm behaviours and rest on
`CalmInv`: one request at a time, what it has read is still so (`Fresh`: the count
of a link or a code is the row's, another credential is left when one is about
to be deleted), a link's wrong guesses are its `attempts` and the one about to be
written, a code's tokens are its `attempts`, and everyone can sign in.

`PrayersProofs`. `TypeCorrect`, and the three calm properties of the run from one
`CalmInv`: one request at a time (`Alone`); what it has seen is still so at each
of its steps (`Fresh`: the prayer it grants is there and not granted yet, the rows
of the prayer it deletes are gone, the contact it moves prayers to exists, no
row is left of the circle it deletes); no two
rows say the same (`Unique`), rows are of prayers and circles that are there
(`RowsFollow`), prayers of contacts that are unless they are in `stranded`
(`PrayersFollow`), and who shared has
a row or is about to get it (`SharersSeen`). `AccessIsGrantedOnce` is `Unique`;
`NothingIsOrphaned` (both parts of `NoOrphans`) and `SharersAreListed` read the others
where nothing is under way. Every statement is shown once to keep the tables (`Tables`) and
what its own slot relies on (`StatementKeeps`).

`ContactsProofs`. `TypeCorrect` is inductive with `Refers`, what the rows a slot
holds are known to be; rows that are gone stay so and owners never change
(`Grows`). `RequestsAreAnsweredOnce` holds for any overlap and failure:
`AnswersCounted` keeps one answer in reserve for each slot that read the request
as pending, so that answers given and answers to come never exceed the slots;
while calm there is one such slot. `WaitersAreAsked`, `OnlyGroupsHaveMembers` and
`CardsLeaveWithMembers` are about calm behaviours. Their `CalmInv` has the same
shape as above: `Alone`, `Fresh` for each step, and each property in the form that
is true in the middle of a request: who waits has a pending request or the answer
is about to unmark them (`Marking`); a member is wired to a card or about to be
(`Wiring`); a card is its owner's, who is a member, on the way out (`Leaving`), or was one until
the deletion of their account (`left`).

Assumptions on constants: `OwnerOf` is a function from families to users,
`ProviderOf` one from identities to providers, `Lower` one from addresses to addresses, admins are users, the "none"
values are not members of their sets, ids are numbers, and limit, budget and
bounds are natural numbers. Circles in `CircleAllowance`, users in
`PrayerActivity`, rows in `DisplayOrder`, and request slots in `Circles`, `CircleAllowance` and `Contacts`
are finitely many: a server runs finitely many requests at a time, and a bound in
terms of their number needs one.

Only model-checked: `DeletionCompletes`, since liveness under fairness and
`ENABLED` are out of the prover's reach. Induction over data and `RECURSIVE`
operators are out of it as well; no module here needs them. Every other property
of a passing run is a theorem.

## 5. Abstractions

* A name, a code, a hash, a payload is a model value; formatting, logging and
  response bodies are left out, and so are handlers that only read.
* Requests turned away without a write have no action; they change nothing.
* A crash of the server is the abandonment of the running requests
  (`Abandon`) and goroutines (`Drop`): nothing else is kept in memory that the
  models speak of.
* Time is a set of things that may have expired: each may do so at any moment.
  In `CircleAllowance` the age of an archived row is judged when the row is
  read, as in the code.
* Statements run at PostgreSQL's default isolation, READ COMMITTED. A single
  UPDATE that re-evaluates its WHERE, or a transaction whose statements
  touch one user's or one circle's rows, is one atomic action.
* The schema is in another repository. Keys and cascades are those the code
  names, tests for or depends on; each module's header lists its own.

## 6. Not modelled, and what is left

Not modelled: OAuth providers, token and webhook signatures and encryption
(cryptography and I/O), push and e-mail delivery (external services), the rate
limiter (it decides which requests arrive, and every module lets any request
arrive at any time), routing, start-up, fixtures and static pages (no state of
their own); of modelled components the parts `PROJECT.json` names, chiefly
`selectEntitlement`, profile fields and preferences (single statements that copy what the
client sent), category assignment, and the inbox.

The deletion of an account is modelled table by table, in the module that owns the
table: circles, invites, memberships and the account's row in `Circles`, refresh
tokens in `RefreshTokens`, cards in `Contacts`, rows of access and prayers in
`Prayers`. Not modelled are its deletions of push tokens, reset codes, identities and
pending links, prayer sessions, statistics, preferences, notifications and prayer
analytics. Two of the modules speak of such tables, and both follow what stays:
`Credentials` accounts that are not deleted, `PrayerActivity` a prayer whose row is
there. `DeletionCompletes` is about the references that `Circles` has
(`user_group`, `group_invite`), not about a table that was forgotten elsewhere.

Left for proof: nothing that a run checks, apart from `DeletionCompletes`.
