---------------------------- MODULE Subscription ----------------------------
(***************************************************************************)
(* The cached copy of one user's RevenueCat subscription, a row of         *)
(* user_subscription.  Two things write it: RevenueCatWebhook, once per    *)
(* event, whose deliveries are repeated, delayed and reordered, and        *)
(* SyncSubscription, which asks RevenueCat and writes the answer later.    *)
(* Neither compares its news with last_event_at: the last writer wins,     *)
(* except over a row that still carries LEGACY_GRANDFATHER.                *)
(*                                                                         *)
(* The store is external: its log of events, and what it would answer.     *)
(*                                                                         *)
(* `premium' of CircleAllowance is row.premium here, seen from outside.    *)
(* The names of the two modules are kept apart (Cache.., Sync..), so that  *)
(* one module can extend both.                                             *)
(***************************************************************************)
EXTENDS Naturals, Sequences, FiniteSets

CONSTANTS
    Sync,           \* concurrent SyncSubscription requests of the user
    MaxEvents       \* a bound on what happens at the store

ASSUME EventsAssumption == MaxEvents \in Nat

VARIABLES
    log,        \* the store's events about the user; the index is event_id
    recorded,   \* event_ids in revenuecat_webhook_event
    row,        \* the user's row
    sync,       \* what each SyncSubscription is doing
    orderly     \* history: events came in order, and no sync straddled one

cacheVars == <<log, recorded, row, sync, orderly>>

-----------------------------------------------------------------------------
(* The store (external) *)

Life == {"none", "active", "cancelled", "paused", "lifetime", "expired"}

\* Every type the webhook does not single out is an OTHER: INITIAL_PURCHASE,
\* RENEWAL, UNCANCELLATION and so on.
EventType == {"EXPIRATION", "CANCELLATION", "SUBSCRIPTION_PAUSED",
              "NON_RENEWING_PURCHASE", "OTHER"}

\* after is what the subscription became; known tells whether app_user_id is
\* one this backend has minted.
Event == [type : EventType, after : Life, known : BOOLEAN]

\* What may become of a subscription, and the event that tells: the last of
\* them a TRANSFER to another identity.  An event names the entitlements that
\* the subscription gives after it.
Transition ==
    ({"none", "expired", "cancelled", "paused"} \X {"active"} \X {"OTHER"})
    \cup {<<"none", "lifetime", "NON_RENEWING_PURCHASE">>,
          <<"active", "cancelled", "CANCELLATION">>,
          <<"active", "paused", "SUBSCRIPTION_PAUSED">>}
    \cup ({"active", "cancelled", "paused"} \X {"expired"} \X {"EXPIRATION"})
    \cup ({"active", "lifetime"} \X {"none"} \X {"OTHER"})

\* The subscription after the first n events.
After(n) == IF n = 0 THEN "none" ELSE log[n].after

Entitled(life) == life \in {"active", "cancelled", "lifetime"}

Renews(life) == life \in {"active", "paused"}

-----------------------------------------------------------------------------
(* The row *)

LastEvent == {"none", "LEGACY_GRANDFATHER", "SYNC", "WEBHOOK"}

Row == [premium : BOOLEAN, renew : BOOLEAN, last : LastEvent]

\* A missing row means free tier.
NoRow == [premium |-> FALSE, renew |-> FALSE, last |-> "none"]

\* The rows migration 029 left for accounts from before the launch.
Grandfathered == [premium |-> TRUE, renew |-> FALSE, last |-> "LEGACY_GRANDFATHER"]

\* Mutant of Upsert: without grandfatherGuard.
UpsertUnguarded(new) == row' = new

\* Mutant of Upsert: the guard keeps the sentinel, and no more.
UpsertKeepsSentinel(new) ==
    row' = IF row.last = "LEGACY_GRANDFATHER" /\ ~new.premium
           THEN [new EXCEPT !.last = row.last] ELSE new

\* INSERT .. ON CONFLICT DO UPDATE .. WHERE grandfatherGuard.
Upsert(new) ==
    row' = IF row.last = "LEGACY_GRANDFATHER" /\ ~new.premium THEN row ELSE new

SyncStep == {"idle", "upsert", "reload"}

SyncJob == [step : SyncStep, premium : BOOLEAN, renew : BOOLEAN]

NoSync == [step |-> "idle", premium |-> FALSE, renew |-> FALSE]

CacheTypeOK ==
    /\ log \in Seq(Event)
    /\ recorded \subseteq DOMAIN log
    /\ row \in Row
    /\ row.last = "LEGACY_GRANDFATHER" => row = Grandfathered
    /\ sync \in [Sync -> SyncJob]
    /\ orderly \in BOOLEAN

CacheInit ==
    /\ log = <<>>
    /\ recorded = {}
    /\ row \in {NoRow, Grandfathered}
    /\ sync = [r \in Sync |-> NoSync]
    /\ orderly = TRUE

\* Something happens to the subscription.
Happens ==
    /\ Len(log) < MaxEvents
    /\ \E t \in Transition :
           /\ t[1] = After(Len(log))
           /\ log' = Append(log, [type |-> t[3], after |-> t[2], known |-> TRUE])
    /\ UNCHANGED <<recorded, row, sync, orderly>>

\* An event about an identity the user had before logging in, or a test.
HappensUnknown ==
    /\ Len(log) < MaxEvents
    /\ log' = Append(log, [type |-> "OTHER", after |-> After(Len(log)), known |-> FALSE])
    /\ UNCHANGED <<recorded, row, sync, orderly>>

-----------------------------------------------------------------------------
(* RevenueCatWebhook *)

\* <<is_premium, will_renew>>
deriveSubscriptionState(event) ==
    LET hasEntitlement == Entitled(event.after) IN
    CASE event.type = "EXPIRATION"            -> <<FALSE, FALSE>>
      [] event.type = "CANCELLATION"          -> <<TRUE, FALSE>>
      [] event.type = "SUBSCRIPTION_PAUSED"   -> <<FALSE, TRUE>>
      [] event.type = "NON_RENEWING_PURCHASE" -> <<hasEntitlement, FALSE>>
      [] OTHER                                -> <<hasEntitlement, hasEntitlement>>

\* A write overtakes what a sync has been told but has not written yet.
Straddled == \E r \in Sync : sync[r].step = "upsert"

Apply(event) ==
    IF event.known
    THEN LET state == deriveSubscriptionState(event)
         IN  Upsert([premium |-> state[1], renew |-> state[2], last |-> "WEBHOOK"])
    ELSE UNCHANGED row

\* Mutant of Webhook: a repeated delivery is applied again.
WebhookRepeated(e) ==
    /\ e \in DOMAIN log
    /\ recorded' = recorded \cup {e}
    /\ Apply(log[e])
    /\ orderly' = (orderly /\ (e \in recorded \/ (recorded = 1..(e - 1) /\ ~Straddled)))
    /\ UNCHANGED <<log, sync>>

\* One transaction: the delivery is recorded and applied, or is a duplicate.
\* A delivery that fails changes nothing, and the store tries again.
Webhook(e) ==
    /\ e \in DOMAIN log
    /\ IF e \in recorded
       THEN UNCHANGED <<recorded, row, orderly>>
       ELSE /\ recorded' = recorded \cup {e}
            /\ Apply(log[e])
            /\ orderly' = (orderly /\ recorded = 1..(e - 1) /\ ~Straddled)
    /\ UNCHANGED <<log, sync>>

-----------------------------------------------------------------------------
(* SyncSubscription *)

\* FetchSubscriber and deriveSubscriberInfo.  A subscription that is paused
\* is reported as active (a known gap), which ends the agreement.
SyncFetch(r) ==
    /\ sync[r] = NoSync
    /\ LET life == After(Len(log)) IN
           /\ sync' = [sync EXCEPT ![r] =
                         [step    |-> "upsert",
                          premium |-> Entitled(life) \/ life = "paused",
                          renew   |-> Renews(life)]]
           /\ orderly' = (orderly /\ life # "paused")
    /\ UNCHANGED <<log, recorded, row>>

\* No row back means that the guard declined the write; the row is reloaded.
SyncUpsert(r) ==
    /\ sync[r].step = "upsert"
    /\ Upsert([premium |-> sync[r].premium, renew |-> sync[r].renew, last |-> "SYNC"])
    /\ sync' = [sync EXCEPT ![r] = IF row'.last = "SYNC" THEN NoSync
                                   ELSE [NoSync EXCEPT !.step = "reload"]]
    /\ UNCHANGED <<log, recorded, orderly>>

SyncReload(r) ==
    /\ sync[r].step = "reload"
    /\ sync' = [sync EXCEPT ![r] = NoSync]
    /\ UNCHANGED <<log, recorded, row, orderly>>

\* The store does not answer, a statement fails, or the server stops.
SyncAbandon(r) ==
    /\ sync[r] # NoSync
    /\ sync' = [sync EXCEPT ![r] = NoSync]
    /\ UNCHANGED <<log, recorded, row, orderly>>

CacheNext ==
    \/ Happens \/ HappensUnknown
    \/ \E e \in DOMAIN log : Webhook(e)
    \/ \E r \in Sync : SyncFetch(r) \/ SyncUpsert(r) \/ SyncReload(r) \/ SyncAbandon(r)

CacheSpec == CacheInit /\ [][CacheNext]_cacheVars

-----------------------------------------------------------------------------
(* Properties *)

\* The grant of the migration is not lost to RevenueCat's ignorance
\* (grandfatherGuard): whatever is written over it is premium itself.
GrandfatherKept ==
    [][row.last = "LEGACY_GRANDFATHER" /\ row' # row =>
           row'.premium /\ row'.last # "LEGACY_GRANDFATHER"]_cacheVars

\* When the store's events have arrived in the order they happened, however
\* often each was repeated, and whatever a sync has written in between, the
\* row says what the store would: nothing has to be compared with
\* last_event_at (RevenueCatWebhook, SyncSubscription).
RowSettles ==
    /\ orderly /\ recorded = DOMAIN log /\ ~Straddled
    /\ row.last # "LEGACY_GRANDFATHER"
    => LET life == After(Len(log)) IN
           row.premium = Entitled(life) /\ row.renew = Renews(life)
=============================================================================
