# Formal models of EasyQuran

TLA+ models of the parts of EasyQuran that keep state in more than one place:
the reader's bookmarks and reading threads, which live on several devices, in
several tabs and on the server, the machinery that keeps them in step, and the
server's sessions, second factor, one-time codes and request gate, whose state is
split between tables and memory.  TLC
checks each model on small instances; TLAPS proves what matters most for every
instance.  `PROJECT.json` lists components, runs, hazards, the source lines each
definition stands for, and, per checked property, a faulty variant of the code
that the property catches.

Paths below are relative to the repository; `api/` is
`src/rust/backend/api/src/`, `lib/` is `src/web/src/lib/`.

## The system

EasyQuran is a Rust API (axum, SeaORM over SQLite) and a SvelteKit web app that
works offline.  The app writes every edit to local state first and synchronises
in rounds; a round is one POST that carries mutations up and a whole snapshot
down.

| Component | State | Operations | Interacts with |
|---|---|---|---|
| Server bookmark tables (`api/db/sea_models/bookmark*`, `api/modules/bookmark_v1`) | two tables per account, live rows and tombstones, each row with the device's `updated_at` | a sync round: one transaction of folder and bookmark upserts and deletes, then the snapshot | sync rounds of all devices |
| Sync engine and outbox (`lib/sync`) | durable queue and dead letters per domain; in memory: registered domains, failures, the running pass, two timers | enqueue, flush, drain, register, unregister, retry, dead-letter | domains of the stores, IndexedDB, the network |
| Bookmarks store (`lib/bookmarks`) | last snapshot, overlays of pending edits, undo, cache in local storage | save, unsave, move, folder edits, undo, applyServer, drain notices between tabs | engine, other tabs, account changes |
| Reading threads, server (`api/db/sea_models/reading_session.rs`, `api/modules/reading_session_v1`) | threads and per-surah progress | whole-row upsert, delete, progress by maximum, newest 20 open threads, archive pages | sync rounds |
| Reading threads, client (`lib/sessions`) | threads of the device, draft, dirty, pending and removed sets | start, track, finish, discard, restore, merge between tabs, absorb | engine, local storage, other tabs |
| Reading analytics (`lib/analytics`, `api/modules/user_analytics_v1`) | counters of verses read | record, push | engine |
| Sessions, rotation, fresh auth (`api/services/auth.rs`, `session_store.rs`, `crates/rux-auth`) | session store, audit rows and their bindings; in memory: terminated ids, grants, pending logins | login, logout, terminate, rotate, step up, set up and drop a second factor, restart | every request |
| Passkeys, OAuth, passwords (`api/services/webauthn.rs`, `passkey_state.rs`, `oauth`) | pending challenges in memory | begin and finish ceremonies, link and unlink methods | browsers, providers |
| One-time codes (`api/modules/email_verification_v1`, `forgot_password_v1`) | codes in two tables; reset tokens in memory | mail, verify, exchange, reset, change the address | mail, the user row |
| Rate limits and bans (`crates/rux-request-gate`, `api/services/rate_limit_store.rs`, `escalation.rs`) | windows, suspicion and bans per address, in memory and in a table | count, block, escalate, flush, restore, lift | every request, administrators |
| Billing (`api/services/billing`, `crates/rux-webhook-crypto`) | subscriptions | webhooks, checkout, portal | payment provider |
| Scheduler (`api/services/scheduler.rs`) | schedule of jobs | run, log | database |
| Quran data (`api/quran`) | read-only text; a pool of open translation databases | look up, open, evict | requests |
| Content, media, mail, notifications, ACL | rows | CRUD | outside services |
| Offline data (`lib/workers`, `lib/offline`, service worker) | OPFS and Cache API | download, verify, evict, answer queries | tabs |
| Search, reader, preferences, auth flows of the app | view state | navigation, queries, settings | API, workers |

What is hard in it:

* **Interleaving.** The engine is single-threaded code with an await at every
  step of a drain; edits, flush requests, sign-outs and timers run in between.
  Several tabs share the outbox and push the same batch.
* **Delivery.** A request may be applied and its answer lost, and a request the
  page has given up may arrive late.  Everything pushed is at-least-once.
* **Time.** Stamps come from the devices' clocks; mutations arrive in any order
  relative to their stamps.
* **Crash.** A tab is closed or reloaded in any state; the outbox and the cache
  are durable, the overlays and ledgers are not.
* **Half-done work.** A login writes an audit row, a session, a binding and a grant,
  each with an await and a failure of its own; a change of the second factor
  reads, checks a code, takes a grant out of memory and writes conditionally.
  Requests of one user interleave at all of these points, and the process may
  restart at any of them.
* **Limits.** Quotas, batches of 100, five rejections, twenty threads.

What makes each component correct: the tables keep a verse at most once per
folder, no orphaned bookmark, the quota, and the newest write; the engine loses
nothing, keeps the order, forgets no request and stops when signed out; the
store shows pending edits until they drain and then exactly what the server
holds; a thread goes neither backwards nor to another account, and what a tab
reads stays with it; a terminated session stays out, and an audit row has one;
a code is accepted once, a grant is usable only with all the factors of the row
it was issued for; an address is verified, and a password reset, by the owner of
the address of that moment; a ban holds until it expires or is lifted, and stays
lifted then.

## The modules

```
BookmarkRows              values and statements of the two bookmark tables
 |- BookmarkTables        rounds of one account on the server
 |   |- BookmarkTablesProofs
 |- BookmarkStore         tabs, outbox and server of one account
 |   |- BookmarkStoreProofs
Outbox                    what a drained batch takes out of a durable queue
 |- (BookmarkStore, SyncEngine and ReadingThreads)
SyncEngine                one tab's engine and the outbox behind it
 |- SyncEngineProofs
ReadingRows               values and statements of the thread tables
 |- ReadingThreads        tabs, local storage, outboxes and accounts of one device
     |- ReadingThreadsProofs
Sessions                  session store, audit rows and bindings of one user
 |- SessionsProofs
SecondFactor              grants, pending logins, codes and the user row
 |- SecondFactorProofs
OneTimeToken              what a reset token promises (abstract)
 |- Recovery              reset and verification; implements OneTimeToken
     |- RecoveryProofs
Gate                      windows, bans, flush, lift, restart
 |- GateProofs
MC...                     constants and symmetry for TLC
```

**`BookmarkRows`** translates `upsert_lww` and `delete_lww` of both tables,
`ensure_default` and `resolve_folder_id` into operators from tables to tables.
A table is a function from ids to rows.  `UpsertBookmark` has the three early
returns of the code in its order: quota, staleness of the id, a newer rival on
the same folder and verse (tombstones included), and then tombstones live
rivals.  `DeleteFolder` first re-homes newer bookmarks whose verse is free in
the default folder and then lets the rest go down with the stamp of the delete.
`>=` and `>` are those of the SQL: a tie loses an upsert by id, wins against a
rival and wins a delete.  SQLite's `julianday` compares at a millisecond, which
is what one stamp stands for.  Names, positions, colours, context and
`created_at` decide nothing and are left out.

**`BookmarkTables`** is `sync`: `Begin` (transaction and `ensure_default`),
`Apply` (one mutation, its stamp clamped to now plus one minute), `Commit`,
`Rollback`, and the server's clock.  Rounds do not interleave, because the first
statement of a round writes and SQLite has one writer.  Mutations and their
stamps are arbitrary.

**`SyncEngine`** follows `engine.svelte.ts` await by await.  `pass.at` says where
the running drain awaits: `take` (outbox.take), `sync` (the round trip),
`remove` (outbox.remove), `bury` (outbox.deadLetter), `resync` (the counts at
the end of a pass).  `Flush` starts a pass or widens the one booked; `Finish`
closes the drain of a domain with one of its outcomes and, after the last one,
sets phase, error and timer.  `gone` holds the domains whose abort signal has
fired.  The server is reduced to what the engine sees: a batch is taken whole,
rejected whole, or its answer is lost.  Two ghost variables, `owed` and
`verdicts`, record flush requests not yet honoured and rejections, for the
properties; no guard reads them.

**`BookmarkStore`** is `store.svelte.ts` for a signed-in account in one or more
tabs, over the tables of `BookmarkRows`.  An edit lays an overlay, appends
mutations to the shared outbox and remembers them as its own (`mine`, which is
the store's map from mutation to entity).  `Receive` is the synchronous stretch
after a round trip: the batch leaves the outbox, other tabs are sent a notice,
overlays are retired by entity, the snapshot replaces the old one.  `Shown` is
the view's rule for duplicates of one verse.  Where two pending rows compete for
one key the view's order is left open, and `Shown` allows both to be acted on.

**`ReadingRows`** is the server's side of the reading threads: threads are written
whole, the newer row wins and tombstones stay, live threads are capped, the
progress of a surah is a maximum, and a snapshot shows the newest open threads
only.  **`ReadingThreads`** is the device's side: a tab keeps its own copy of the
owner's threads and writes it back after a pause (`Persist`), merged with what
local storage holds; a changed row is `dirty` until `Push` queues it after a
longer pause, and `pending` from then until its mutation drains.  `Switch` is the
change of owner with everything it sets off: the flush of both pauses, the new
owner's envelope and, from the local owner to an account, the absorption of the
device's threads.  `Leave` and `Crash` differ in whether the pauses are flushed.
`homes` is a history variable: the owners a thread was read under or has joined.
Its domain is the ids given out, which a new draft must avoid; nothing else reads
it but the properties.

**`Sessions`** has one action per await of the handlers that write the three
records of a session: the row of the store (`sessions`), the audit row the user
sees (`audits`) and the `binding` of the two.  A request holds its own copy of the
record from `Enter` on and saves it again in `Respond` when it has modified it;
the store upserts.  `revoked` is the memory of terminated ids, which `Restart`
empties and `reconcile_unbound_sessions` makes up for.  A write may fail at each
step (`Fault`), with what the handler then undoes.

**`SecondFactor`** is fresh authentication and two-factor login of one user: the
row with its password generation, factor, backup codes and TOTP watermark, the
grants in memory, the pending login, and the handlers `reauth`, `twofa_setup`,
`twofa_verify`, `twofa_disable`, `login`, `login_totp` and any handler that
consumes a grant (`act`).  Each read, code check, grant taken out and conditional
update is a step of its own.  A grant carries the proof it was issued for:
password, whether the factor was on, and which.

**`Recovery`** is the two kinds of codes, the tokens reset codes are exchanged for,
and changes of address and password in between.  A code is its place in the
sequence of mails, so that the address it went to is known.  `OneTimeToken` is
what a reset token promises; `Recovery` implements it under a refinement mapping:
a token is good while it lies in memory, or is held by a reset, under the secret
of the user.

**`Gate`** is `rux-request-gate` with the escalation of the API: windows of a fixed
length, suspicion counted over a window, bans of two lengths, the flush (a
snapshot, then one transaction), the lifting of a ban in its steps, expiry and
restart.  Requests, the flush and an administrator interleave; `Free` is the lock
the last two hold against each other.

Operators marked *Faulty* are plausible bugs in the operator after them, kept
beside it so that each property can be shown to catch one.  No specification
uses them.

### Abstractions worth knowing

* Engine: the microtask between the last await of a drain and the settling of
  its promise is merged with the drain's last step.  The pending counters are
  left out; `start()` reads one, so `BeginSync` may or may not find queued work.
  `outbox.clear` and `reassignDomain` have no caller in the app, the stores never
  register a name twice, and nothing calls the teardown that `start()` returns.
  Memory-only storage after an IndexedDB failure is not modelled.
* Bookmark store: all rows of one edit carry one stamp and stamps of one device
  grow.  Undo is offered until the next edit.  A tab may start a round whenever it
  has none under way, which covers every schedule of the engine.  The quotas are
  set out of reach and the clamp left to `BookmarkTables`.  The cache is written
  only while a reload may still follow.  Other devices edit what they have seen,
  under any stamp.
* Sessions: `Enter` lets a browser use any id of the store, also before the
  response that hands it out.  The reconciliation of a restart is one step; a
  failing sweep is only logged in the code, and so not modelled as a start.
* Second factor: a request may end at any await (`Abandon`), so an action states
  when its step succeeds.  What becomes of session rows is left to `Sessions`.
* Gate: pruning runs after the lock of the flush is released
  (`rate_limit_store.rs:165`); it takes only what neither blocks nor remembers and
  is merged with the flush.  Requests are held up in their handler only: time does
  not pass between the locks of one.
* Recovery and second factor: a SQLite transaction is one step, since none commits
  that has read what another one wrote since.
* Ids, tokens and codes are compared and never parsed; they are model values or
  numbers.

## What TLC checks

| Run | Bounds | Shows |
|---|---|---|
| `BookmarkTables` | 3 bookmarks, 2 folders, 2 verses, stamps 1..3, quota 2, 1 mutation a round, clock 0..1, skew 1 | no statement meets the unique index; every live bookmark has a live folder; the quota holds; a newer bookmark of a verse survives every older mutation; rows a mutation does not concern are untouched; stamps fall in the cascade only |
| `SyncEngine` | 2 domains, 2 mutations, one rejected by the server, batches of 2, 2 rejections, 1 failure counted, 2 faults | the dead-letter ledger adds up; no flush request is forgotten; nothing runs on after sign-out; order at the server; nothing lost |
| `SyncEngineLive` | the same with 1 fault | every domain that stays registered empties its queue again and again |
| `BookmarkStoreTabs` | 2 tabs, 2 bookmarks, 2 folders held from before, 1 verse, 2 edits, 1 folder delete, batches of 1, 1 fault | overlays go with their mutations; two tabs pushing one batch, or a late duplicate, change nothing |
| `BookmarkStoreLive` | 2 tabs, 1 bookmark, 1 folder, 2 edits, 1 edit of another device, batches of 2 | tabs come to show what the server holds |
| `Reading` | 1 tab, 2 accounts, 2 threads, 2 stamps, snapshots of 1, 2 threads kept, 2 changes of owner, 1 fault | own changes beat snapshots until they drain; nothing of one account reaches the other; no thread goes backwards |
| `ReadingTabs` | 2 tabs, 1 account, 1 thread, 1 stamp, 1 change of owner, 1 mutation of another device, 1 fault | what has drained is digested; no tab loses the thread it reads |
| `Sessions` | 2 requests, 3 ids, 1 audit row, 2 passwords, 2 faults | a terminated session stays out; one session per audit row; a restart leaves sound sessions only |
| `SessionsFailClosed` | the same with 2 audit rows, 1 fault | *violated:* a failing read of the user at the end of a login leaves its session |
| `SecondFactor` | 2 requests, 1 backup code, 1 time step, 2 passwords, 2 factors, 2 sessions, 3 grants | no code twice; no usable grant without the second factor; the factor changes only for a proof of the row as it is; a half-finished login dies with the proof it began with |
| `Recovery` | 2 requests, 2 addresses, 4 codes, 3 tokens, 4 secrets | an address is verified, and a password reset, by its owner only; reset tokens implement `OneTimeToken` |
| `Gate` | 1 address, 2 requests, windows of 1 tick for 2 requests, bans of 2 and 3 ticks after 1 and 2 windows, 5 ticks, 2 faults | a durable ban is enforced; a lifted one stays lifted |

Why the bounds suffice for the questions asked.  The statements of the tables look
at one id, one key and one folder at a time, so three ids make the id, its rival
and a third row that fills the quota; two folders make the default and one that
dies; three stamps make older, equal and newer, and the third lies beyond the
clamp at first.  A round of several mutations passes through the same tables as
the same mutations in rounds of their own, so one per round is enough.  In the
engine, two domains make one that runs and one that waits or fails, batches of
two a rejected head and a rejected tail, two rejections the first and the last,
and two faults reach each pair of awaits in turn.  In the store, two tabs make one
that drains and one that is told; with two edits a run makes a save and its
removal, a move and a folder's deletion, but no longer history.  In the reading
threads, two threads against snapshots of one make the tail that is cut off;
two accounts with two switches make signing in, out and in as another.  In
`Sessions`, `SecondFactor`, `Recovery` and `Gate` two requests race for one
record, and a third could add only what a completed request leaves; the theorems
below hold for any number of them.  In `Gate` the cap on active bans is never
reached with one address.

Symmetry over interchangeable tabs, accounts, domains, ids, verses, requests or addresses is
used where a run has no liveness property; in `BookmarkStore` bookmark ids are not
interchangeable, because the order of a multi-row edit is picked by `SetToSeq`.

The runs of `BookmarkTables`, `SyncEngine` and `BookmarkStore` check for deadlock.
In the other models the counters that bound the runs (clock, codes, sessions,
grants, ids) are used up in the end and nothing is left to do, so their runs do not.

`DrainedIsDigested` is checked without other devices, because with one it does
not hold: an upsert that lost against a newer rival of another device leaves no
row and would apply later, when the rival has gone; the cascade of another
device's folder delete lowers stamps as well.  Both are listed as hazards.  It
also speaks of accounts within their quotas only (`InQuota`): what the server
refused for want of room leaves the outbox all the same, and a late duplicate of
it comes in once a place is free.

### Fairness

`SyncEngine`: promises settle (`Take`, the round trip, `Bury`, `RemoveBatch`,
`EndPass`; the HTTP client has a timeout and IndexedDB requests end), the 30 s
interval fires while the triggers are wired, and the network comes back.
Nothing is assumed of the retry and debounce timers: draining does not depend on
them.  `BookmarkStore`: a tab syncs again and again (the same interval), a
request is answered or fails, an answer and a notice that have arrived are
handled.  No tap, reload or persist is fair.  The other models state safety only.

## What the code does otherwise than it says

A run shows one of these; the others are stated beside the properties of their
modules, marked "Does not hold", and can be checked by adding them to a run's
configuration.

1. After a login has bound its session the user is read again; when that read
   fails the handler returns and leaves audit row, session and binding, although
   `create_bound_session` announces to fail closed
   (`auth_v1/controller.rs:1167`; run `SessionsFailClosed`).
2. A session outlives its audit row: a termination looks up the session id of an
   audit row and deletes that session, while a rotation of the same session moves
   it to an id the termination does not know; the audit row stays revoked and the
   new id is bound to it, until a restart reconciles them
   (`auth_v1/controller.rs`, `sessions_terminate`; `Sessions!NoneOutlivesItsAudit`).
3. A folder brought back by an upsert is not counted against the folder quota
   (`bookmark_folder/actions.rs:86`; `BookmarkTables!FolderQuotaHolds`).
4. After a folder delete, bookmarks that went down with it carry the delete's
   stamp, which may be older than theirs, and a replayed upsert of one is applied
   again (`bookmark_folder/actions.rs:179`; the exception in
   `StampsFallOnlyInCascade`).
5. A failed domain waits for the 30 s interval when a flush of another domain
   has cancelled the retry timer (`engine.svelte.ts:336`;
   `SyncEngine!FailedRoundRetries`).
6. A bookmark edited again while its first edit is under way shows its old state
   until the next round (`store.svelte.ts:597`; `BookmarkStore!PendingEditShown`).
7. Bookmarks hidden by the deletion of their folder stay hidden in that tab until
   it is reloaded, also when the server kept them (`store.svelte.ts:448`;
   `BookmarkStore!NoOverlayWithoutQueue`).
8. A thread removed on one tab may be pushed again by another tab, or by the row
   that was still in flight when nothing of it had reached the server
   (`lib/sessions/store.svelte.ts`; `ReadingThreads!RemovedEverywhere`).

## What is proved

Every invariant and every safety action property of the passing runs is the
statement of a theorem.

`BookmarkTablesProofs`, for all ids, folders, verses,
stamps, quotas, skews and batch sizes:

* `TypeCorrect`, `LiveKeysUnique`, `LiveBookmarksHomed`: from the inductive
  invariant `TablesInv`.  Uniqueness alone is not inductive: a bookmark whose
  folder is dead is filed in the default folder and a dying folder's bookmarks
  move there, so the step needs that the default folder is live while a round is
  open (`Ready`), which `ensure_default` establishes and no mutation undoes, and
  that every row is well-formed (`Tables`).  There is one lemma per table
  operation, `Ready(t) => Ready(operation(t))`, and the rounds follow.
* `BookmarkQuotaKept`: an operation adds at most the id it names to the live
  bookmarks (`LiveAfterMutation`), and adds it only below the quota.
* `StampsBounded`: an operation writes no stamp but the clamped one.
* `NewerBookmarksSurvive`: an action property, per operation: a newer row either
  stays, moves to the default folder, or goes because the default folder holds
  its verse live.
* `OthersLeftAlone` and `StampsGrow`: action properties, per operation, from a
  description of the rows an operation may touch (`RowsAfterMutation`,
  `FoldersAfterMutation`).

`SyncEngineProofs`, for any domains, mutations, faults and batch size:

* `QuietAlways`: the invariant is inductive once the list of domains is known to
  be a sequence.  A flush without targets and the end of a failing drain arm no
  retry, and taking a domain off the list takes off no other (`Unregistering`).
* `FlushesRemembered`: inductive with two more facts, that only registered
  domains are owed a flush, and that during a pass the filter booked for the next
  one is `All` or the running one's.  Without the second a second request for the
  running filter could find a narrower one booked.

and, for any number of rejections as well:

* `EngineTyped`, `FifoHolds`, `NothingIsLost`: from `QueueInv`.  It adds to the
  types that no mutation is queued twice, and what a batch under way is: from the
  push to the removal or burial it is the head of its queue, since callers add at
  the other end and nothing else takes mutations out; at the removal the server
  has all of it, at the burial it was rejected (`UnderWay`).  `ErasedHead` is the
  lemma about queues: looking up the ids of a head and erasing them leaves the
  rest in its order.
* `DeadLettersArePaidFor`: a burial that is cut short leaves a copy in the
  dead-letter store while the original is still queued.  `DeadInv` says that such a
  copy is always of the head, and that the mutation at fault is among the first
  `FlushBatch`, so that no batch the copy heads can be accepted and removed before
  the burial is repeated (`CopiesStay`); without that a copy would become a dead
  letter nobody paid for.

`BookmarkStoreProofs`, for any number of tabs, finite sets of ids, any verses,
stamps, quotas, batch sizes and faults, and however many edits of other devices:

* `BookmarkStoreTyped` and `OverlaysRetiredAlways`: from `TypeInv`, which adds to
  the types that a tab remembers a mutation for every overlay but those of
  bookmarks hidden with their folder, and that what it remembers is queued or
  announced to it (`Remembered`).  Six edits share one description of what a legal
  edit may queue, lay and take away (`Sensible`), so the invariant is shown of that
  once.
* `DigestAlways` and `DrainedIsDigestedAlways`.  A mutation is `Settled` when the
  server would skip it.  That is stable under writes that only raise stamps
  (`SettledStays`), and each mutation of the device is such a write as long as none
  is overtaken by a newer one; so `Clean` says that in the outbox, in each request
  sent and in each stray one, whatever is older than a mutation is settled or goes
  first (`Ordered`), and that a row newer than a mutation of the device was written
  after that one was settled (`Frontier`).  Two facts beside it are needed for a
  removal to leave a tombstone and not nothing: what a tab can remove came with a
  snapshot or was put there by an older mutation (`Known`), and no mutation is
  refused for the quota (`InQuota`).  A round is a recursive function over its
  batch; `RoundDigests` climbs it by the principle of the least number.

`ReadingThreadsProofs`, for any number of tabs (none and infinitely many
included), any accounts, finitely many threads, any positions, stamps, caps,
snapshots and faults.  One lemma per action says what it does to the tab, the
queue and the rows (`Goes`, `Restarts`, `SwitchesTo`, `Serves`), and the
invariants rest on those and open no action again:

* `ReadingThreadsTyped`: from `TypeInv`, with the cap, whose lemma is about the first
  elements of a finite total order (`FirstOnes`).
* `NeverBackwardsAlways` and `ReadingGoesOnAlways`: action properties, from `TypeInv`
  and what a tab keeps and how far it has come (`Keeps`, `Onward`).
* `OneAccountEachAlways`: from `HomeInv`.  What is stored, shown, queued or answered
  for an owner belongs to it (`Holds`), a draft is its tab's alone and nobody's yet
  (`Drafts`), and with one tab a thread still on the device has joined no account
  (`LocalOnly`).
* `OwnChangesShownAlways`: from `ShownInv`, while the ids given out fit under the cap.
* `ChangesDigestedAlways`: from `TakenInv`, which takes in the batches that have been
  answered and not handled: those mutations change nothing any more, because a
  thread's row and its tombstone only become newer, while the account has room.

`RecoveryProofs`, for any requests, addresses, codes and tokens: `IInv` adds to the
types that no two resets hold one token (`Orderly`), and that a code in its table,
and the code behind whatever was issued under the secret of now, went to the
address of now (`Addressed`): a change of address deletes codes and changes the
secret in one transaction.  `AddressVerifiedByItsOwner` and
`PasswordResetByItsOwner` follow, `TokensImplement` is the refinement step by
step, and `TokensKeepPromise` carries the invariant of `OneTimeToken` over.

`SessionsProofs`, for any requests, ids, audit rows and faults: `IInv` says beside
the types what a request of each stage works on (`Working`), that an audit row
about to be bound is bound to no id and in no other hands (`Bound`), that an id
about to be bound was neither bound nor terminated before (`Fresh`), and that a
terminated id is in the memory of terminated ids, or has neither a row nor a
request that could save one again, and leads to no live audit row (`Ended`).  The
last is what makes `TerminationHolds` survive a restart, which empties that memory
but ends all requests and takes away what is bound to a revoked audit row.

`SecondFactorProofs`, for any requests, codes, sessions, factors and grants.  What
the handlers compare is the row's proof (password, enabled, factor), and that may
come back: a factor set up, switched on and off again leaves the row as it was.
The argument is that a proof with a factor the row has left never comes back
(`Gone`), since factors are given out once; so a grant or a request whose proof is
the row's was proven for the row as it is.  A time step accepted is behind the
watermark, and a backup code accepted is gone from the row or belongs to a factor
that is gone (`Spent`), which gives `CodesHold`; `FreshnessHolds`, `TrustHolds` and `HalfLoginsHold` rest on `Granted`
and `Requested`, which say the same of grants and of what requests hold.

`GateProofs`, for any addresses, requests, windows, thresholds, durations and
faults:

* `GateTyped`: from `TypeInv`; the part with work in it is that the history of a unit
  stays a sequence of instants gone by, since its old ones are dropped from the front
  by a choice of the first recent one (`Recent`).
* `LiftsHold`.  What could bring a ban back is a copy of it, in the table, in the
  snapshot of the flush or in memory.  The invariant says that no copy outlives the
  lift, and needs the lock (`Locked`): while a lift is under way there is no snapshot,
  so that what the lift has deleted (`Deleted`) is not written again before the memory
  is cleared, and what has been lifted is in no copy (`Forgotten`).
* `DurableBansHold`.  What could end a ban early is a shorter one set over it, by a
  request let in before the ban and counted after it.  `EnforcedInv` says that the ban
  in memory runs as long as each copy (`Kept`), and that a unit banned while such a
  request is on its way was banned at this instant, from a history that has only
  grown (`Earned`): the ban that replaces it is not shorter.

Assumptions: those named in the modules (`...Assumption`): the default folder is a
folder id, quotas, skew, clock, batch and other bounds are naturals, positive where
a zero would switch the mechanism off, `All`, `None`, `NoEmail` and `Local` are
none of the values they stand beside, the sets of bookmark, folder and thread ids are
finite, no bookmark id is a folder id, and the shorter ban is not longer than
the longer one (an hour and a week in the code).  TLC evaluates them in every run.

What the proofs showed about the models and the code:

* `DurableBanEnforced` needs the order of the two durations: with a shorter "long"
  ban, a second request of the same instant would cut the first ban down.  Nothing
  in the code asks for that order; its constants have it.
* Under a clock that lags, a change gives its thread an older stamp than the change
  of it that is still pending; what is shown is then older than what is pending, and
  `dirty`, to be pushed in its turn.  `OwnChangesShown` says so, and speaks of
  ids that fit under the cap, which drops the oldest rows, changed ones included.
* Threads of the device can join two accounts: two tabs that both hold them absorb
  them for the account each of them turns to.  `OneAccountEach` excepts that case only.
* `ChangesDigested` and `DrainedIsDigested` hold within the quotas, as said above;
  `ReadingGoesOn` excepts removal and a full cap.

Only model-checked: liveness (`Drains`, `ViewConverges`), since `WF` and ENABLED are
out of the prover's reach.  Induction over data is out of reach as a rule with an
operator parameter, and is replaced where it is needed by the principle of the
least number over a set of naturals (`LeastNatural`, `Climb`).  For it the models
write out by positions what has to be reasoned about: `Outbox!Erased` is the
filter of a sequence, `Round` a recursive function, `Laid` an update of a function at
many places.  No module declares a recursive operator.

## What is not modelled, and the plan

The map covers a small share of the implementation's lines.  Most of the lines are
CRUD handlers, settings, validation, rendering, seeding and calls of outside
services, which keep no state between two steps; the models stand for the places
where state is split between devices, tabs, tables and memory.

Parts of modelled components that are left out: the device owner of the bookmarks
and their absorption on sign-in (`ReadingThreads` has both for threads); dead
letters in `BookmarkStore`; the archive pages of threads; OAuth links,
registration, and the deletion, merging and changing of accounts by
administrators (`user/actions.rs`); the caps of the in-memory maps of grants,
pending logins, reset tokens and tracked identities; the delays between resends
and the abuse limiter; time-to-live of session rows.

Next, most important first:

1. `BookmarkStore` composed with `SyncEngine`, rejections and dead letters
   included, and an abstract `Shelf` (what each verse should show by the newest
   edit) that the tables implement through a refinement mapping.
2. The device owner of the bookmarks and absorption: no device bookmark is lost by
   signing in.
3. Passkey and OAuth challenges, which are taken out once as pending logins are, and
   the links of an account, which must leave it a way in.
4. The translation pool, downloads against retention in the offline cache, and
   reading analytics.
5. Theorems: that the tables implement `Shelf`, and the composition of item 1, for
   which `SyncEngineProofs` has the queue and `BookmarkStoreProofs` the tables.

Left out for good: ids, feedback and rendering (no state to get wrong between
steps), seeding, the terminal UI, scripts and deployment (tools), content, media
and mail (CRUD over outside services), Quran text and search data (read-only).
Billing is unreachable in this build: the migrations create no billing tables and
no provider is configured.
