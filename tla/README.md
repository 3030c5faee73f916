# FootAlert: TLA+ models of the backend and of the app's data layer

FootAlert is a React Native app for football scores with a backend-for-frontend,
`footalert-bff`, which runs as several API processes and several worker processes
over one PostgreSQL, one Redis and two outside services: API-Football for data,
Firebase for pushes. The difficult behaviour is in what these processes and the phones
share: job queues, delivery rows, cache entries and locks, leases, snapshots, sessions,
follow counters. The modules here model that behaviour statement by statement; TLC
checks it on small instances and TLAPS proves part of it for instances of any size.

    tlc -config notif_clean.cfg MCNotifications
    tlapm NotificationPipeline_proofs.tla

## 1. The system

| Part | State | Operations | Talks to |
|---|---|---|---|
| Notification pipeline (`lib/notifications`, `worker/notifications-*`, `routes/notifications.ts`) | `notification_events`, `notification_deliveries`, `push_devices`, subscriptions; three BullMQ queues and a dead-letter queue | ingest an event; dispatch, send and promotion jobs; register, revoke, subscribe, opened, erase | PostgreSQL, Redis, Firebase |
| Response cache (`lib/cache.ts`) | per process: memory entries, in-flight map, `redisReady`; in Redis: entry, lock | `withCache`, `withCacheStaleWhileRevalidate`, fills | Redis, upstream client |
| Snapshot refresh queue (`lib/readStore`, `worker/maintenance.ts`, `worker/read-store-refresh.ts`, `worker/match-calendar-scheduler.ts`) | `snapshot_refresh_queue` | enqueue, lease, refresh, complete, fail, calendar cycle | PostgreSQL, upstream client |
| Read-through snapshots (`lib/readStore/readThrough.ts`, `routes/matches/fullRoute.ts`) | `entity_snapshots`, `match_live_overlays`, in-flight map per process | read fresh, stale or expired; refresh in the background; lay the overlay over; collect | the refresh queue, upstream client |
| Upstream client (`lib/apiFootballClient.ts`) | circuit per family (local, published in Redis), budget of the minute (Redis or local) | one request with retries | API-Football, Redis |
| Mobile sessions (`lib/mobileSession*`, `routes/mobileSession.ts`, `routes/privacy.ts`, the app's `mobileSessionAuth.ts`) | refresh-token families, challenges, the app's stored session and device id | issue, rotate, revoke, purge; refresh or attest, erase | PostgreSQL, attestation |
| Follows discovery (`lib/follows`) | follow states, counters, daily statistics | record an event, trends | PostgreSQL |
| Followed lists and offline mutations (`src/data/storage/followsStorage.ts`, `src/data/db`, `useFollowsActions.ts`) | list in SQLite, AsyncStorage and the query cache, which MMKV persists; table of failed mutations | toggle, load, drain | the API |
| Push registration of the app (`pushTokenLifecycle.ts`, `pushTokenStorage.ts`, `NotificationsRuntimeProvider.tsx`) | registration snapshot, device id, listeners; `push_devices` | register, revoke, start, stop, erase | the API, Firebase |

Interactions that matter: the API and the workers share the notification rows and
talk through BullMQ jobs, which are retried; every read of the API goes through the
cache or the read store, and both go to the upstream client, whose quota errors the
cache turns into stale answers; readers and the calendar ask for refreshes, which the
workers lease; an erasure deletes rows under running jobs; the app repeats events whose
answer it has not seen.

### What is hard, part by part

**Notification pipeline.** Every handler is a chain of awaits with no transaction
around it. Any call in the chain may throw, after which BullMQ runs the handler again
from the start against rows the first attempt has changed. Send jobs of one event run
at the same time. Listeners of failed jobs write the event's status and the
dead-letter queue while the next attempt is already running. Phones open, revoke,
register and erase at any moment. What makes it correct: a device gets an alert once;
no eligible device is forgotten; `sent` is true; deferred rows have somebody to promote
them; a job that gave up is in the dead-letter queue; the statuses are final.

**Response cache.** Redis comes and goes between any two commands, locks expire under
their holder, the finally clause of a fill may run long after its lock was taken over.
Correct means: one fill per process and key, nobody releases another's lock, an
upstream outage is hidden while a copy exists, every call is answered.

**Refresh queue.** Leases of thirty seconds are not renewed while a batch of ten is
refreshed one by one; completions write the row without looking at the lease; requests
arrive during a refresh. Correct means: a task leased to a worker is that worker's
until the lease lapses, and what is asked for is fetched.

**Read-through.** Several processes and workers fetch and store one snapshot without
seeing each other, and the older answer may be stored last, with a full window. The
live overlay is a row of its own, shared by all timezones, stored before the payload
is validated. Correct means: what is called fresh is recent, whoever stored it; an
overlay over a newer payload is recent too; and the end of a match is shown some day.

**Upstream client.** The state of a circuit is published without waiting, arrives in
any order and is adopted only when it opens for longer; a late success closes a circuit
that opened meanwhile; the circuit is looked at once, the budget at every attempt.
Correct means: an old opening does not come back to last longer; an opening that was
read is heeded.

**Mobile sessions.** A rotated token that is replayed revokes the family. Two requests
may present one token, and a revocation may meet a rotation under way. All callers of
the app share one refresh, which may fail at every step; an erasure deletes the sessions
of the device, then the app forgets its identity while other callers ask for a session.
The app stops using a token 30 seconds before the server does. Correct means: one live
token per family; a revoked row stays revoked; one live session per phone, but for the
ones in their last seconds, while nothing is lost; the two sides agree at rest; every
caller is answered.

**Follows and the app.** First follows are counted twice when two requests find no row
to lock. A toggle loads, awaits and stores the whole list, is shown before it is stored
and runs again when it fails, which toggles back. Follow events are queued when their
answer is late, sent again in another order, by two drains at once. The list shown is an
entry of the query cache, which is persisted a second behind and restored without a look
at SQLite. Correct means: the counters are the followers; the list shown is the list kept,
unless an older one was restored; the API knows of the phone what the phone has stored.

**Push registration.** A start of the app, the switch, another language and a renewed
token each start `syncPushTokenRegistration`, and nothing keeps two of its calls apart.
The only record of what was registered is a snapshot in the keychain, written after the
API has answered and removed whether or not the revocation was received. Requests that
the app gave up may be served later; an erasure clears identity, session and snapshot
side by side while registrations go on, and a registration takes its device id from the
snapshot. Correct means, at rest: what is kept is served, what is served is kept, off is
off; and always: no device of an erased session or device id remains or comes back.

`PROJECT.json` lists the forty most important hazards at their lines. Where the code does
what the hazard says, and no property can forbid it, the entry says so. Known besides:

* `worker/match-calendar-scheduler.ts:72`: the two hours of `post_match` count from the
  kickoff, so extra time goes from live to settled. `:210`: only fixtures of the current
  day are followed, so a match past midnight leaves the calendar.
* `routes/notifications.ts:385`: an event inserted whose enqueue throws (divergence 1).
  `worker/notifications-jobs.ts:97`: a dispatch that fails after enqueuing enqueues again;
  `lib/cache.ts:847`: stale-while-revalidate reads Redis twice before it looks for a fill;
  `db/offlineMutationQueue.ts:75`: two drains at once. The models have all four.
* `worker/notifications-send.ts:28`: rows and tokens are read before the multicast, so a
  device revoked meanwhile is still pushed; the model has it, the contract allows it.
* `followsStorage.ts:95`: SQLite's failure is ignored when the list is saved; where
  it parts the two storages `spoiled` records it. `lib/follows/discoveryStore.ts:491`:
  `GREATEST` would hide an unfollow that is counted twice (`CountsAgree`).
* `lib/notifications/store.ts:1086`: the cursor carries `created_at` with milliseconds,
  the column has microseconds.
* `lib/apiFootballClient.ts:473`: without Redis each process has the whole budget.
* `lib/mobileSessionRefreshStore.ts:314`: a rotation whose answer is lost leaves a live
  row nobody holds. `mobileSessionAuth.ts:411`: a session read before an await is used
  after it; harmless as long as the keychain serves in order, which the model assumes.
* `lib/cache.ts:655`: a producer that rejects before the release has answered ends the
  Node process. The model has the step.
* `pushTokenStorage.ts:94`: two calls that find no device id at one time each make one up,
  and the one stored last stays. Left out: here the first call has made it.
* `pushTokenLifecycle.ts:266`, `:384`: see divergence 12; the listener of the foreground,
  subscribed after a stop, stays as the one of the token does.
  `lib/notifications/store.ts:704`: subscriptions belong to a device row, and a renewed
  token makes a row without any.
* `routes/matches/fullRoute.ts:179`: `updatedAt` is from a second read of the snapshot
  and may be newer than the payload. `:175`: when the overlay stops being fresh, a score
  that was shown may go back.

## 2. Modules

| Module | Contents |
|---|---|
| `NotificationPipeline` | one event, from ingestion to the pushes |
| `DeliveryContract` | what the pipeline promises about delivery rows and pushes |
| `BffCache` | one key of the response cache |
| `RefreshQueue` | the queue of refreshes, the calendar and the workers |
| `ReadThrough` | replies to requests for a match: snapshot, overlay, refreshes |
| `UpstreamCircuit` | the circuit breakers of the upstream client |
| `MobileSession` | token families in PostgreSQL, the phone's session, erasure |
| `FollowsDiscovery` | the transaction that records a follow event |
| `FollowedTeams` | the app's list and events, composed with `FollowsDiscovery` |
| `DeviceRegistry` | the app's push registration and the rows of `push_devices` |
| `MC...` | instances for TLC, and in `MCNotifications` the refinement |
| `..._proofs` | theorems |

In the models, a definition marked "slip" is not part of the behaviour. It is the
definition after it with one plausible programming error; `PROJECT.json` pairs it with
the property that rejects it.

### NotificationPipeline

| State | Code |
|---|---|
| `device`, `subscribed` | `push_devices.status`, subscriptions and preferences that match the event; `reactivated` remembers revocations |
| `delivery`, `event` | `notification_deliveries.status` per device, `notification_events.status` |
| `request` | where each call of `POST /v1/notifications/events` is |
| `kind`, `step`, `made`, `ids`, `frame` | the BullMQ jobs: queue, state or handler step, attempts made, rows in the payload, local variables of the handler |
| `notices`, `dlq` | runs of the `failed` listeners, dead-letter entries per job |
| `pushes` | messages the provider took, per device |

A handler takes one action per await: `DispatchResolve`, `DispatchCreatePending`,
`DispatchCreateDeferred`, `DispatchListPage`, `DispatchAddSend`,
`DispatchAddPromotion`; `SendListPending`, `SendMulticast`, `SendMark`,
`SendInvalidate`, `SendRethrow`; `PromoteDeferred`, `PromoteAddSend`,
`PromoteCountDeferred`, `PromoteRequeue`; and at the end of each
`BacklogReadPending`, `BacklogReadDeferred`, `BacklogWriteStatus`. `HandlerFails`
makes the current call throw, `Crash` ends the worker with all its handlers and
listeners, and the jobs it ran wait again. The routes are actions of the phones.

Assumed of PostgreSQL and BullMQ: a statement (or the transaction around several) is
atomic; an enqueued job is not lost; a job that throws is tried again up to `Attempts`
times; a stalled job is given to a worker again. Delays between attempts and the order
of jobs are arbitrary. Left out: the dead-letter replay script, the in-memory store
used without a database, failures inside the listeners themselves, and the two
precisions of `created_at` in the page cursor.

`DeliveryContract` has two variables, `delivery` and `pushes`, and two actions. It
says that a row moves along its life (created, deferred before pending, one outcome,
opened), that outcomes are true, and that a device is pushed at most once, with no
word of jobs or handlers. `MCNotifications!ImplementsContract` is its specification
under the identity mapping of the two variables.

### BffCache

One key, several processes. An entry has only an age (fresh, stale, none), which may
advance at any moment; a fill slot is a promise of `createCacheFillPromise` and the
random token of its lock. `ready` is `redisReady`: any command may fail and clear it,
and only the `ready` event sets it. The peculiarity that
`return produceAndCache(...)` inside `try/finally` runs the `finally` while the
producer is under way is modelled as it is (`releasing`), with its consequences: the
lock is free during the fetch (see the divergences), and a producer that rejects before the
release has answered ends the process (`FillRejectsUnhandled`).
Left out: `primeCacheValue`, reconfiguration, the check at startup, the hashing of
keys, which entry the memory cache evicts (any may go at any moment).

### RefreshQueue

`line` is the sequence of due rows by `next_refresh_at`; `priority` and `lease` are the
columns; `lease[t]` is the worker whose lease has not lapsed. `plan`, `batch` and `job`
are the locals of a worker's loop. `Ask` is a reader of a stale snapshot, `ReadCalendar`
and `Schedule` the calendar cycle, `Claim` the statement of `leaseRefreshTasks` with its
order and limit, `Begin`, `Complete`, `RefreshFails`, `Fail` the loop over the batch.
A row is in line once: `OutOfLine` takes it out before it takes its
new place. `FailFails` and `Crash` leave leases behind. `SKIP LOCKED` makes concurrent claims
equivalent to claims one after the other. Time is abstract; the clocks agree on the
order of `next_refresh_at`. A reader's enqueue that fails changes nothing and is left out,
as are what a refresh fetches, the bootstrap and hotset warm-ups, heartbeats, the
garbage collector and the in-memory store.

### ReadThrough

One match in one timezone. A payload is known by what it shows (live, over, or nothing:
a response without the fixture) and by its age, the ticks since API-Football said so;
a row also by the time since it was stored, which is what `resolveFreshness` looks at.
`refresh[a]` is a refresh under way: of a process in the background
(`inFlightSnapshotRefreshes` holds at most one), of a reader who found nothing, or of a
worker with a task. `PutOverlay` and `PutSnapshot` replace the row whatever it holds;
the API stores the overlay first and validates between the two, the worker stores the
snapshot first. `Get`, `ServeStale`, `Reply` are a request; `Collect` is the garbage
collector; `Restart` ends a process with what it was doing.

A worker may refresh another timezone, which here is a refresh of the overlay alone. An
overlay that is not live is never applied and is modelled as none. The tasks of workers
are those of `RefreshQueue`, which may run at any time; whether a task is ever taken is
that module's matter, and nothing here depends on it. Left out: the reported
`updatedAt`, the hydration labels, the routes without an overlay, and the other stores
built on `readThroughSnapshot`.

### UpstreamCircuit

The circuit of one family in several processes. A time until which a circuit is open is
kept as the ticks that are left. `Begin` is the read of Redis, `Adopt` the comparison
with the local state and the check; `Succeeds`, `Fails` and `Refused` the ends of one
attempt, with its record in the local state and its publication. `outbox` holds
publications that have not arrived, `Lost` drops them with the connection. The budget
of the minute may refuse at any attempt.

### MobileSession

`row` is `mobile_refresh_sessions`; `req` the requests the server is at, each in the
middle of its statements: `RotateSelect` (`SELECT ... FOR UPDATE`), `RotateCommit`,
`RevokeSelect`, `StatementBegins` and `StatementEnds` of an UPDATE or DELETE over
several rows (it sees what was committed when it began, waits for locked rows, then
applies to those it saw), `Issue`, `StatementFails`, `DeadlockVictim`. The phone is
`stored`, `usable`, `ending`, `device`, `flight` (the shared refresh) and its callers;
every await of `getMobileSessionToken` and `eraseMobilePrivacyData` is a step. Integrity
verdicts and challenges are inputs: an attestation may be refused.

The phone and the server each decide for themselves whether a refresh token has expired.
The phone stops 30 seconds early, by its own clock (`isRefreshTokenUsable`): from any
state it may find the stored token about to expire (`AttestStarts`, which puts it in
`ending` for good) and attest, which begins a second family while the row of the first is
still live; and it may still present one that the server has let expire (`Expire`).
Nothing is assumed of the two clocks. In an erasure each clear may fail by itself
(`ClearFails`).

Assumed: READ COMMITTED; the keychain serves requests in the order they are made; a
token is never guessed. `Rotated` writes one state for the columns `rotated_at` and
`revoked_at`, of which the code leaves `revoked_at` alone: the lock and the SELECT have
found it empty, so the two never meet, which is `RevocationIsFinal`. Rows nobody will
look at again are reused (`Unused`), which is what bounds the tokens.

### FollowsDiscovery and FollowedTeams

`FollowsDiscovery` has the transaction of `recordEvent`, one team, any number of
subjects and requests: `Select`, which locks the row if there is one, `Upsert`,
`Count`, `Commit`, `Rollback`. Writes appear at the commit, and locks make others wait.
`doubled` counts first follows that met each other.

`FollowedTeams` extends it with the phone: `Tap`, `Load`, `Legacy`, `Stored` are a
toggle from the tap to the end of its mutation, with the list in SQLite and in
AsyncStorage (which answers in order: `asked`) and the optimistic list in the query
cache (`shown`); `Reply`, `GiveUp` the answers of events; `StartDrain`, `SendRow` the queue
of mutations; `Restart` the end of the app.

The query cache is persisted in MMKV (`queryPersistence.ts:28`, `:208`), a second after
the first change that was not: `Flush` writes the list that is shown at that moment, also
an optimistic one, or removes the cache, when it is too large or cannot be written.
`Restart` shows the persisted list, which is never stale (`useFollowsActions.ts:75`,
`staleTime: Infinity`) and not loaded on mount; or, when there is none or it is older than
a day, what `loadIds` finds (`Kept`). `Reload` is a load for another reason, such as
the reconnect of `useFollowedTeamIdsQuery`. `outdated` remembers an app that started with
a persisted list that was not the one kept, until a toggle ends or the list is loaded.

Its requests are requests of
`FollowsDiscovery`: that every step of the app is a step or a stutter of the API's
specification is a theorem.

Left out: the order of the list; leagues, which send no event; players, the same code
with another limit; a toggle before the list is loaded (the button waits for it); an
INSERT into the queue that fails; the LIMIT 50 of a drain. Awaits of promises that are
already resolved are one step with what precedes them. Requests under way at one time
are bounded by `Request`. A toggle whose mutation failed runs again from the top: if it
now finds the list full it changes nothing and sends nothing, and what its first run
wrote stays (`Unsent`, recorded in `spoiled`).

### DeviceRegistry

`sync[s]` is a call of `syncPushTokenRegistration`, with an action per await: `Read` (the
snapshot, with its device id), `Name` (the device id, when the snapshot had none), `Ask`
(the token, then nothing to do or a request), `Save`, `Clear`. `Toggle` and
`LanguageChanges` run both effects of `NotificationsRuntimeProvider`; `starting` and
`listening` are `startPushNotificationRuntime` before and after it has subscribed, which a
stop in between does not prevent. `starting` is a count: the cleanup of the effect resets
`pushRuntimeStarted`, so that a start may begin beside one that awaits its client. `wire`
holds the requests; one that is given up (`GivesUp`, `EraseGivesUp`, `Restart`) is lost or
is served later (`Abandoned`). `row` is `push_devices` by token, with its status, the
subject and the device id it was registered under (the two differ when the id is from an
older snapshot, `keptId`), written by `ServeSync`, `ServeErase` and, for a token Firebase
has renewed, by the worker (`MarkInvalid`). `erasing`, `toClear` and `outlived` are
`eraseMobilePrivacyData`: the snapshot, the device id and the session are cleared in any
order, each may fail, and a session that is left goes on under the erased identity until it
ends.

Registrations are told apart by their token; whether another field (locale, time zone,
version) asks for a new one is left open, as is whether Firebase has a token to give.
Three history variables delimit the properties. `astray` is set by what makes the app lose
sight of a registration: a revocation that overlaps another call or an erasure, a
switch while the runtime starts, a request given up, a storage that failed, an older token
saved over a newer, an end of the app in the middle of a call. It is taken back when a
call has registered or revoked the current token with nothing else under way (`sole`).
`mixed` is set by what lets something of an erased identity stay or come back, each at
the step where it happens: a registration on its way when the erasure is served; one sent
while the app clears; a call that has read a device id when a clear is done; a session
begun between the clears; a clear of the snapshot or the session that fails; an app that
ends between the clears. TLC finds each exception of both needed: without any one of them
a property is violated.

Left out: opened notifications, the migration from the first version's storage, configured
and synthetic tokens, subscriptions, `revokeRegisteredPushToken` (nothing calls it).

## 3. What the runs check

| Run | Instance | Shows |
|---|---|---|
| `notif_clean` | 2 devices of one phone, both immediate, pages of one row, two send jobs at once; all answers of the provider, two transient ones; one device or subscription change | types, no pending row forgotten, `processed` means done, dead jobs are dead-lettered, and the contract is implemented: one push per device, outcomes true and final |
| `notif_deferred` | 3 devices, 1 immediate, promotion one row at a time, two send jobs at once | one push, no row forgotten, the cap, deferred rows have a promoter |
| `notif_faults` | 2 devices, 1 immediate; one failing call, timed-out push or crash; answers that invalidate a device | `sent` is true, deferred rows have a promoter |
| `notif_live` | 2 devices, 1 immediate, one transient answer, one change, fairness | an eligible subscriber gets an outcome |
| `cache_faults` | 2 processes, 1 call each, 3 fill slots; lost links, expired locks, crashes, unhandled rejections | locks kept, outages hidden |
| `cache_live` | 1 process, 2 calls, fairness | one fill per process; calls are answered |
| `queue_live` | 1 match, 1 player, 2 workers, batches of one; one lost update or crash, fairness | types, leases honoured, requests served |
| `readthrough` | 1 process, 1 reader, 1 worker; one failure, empty answer or end of the process; fairness | types, fresh replies and overlays are recent, the end of the match is shown |
| `upstream` | 2 processes with a call and one retry each, a window of one tick, one publication under way each | types, an opening ends, an opening that was read is heeded |
| `session` | 2 callers, an erasure, 2 requests at once, 3 tokens in 2 families; one loss, failure, revocation or end of the app | types, one live token per family, one live session per phone beside those in their safety window, revocations final, nobody waits for nothing, agreement at rest |
| `devices` | 2 calls at once, 2 tokens, one erasure, one request served after it was given up, 2 starts of the runtime at once; no bound on failures, switches and starts of the app | at rest what is kept is served, what is served is kept, off is off; no device of an erased session or device id |
| `follows` | 2 subjects, 2 teams of which one may be followed, 2 toggles, 2 drains, 2 requests at once; 3 toggles or loads anew and one failure or end of the app in all | types, counters are followers, lists and counters agree, the list shown is kept, the API is in step |

### Divergences met while modelling

Each is what the code does, seen in the model or on the way to it, against what a
document or comment says. The models follow the code; the properties do not promise
what the code does not keep.

1. `routes/notifications.ts:385`: when the enqueue throws after the event was inserted,
   the caller's retry finds the event, is answered `accepted`, and no job exists.
   `docs/infra/notifications-runbook.md:101` expects new events "accepted and enqueued".
2. `worker/notifications-send.ts:80`: the status write after the multicast does not look
   at the row, so `opened` turns back to `sent`; line 104 of the runbook has open tracking
   update the status.
3. `lib/notifications/workerPolicies.ts:16`: `sortRecipientsForFanout` calls
   `localeCompare` on `last_seen_at`, which the store passes on as the driver's `Date`:
   a dispatch of two recipients throws. All runs take `RowTime = "text"`, the type the
   code declares; with `"date"` there would be nothing after the dispatch to check.
4. `lib/cache.ts:655`: `return produceAndCache(...)` inside `try/finally` is not awaited,
   so the lock is released when the fetch begins, and two processes fetch.
   `docs/architecture-data-swr.md:121` says that one process does.
5. `lib/readStore/runtime.ts:366`: a completed task always gets a next refresh, so that
   of a settled match runs for ever, at the priority it had. `match-calendar-scheduler.ts:11`
   and `docs/architecture-data-swr.md:520` say there is none.
6. `lib/follows/discoveryStore.ts:352`: two concurrent first follows are both counted,
   although the routes' tests call the endpoint idempotent. `CountIsFollowers` counts
   them (`doubled`).
7. `src/ui/app/providers/QueryProvider.tsx:103` lets a failed mutation run again, and a
   toggle that runs again is a toggle back.
8. `followsStorage.ts:55` calls SQLite the source of truth and `:63` the migration
   one-shot; an empty list in SQLite imports the list of AsyncStorage each time. And what
   the app shows after a start is not SQLite's list but the one restored from MMKV, for up
   to a day (`queryPersistence.ts:28`, `QueryProvider.tsx:220`, `useFollowsActions.ts:75`).
   When the app ended between the write to SQLite and the flush, the user sees the older
   list, and a tap toggles what SQLite has: the opposite of what was tapped. TLC violates
   `ShownIsKept` in four steps without its exception for it.
9. `lib/apiFootballClient.ts:753`: the answer to a request sent before the circuit opened
   closes it; `docs/architecture/scalability-baseline.md:57` has it open for its window.
   The budget that line 54 calls global is each process's own without Redis.
10. Revocation of a family does not reach the row that a rotation inserts and commits
    after the UPDATE began; `packages/api-contract/openapi/footalert.v1.yaml:1000` has
    the family revoked.
11. The challenge store lives in process memory; `docs/infra/pm2-scaling-runbook.md:74`
    plans several processes.
12. `pushTokenLifecycle.ts:253` calls a revocation that finds no network `revoke_deferred`,
    but `:266` then removes the snapshot, the only record of the token: it is never sent
    again, and the phone stays registered. The same is left when notifications are switched
    off during a registration (`:316` is answered after the snapshot was found empty), or
    while the runtime starts (`:348` subscribes after the stop, and registers the next
    token).

### Bounds, and why they are enough

* Two devices are the fewest with a page boundary (`PageSize = 1`), a first and a later
  recipient, a row that is immediate and one that is deferred. Three are the fewest with
  a promotion that leaves a remainder and requeues itself, so with two promotion jobs in
  a row. The job slots are as many as these instances can enqueue while no
  dispatch is retried. In `notif_faults`, a dispatch that failed after enqueuing leaves no
  slot for the send job of the promotion: that history is cut there, with the promoted
  row in the hands of its promotion. (With a fifth slot the run has 6.2 million states
  and the same result, in twice the time.)
* `Attempts = 2`: a first attempt, a retry, and the end. The code has 5; more attempts
  repeat the step from the first to the second. Two transient answers dead-letter a job.
* `MaxFaults`, `MaxTransients` and `MaxChurn` bound, in this order: calls that throw,
  pushes that time out and crashes, together; transient answers; calls that change
  devices or subscriptions. One of each at any moment is the shortest disturbance of
  its kind, and may come between any two steps. Erasures count as changes of devices;
  opening a notification is not bounded and happens in every run.
* `Concurrency` is per kind of job. Two send jobs at once are enough to read one pending
  row twice; one dispatch job exists per event.
* The cache has no bound but its sets: calls and fills come and go for ever. Two
  processes contend for the lock; a third fill slot lets a fill start while the late
  release of another one is still pending. The fills are symmetric in the runs without
  liveness.
* The refresh queue also runs for ever. With `ClaimLimit = 1` a batch is full with one
  task, which is the case starvation needs; the match rises above the player in
  priority when it is live. One worker may stop for good, by a crash or by hanging.
* `ReadThrough` has windows of one tick (fresh) and two (expired) for the snapshot and
  none and one for the overlay, and answers that are stored up to one tick late, so
  that each may cross the other's boundary. Ages are counted up to caps beyond which no
  comparison changes. Three refreshes at once (of the process, the reader and the
  worker) give every order of the writes. The safety properties are proved for all
  windows and delays.
* `UpstreamCircuit` runs for ever. Its thresholds are 2 failures and 1 refusal (in the code
  3 and 2), the fewest with a failure that is counted and does not open the circuit. With
  one retry a call may open the circuit under itself. The proofs leave all of these free.
* `MobileSession`: two requests at once are one more than the phone has under way; three
  tokens hold the one stored, the one in flight and one that a caller has from before.
  One disturbance may be a lost answer, a refused write, an end of the app or a call of
  revoke. Two families hold that of the stored token and one other, live in its safety
  window. The run has 2.6 million states; two erasures without a disturbance were checked
  once.
* `FollowedTeams`: two toggles overlap; the third toggle is what comes after both; a
  limit of one team makes a list full, which is where a toggle changes nothing. Another
  phone's event and a load anew count as a toggle. The list may hold other teams before the
  first tap. States that differ only in what is persisted are one as soon as the app can
  start no more (the view of `MCFollowedTeams`; nothing else reads it).
* `DeviceRegistry` runs for ever: calls, failures and starts of the app are not counted.
  Two calls overlap; two tokens are one and its successor; a request that was given up
  and served late may meet one of the next call; two starts of the runtime are one more
  than its stop expects. Once `mixed` holds, the device ids and the rows that are not
  active are left out of the view (`MCDeviceRegistry`): no guard reads them, and no property
  but `ErasedIsGone`, which then says nothing. The proofs leave all of these free.

Two of these bounds were once too small, and the proofs showed it: one erasure in
`DeviceRegistry` and two teams in `FollowedTeams` hid histories in which an earlier form of
a property was false (see the comments below). Since then `DeviceRegistry` was checked once
with two erasures (and one start at a time), and `FollowedTeams` once with three teams and a
limit of two, and the theorems hold for all.

### Fairness

* Notifications: the API process goes on with a call it has begun, the listeners run,
  and the worker takes some step while one is possible (`\E j : Work(j)`: BullMQ may
  prefer any job). No fairness on failures or phones.
* Cache: replies and timers arrive, the producer returns or times out. Nothing gives
  back a lock or a Redis connection.
* Refresh queue: some worker keeps looping, and time passes for rows and leases. The
  other workers may stop anywhere.
* Read-through: time passes, every await of a refresh or a request ends, and somebody
  keeps asking for the match. Failures are bounded and not owed; a worker need not take
  a task.

Deadlock is not checked where the system comes to rest: in the notification runs (one
event) and in `follows` (bounded toggles).

### Properties worth a comment

* `AtMostOnePush`, `PendingIsCarried` and `FanoutCap` are stated for histories without
  failing calls or crashes. With them they are false, as they must be: a worker that
  ends between the multicast and its record pushes again. What survives failures is
  `SentMeansPushed`, `DeadIsDeadLettered` and, while the recipients stay the same,
  `DeferredHasPromoter`.
* `DeferredHasPromoter` is for histories in which the recipients stay the same or no call
  fails. With both a failure and an answer that invalidates a device it is false: the
  dispatch defers a row, fails, finds fewer recipients when it runs again, and enqueues
  no promotion. The run with one disturbance did not reach that; the proof did.
* `ProcessedAtRest` excepts rows of a phone that was `OpenedElsewhere`: opening a
  notification marks every row of the phone, also one that a send job has read and not
  marked yet; a backlog read then misses it, and a transient answer makes it pending
  again. It takes a phone with two rows, which `notif_clean` has since the proof showed it.
* `ProcessedAtRest` excludes events with promotions. A row promoted between the two
  backlog reads of another handler is seen by neither, and when its send job is then
  dead-lettered the event stays `processed`. The model has that race.
* `LockKept` says that only Redis takes a lock from its holder; it holds because the
  release compares the token, through takeovers and late finally clauses.
* `OutageHidden` looks at the whole call (`covered`): a copy that was in memory
  throughout is used, whatever Redis does.
* `LeaseHonoured` excepts rows whose lease lapsed in a worker's hands (`overrun`). Two
  workers then refresh one task, and the first to finish clears the lease of the second.
* `AskedIsServed` excepts tasks below enough tasks of higher priority to fill each
  batch. The exception is needed: the queue has no ageing and priorities never fall.
* `EndIsShown` needs that no entry of a failed refresh stays in the in-flight map, and
  that stale answers stored late run out.
* `OneLiveSession` and `MobileSession!InStep` are for histories without a loss, and
  without an erasure and a refresh at one time (`mixed`): a refresh that is answered
  after the erasure has cleared the identity stores a session of the old one. Both speak of
  `Lasting` sessions: in the last 30 seconds of a refresh token the phone leaves its
  family for a new one, and the server has two. That such a session is of an erased
  identity is excluded all the same.
* `ErasedIsGone` holds in every state, not only at rest, of rows and of the snapshot, since
  the next registration takes its device id from there.
* `AnswerIsComing` is the safety side of "every caller is answered": a flight that is
  over has let all its waiters go, and an awaited request is one the server still has.
* `KeptIsServed` (both ways) and `OffIsHonoured` are about rest, and about the current
  token: a row of an older one is found invalid by the first push. A registration that was
  under way during an erasure (`mixed`) may be served under the erased identity; the next
  erasure does not find that row and makes the app forget it, so it counts as `astray`.
  The invariant failed there, at a second erasure.
* `FollowedTeams!InStep` and `ShownIsKept` except what `spoiled` records: an event lost
  with the app or expired, one sent before an earlier one is through, and a storage that
  failed. What they leave in is overlap, the second run of a failed toggle, double
  drains and requests that were given up and recorded all the same. `InStep` also excepts
  a toggle that ran again and found the list full (`Unsent`): its team is in the list and
  the API was not told. It takes three teams, a limit of two and four toggles.

## 4. What is proved

| Theorem | For every | Statement |
|---|---|---|
| `NotificationPipeline_proofs!TypeCorrect` | devices, jobs, bounds | `Spec => []TypeOK` |
| `NotificationPipeline_proofs!SentIsTrue` | the same, with any number of failures and crashes | `Spec => []SentMeansPushed` |
| `NotificationPipeline_proofs!PushedAtMostOnce` | devices, jobs, batch sizes, changes | `Spec => []AtMostOnePush` |
| `NotificationPipeline_proofs!ContractKept` | the same | `Spec /\ []Undisturbed => ImplementsContract`: the pipeline implements `DeliveryContract` |
| `NotificationPipeline_proofs!DeadAreDeadLettered` | the same, with failures and crashes | `Spec => []DeadIsDeadLettered` |
| `NotificationPipeline_proofs!FanoutIsCapped` | devices, jobs, caps | `Spec => []FanoutCap` |
| `NotificationPipeline_proofs!DeferredIsPromoted` | the same, with failures and crashes | `Spec => []DeferredHasPromoter` |
| `NotificationPipeline_proofs!ProcessedIsFinal` | devices, jobs, bounds | `Spec => []ProcessedAtRest` |
| `NotificationPipeline_proofs!PendingAreCarried` | the same | `Spec => []PendingIsCarried` |
| `BffCache_proofs!TypeCorrect` | processes, calls, fills, faults | `Spec => []TypeOK` |
| `BffCache_proofs!OneFillPerProcess` | the same | `Spec => []SingleFlight` |
| `BffCache_proofs!LockIsKept` | the same | `Spec => []LockKept` |
| `BffCache_proofs!OutagesAreHidden` | the same | `Spec => []OutageHidden` |
| `RefreshQueue_proofs!LeaseIsHonoured` | tasks, workers, batch sizes | `Spec => []LeaseHonoured` |
| `RefreshQueue_proofs!QueueIsTyped` | the same | `Spec => []TypeOK`: a row is in line once |
| `RefreshQueue_proofs!BatchesAreCapped` | the same | `Spec => []BatchCap`: no worker holds more than `ClaimLimit` tasks |
| `ReadThrough_proofs!TypesAreKept` | processes, readers, workers, windows, delays | `Spec => []TypeOK` |
| `ReadThrough_proofs!FreshRepliesAreRecent` | the same | `Spec => []FreshIsRecent` |
| `ReadThrough_proofs!OverlaysAreRecent` | the same | `Spec => []OverlayIsRecent` |
| `UpstreamCircuit_proofs!TypeIsKept` | processes, calls, window, thresholds, retries | `Spec => []TypeOK` |
| `UpstreamCircuit_proofs!OpeningsEnd` | the same | `Spec => []OpeningIsBounded` |
| `UpstreamCircuit_proofs!OpenStopsCalls` | the same | `Spec => []OpenIsHeeded` |
| `MobileSession_proofs!FamilyHasOneLive` | tokens, families, requests, callers | `Spec => []AtMostOneLive` |
| `MobileSession_proofs!RevokedStaysRevoked` | the same | `Spec => RevocationIsFinal` |
| `MobileSession_proofs!SomebodyAnswers` | the same, with losses, failures and ends of the app | `Spec => []AnswerIsComing` |
| `MobileSession_proofs!SessionsAreTyped` | the same | `Spec => []TypeOK` |
| `MobileSession_proofs!PhoneHasOneSession` | the same | `Spec => []OneLiveSession` |
| `MobileSession_proofs!SessionsInStep` | the same | `Spec => []InStep` |
| `DeviceRegistry_proofs!TypeIsKept` | calls, tokens, erasures, late requests | `Spec => []TypeOK` |
| `DeviceRegistry_proofs!ErasedDevicesGone` | the same | `Spec => []ErasedIsGone` |
| `DeviceRegistry_proofs!KeptRegistrationIsServed` | the same | `Spec => []KeptIsServed` |
| `DeviceRegistry_proofs!SwitchedOffIsHonoured` | the same | `Spec => []OffIsHonoured` |
| `FollowedTeams_proofs!ServerCounts` | subjects, requests, any callers | `ServerSpec => []CountIsFollowers /\ []CountsAgree` |
| `FollowedTeams_proofs!AppIsTyped` | teams, toggles, drains, requests | `Spec => []TypeOK` |
| `FollowedTeams_proofs!AppIsACaller` | the same | `Spec => ServerSpec`: the app with the API implements the API |
| `FollowedTeams_proofs!FollowersAreCounted` | the same | `Spec => []CountIsFollowers /\ []CountsAgree` |
| `FollowedTeams_proofs!ShownIsWhatIsKept` | teams, limit, toggles, requests, failures | `Spec => []ShownIsKept` |
| `FollowedTeams_proofs!FollowsInStep` | teams, limit, toggles, drains, requests, failures | `Spec => []InStep` |

The type invariants of `BffCache` and `DeviceRegistry` are proved and not run.
The proofs assume the named assumptions on the constants in each module and nothing
else; TLC evaluates them in every run.

* `TypeInv == TypeOK /\ AttemptLeft /\ AnswersKnown`. `TypeOK` alone is not inductive:
  a job that throws counts an attempt, so a live job needs one left; a handler that
  marks a row writes the status of its answer, so it needs an answer.
* `SentInv == TypeInv /\ SentMeansPushed /\ AnswersTrue`. A row is marked from an answer
  the handler has held across steps of every other process, so that an `ok` must stay
  true while it is held. All actions but three are `Harmless`, a condition that is shown
  to preserve `SentInv` once.
* `PushInv == TypeInv /\ Shape /\ (Undisturbed => Exclusive)`. There is one dispatch job, and
  until something fails it is ahead of every other (`DispatchFirst`), hands out rows behind
  its cursor (`PagesBehind`) and no deferred one (`NotDeferred`), so that no row is in two
  payloads (`RowsDisjoint`); a send handler works on rows of its own payload (`RowsHeld`)
  and holds the exact number of pushes they had (`AnswersExact`); a pushed row is past
  pending or about to be marked (`PushedOnce`). Each step under it is a step or a stutter
  of `DeliveryContract`, which gives `ContractKept`.
* `CapInv`, `PromoterInv`, `StatusInv` and `CarryInv` share `RowInv`, which adds to
  `PushInv` which rows there can be before, between and after the two statements of the
  dispatch that create them. `CapInv` counts the devices that were pushed to, are pending or
  are in a payload. `PromoterInv` says that rows are deferred for want of room
  (`KeptInv`), and that a dispatch that deferred some has them in hand until it has added
  their promotion (`RestInv`). `StatusInv` says of each of the two backlog reads that what
  it found is still so when the status is written. `CarryInv` says that
  every due row is handed out, promoted or ahead of the dispatch (`DueCarried`), that
  the pages leave none out (`PagesCover`), and that a send handler does not end with
  one (`SendsFinish`). That a page takes the first rows after the cursor needs the least
  of a set of numbers, which comes from well-foundedness (`WFMin`), since the theorems of
  induction cannot be instantiated.
* `CacheInv == TypeOK /\ Owned /\ SingleFlight /\ LockKept`. A fill asks its owner's
  connection, so it needs an owner while in use; a new fill must not be one the map of
  another process knows.
* `OutageInv == CacheInv /\ Covering /\ JoinedHere /\ OutageBare`. A fill may fail after a
  call has joined it, so the invariant is about fills: one that returns the outage belongs
  to a process with no copy, and the calls that joined it are of that process.
* `LeaseInv == LeaseType /\ JobClaimed /\ LeaseHonoured`. A completion clears the lease
  whoever holds it; because the worker has the task in its batch, the lease is its own
  or the task is overrun. `TypeOK` adds what the queue is made of (`RestType`): a row
  that is put in line is taken out of it first. `BatchCap` follows because a claim ranks its
  candidates and no two have one rank.
* `Typed /\ Soon` of `ReadThrough`. The age of a row is not the time since it was
  stored, since older answers replace newer ones; but nobody stores an answer older than
  `MaxLag`, and from then on the two grow together. `Soon` says so of rows, refreshes and
  payloads in the hands of requests.
* `Inv == TypeOK /\ AllSound /\ OpenIsHeeded` of `UpstreamCircuit`. Wherever a state is,
  in a process, in Redis, on its way or read, it is open for no longer than is left of
  the window since the last failure; adoption copies and only time shortens.
* `SessionInv == Typed /\ Presented /\ Rotating /\ Exclusive /\ AtMostOneLive`. The row a
  rotation is about to replace must still be the live one when it commits, which the
  row lock guarantees, and no two transactions hold one row.
* `AwaitInv == SessionInv /\ CallInvs`. That somebody answers a caller depends on which
  request answers whom: no two wait for one answer (`Apart`), a slot is free when its
  request is over (`Routes`), and identities are counted by erasures (`Counted`).
* `AgreeInv == AwaitInv /\ (Undisturbed => Agreed)`. `Located` says, for every step of the
  refresh and the erasure under way, which row may be live and where its token is: with the
  phone, with the server, or in the answer between them; every other live one is in its
  safety window, and of the same identity. Both `OneLiveSession` and `InStep` are its end
  points.
* `Inv == ServerTypeOK /\ AllKnow /\ CountIsFollowers /\ CountsAgree` of the follow
  counters. A transaction holds the row as it found it, if there was one. The app's
  counters then follow from `AppIsACaller`, with no invariant about the app but its types.
* `EraseInv == TypeInv /\ Empty /\ OfIdentity` of `DeviceRegistry`. `ErasedIsGone` speaks of
  rows and of the snapshot; a registration under way could bring back an erased identity,
  so what a call has read and what is on the wire must be of the identity the app has, by
  session and by device id, and while the app clears itself there must be no row at all
  and no registration under way.
* `SightInv == EraseInv /\ Conduct /\ BySelf /\ Steady /\ InSight`. What is served is kept, or
  a call is about to keep it; what is kept is served, or is about to be cleared
  (`InSight`). This holds as long as calls want what the user wants and no request is
  abroad (`Steady`), and holds again once a call has had the app and the API for itself
  (`BySelf`).
* `ListInv == TypeOK /\ InTurn /\ LastIsKept /\ ShownIsKept` of `FollowedTeams`. At rest
  AsyncStorage has what it was asked to keep last, so the invariant is about the queue of
  its answers. What is persisted appears in no conjunct: a start either shows `Kept` or is
  `outdated`.
* `StepInv == ListInv /\ Told`. List and API need not agree at any moment under way; `Told`
  says that there is one value `told` that the list has told last and that the API will
  have learned when what is under way is through.

Every safety invariant and action property that a run checks is a theorem. Only
model-checked are the four liveness properties (`AlertReaches`, `CallAnswered`,
`AskedIsServed`, `EndIsShown`): the prover has neither ENABLED nor fairness.

## 5. Not modelled

* The budget of requests per minute (`UpstreamCircuit` lets it refuse at any time).
* The ids of the jobs (`lib/notifications/queue.ts:99`): some versions of BullMQ refuse a custom
  id that contains a colon. In the model an id only keeps a job from being added twice.
* A database that cannot be opened at the start, which turns local-first off for the
  session (`QueryProvider.tsx:178`): lists then live in AsyncStorage alone, events that fail
  are dropped.
* Of the push registration, what section 2 leaves out. The pipeline takes registrations
  and revocations in any order, with no account of who sent them.
* The app's copies of server answers (`localFirstAdapter`, `queryCacheSyncMiddleware`,
  background refresh): they can be stale, which `ReadThrough` already allows, and hold
  no state of their own.
* The backfill of cold snapshots, section snapshots, bootstrap and hotset warm-ups:
  `readThroughSnapshot` and `RefreshQueue` again, with other payloads.
* Runtime status, server and routes, mappers, screens, the web, desktop and static
  sites, generated contracts: without concurrent state of their own. They are most of
  the repository's lines. Attestation: an outside verdict.

## 6. Plan

Built, in this order: `NotificationPipeline` (with `DeliveryContract`), `BffCache`,
`RefreshQueue`, `MobileSession`, `UpstreamCircuit`, `FollowsDiscovery` with
`FollowedTeams`, `ReadThrough`, `DeviceRegistry`. Next:

1. Proofs of the safety half of the liveness properties: that in every state where an
   obligation is open, an action that serves it is possible.
2. `UpstreamQuota`: the budget of the minute over several processes and Redis.
3. `primeCacheValue` in `BffCache`, which takes the reads of a fill apart.
