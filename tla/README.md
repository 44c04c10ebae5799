# TLA+ models of the turbo monorepo backend

This directory holds TLA+ specifications of the backend's core: how an event
leaves a database transaction, how it is queued, fanned out and consumed; how
sagas commit or compensate; how cached reads keep up with commits; and how
sessions, accounts, profiles, uploads and notifications survive requests and
jobs that overlap, repeat and fail. TLC model-checks them on small instances
and TLAPS proves, for every value of the constants, their safety properties and
that the outbox, the queues and the sagas implement three abstract promises.
`PROJECT.json` indexes everything: which definition models which lines, which
run checks which property, which mutation of the code each property catches,
and the hazards the properties are aimed at.

- Model-check: `tlc -config <run>.cfg MC<Module>.tla` (table of runs below).
- Prove: `tlapm <Module>Proofs.tla` (Outbox, JobProcessor, Consumers,
  VersionedCache, Saga, AuthSessions, Accounts, Uploads).

## 1. Inventory

The system is a NestJS monorepo: an API process and worker processes share
Postgres (Prisma) and Redis (BullMQ queues, cache, pub/sub). Any number of
instances of each may run. The concurrency is between asynchronous steps of
different requests, jobs and processes; every `await` on Redis or Postgres is a
point where others run, where the call may fail with or without effect, and
where the process may die.

```
 use case ──tx──▶ outbox_events ──drain──▶ DOMAIN_EVENTS ──dispatch──▶ module queues ──▶ handlers
                  (Outbox)                 (JobProcessor)  (EventMesh)  (JobProcessor)
 use case ──commit──▶ database entity ◀──fill── cache ◀── reads        (VersionedCache)
 steps    ──one tx──▶ saga_states ◀── compensation, retention           (Saga)
 sign-in, refresh, logout ──▶ user_sessions, blacklist                  (AuthSessions)
 POST /claim ──interceptor──▶ users, tokens ──job──▶ member profiles    (HttpIdempotency, Accounts)
 event ──job──▶ email, in-app, sms, whatsapp, push, one by one          (Notifications)
 client ──▶ upload intents ──▶ file records ──job──▶ scan               (Uploads)
```

| Component | State | Operations | Hard behaviour | Correct when |
|---|---|---|---|---|
| Transactional outbox (`server/events/src/services`, `persistence/outbox`) | rows of `outbox_events` (status, attempts, next retry, timestamps); claimed batches in worker memory; job ids retained by BullMQ | publish (4 ways), claim, enqueue, mark, reschedule, dead-letter, reap, prune | several drains at once; crash with claimed rows; replies lost; a reaper that undercuts a slow worker; decisions on stale copies | no event lost or given up early; claims exclusive; settled rows stay settled; everything settles |
| Queue job processing (`server/infrastructure/queue/src/base`, `idempotency-key` adapter) | BullMQ job, attempts, lock, stall count; idempotency key row | begin / reclaim key, handle, complete / fail key, report | redelivery beside a stale run; key of a dead run; fail-open on repository errors; trimmed job ids | handled once unless disturbed; keys tell the truth; jobs end |
| Event routing and dispatch (`server/events/src/mesh`, `dispatch`) | subscriptions, routing table, jobs in the module queues | compile, resolve, fan out | some adds fail and the whole fan-out is repeated; two notions of "subscribes" | every queue of the route gets the event, once |
| Versioned cache (`server/cache`, permission resolver) | version key per prefix, entries, in-flight promises | getOrSetEntity, deleteEntity, bump | fills racing invalidations; shared promises; invalidation cut short | nothing older than an invalidation is served after it |
| Sagas (`server/events/src/sagas`) | `saga_states` row, executed steps in memory | execute, compensate, recover, clean up | the row is saved through the transaction and through a connection of its own; commit fails after compensation; retries of one saga | only outcomes are visible; what commits is whole; what returns is settled; every execution ends |
| HTTP idempotency interceptor (`server/idempotency`) | idempotency key row | find, begin, replay, complete, fail | concurrent requests under one key; completion fails after the handler; crash with the key held | one run per key unless a run failed; replies are those of effects |
| Auth sessions and tokens (`modules/auth`) | session row per user and device, blacklist, claim tokens | login, refresh, logout, erase, register, verify, claim | refresh racing logout and sign-in; token and user checked outside their transaction | logged out and rotated stay so; sessions end by their own requests; a token works once |
| Profiles and onboarding (`modules/profiles`) | member profile, metadata bag | create guest, link, ensure, onboard | three ways to come to a profile, in any order; jobs skipped, failed, added again; spellings of the address | a user comes to a profile and a claim is announced, unless its job is lost or spellings clash |
| File uploads (`modules/files`) | intents, records, objects, jobs | create, put, complete, expire, scan | separate commits against each other and the sweep; a scan job with one attempt | a returned file stays the file; a record is processed, or its request or its job failed |
| Identity (`modules/identity`) | roles, permissions, assignments | assign, revoke, edit | cached lookups behind them, changes that invalidate nothing | stale permissions end |
| Realtime SSE hub | streams per user | open, close, push | best effort in one process | not modelled |
| Rate limiting | sorted set per key | one Lua script | atomic by construction | not modelled |
| Notifications (`modules/notifications`, `persistence/notifications`) | preference and override rows; notification, delivery and in-app rows | dispatch, set a preference, override ends | a channel fails amid the others; redelivery after partial success; settings change between reads; crash between record and message | channels answer for themselves; no repeats by failure; off means off; what left is on record |
| Queue registry and schedulers, audit, adapters, front ends | little or none | | | not modelled, see section 8 |

## 2. Plan

In order of importance; each line is a module with its runs and theorems.

1. `EventDelivery` (abstract), `Outbox`: done.
2. `TaskQueue` (abstract), `JobProcessor`: done.
3. `EventRouting`, `EventMesh` (composes routing with a JobProcessor): done.
4. `VersionedCache`: done for the options the callers use.
5. `AtomicSaga` (abstract), `Saga`: done.
6. `HttpIdempotency`, composed by `Accounts` with the claim endpoint and the
   profile handlers: done.
7. `AuthSessions`: done.
8. `Uploads`: done.
9. `Notifications` (a second handler for JobProcessor): done.
10. Left: the tokens of verification mails; the onboarding stamp; a second
   `JobProcessor` under `EventMesh`'s module queues; the inbox of in-app
   notifications.

Every safety property the passing runs check is proved. Further theorems worth
proving: an abstract "one run per key" that `HttpIdempotency` implements, and the
safety halves of `EventuallySettled` and `StalenessEnds` for what the clock can
still move.

## 3. Modules

### EventDelivery
The abstract promise of the outbox: an accepted event is owed until it has been
handed to the domain queue or buried in the dead-letter queue. Handing over may
repeat, a settled event may be reopened: at-least-once, no more.

### Outbox
One row per event. `Publish` commits a set of PENDING rows (the three
transactional publishers), `PublishDirect` bypasses the table. A drain worker
goes `StartDrain` → `Claim` (a batch, SKIP LOCKED, oldest first) → per event
`Enqueue` → `MarkProcessed`, or the failure path `Reschedule` / `DeadLetter` →
`Bury` → `BatchSettled`. Each asynchronous step has a `...Fails` twin: the
error reaches the code, the effect may or may not have been applied. `Crash`
ends a worker anywhere. `Reap` and `Prune` are the two sweeps.
`attempts` lives in the row while the decision uses the worker's copy (`seen`),
as `handleFailure` does. Time is two facts the clock can make true at any
moment: `due` (backoff over) and `aged` (a sweep's threshold passed), so a slow
worker can be reaped alive.

### TaskQueue
The abstract promise of a queue with idempotency keys, to whoever submits a task:
the work is done at most once however often the task is submitted (`Work` needs it
undone), `Complete` needs it done, `GoWrong` uses up one of `Attempts` tries.
`Disturb` gives up all promises to the tasks of a process that crashed, failed a
call or stalled. A task is what `JobProcessor` calls `TaskOf(e)`: the verdict on
the job, the tries that went wrong, and whether the handler has returned.

### JobProcessor
BullMQ's side: `Add` (a job id is not added twice while retained), `Take`,
`Stalled` and `SlowRunStalls` (redelivery up to `MaxStalledCount`),
`ReportDone`/`ReportThrew` (only the lock holder). The processor's side is one
action per call: `FindKey`, `CreateKey` (unique violation swallowed),
`ReclaimKey`, `BeginFails` (fail open), `HandlerReturns`/`HandlerThrows`,
`CompleteKey`, `FailKey` and their failures. It stands for DOMAIN_EVENTS and for
every queue built by `createDomainEventConsumer`.

### EventRouting and EventMesh
`EventRouting` translates the routing compiler (`Tables`: the table after each
subscription, a recursive function; `Compile`: the last of them; `IsTableOf`: what
a table should be, without an order), the lookup of `DispatchEngine.computeRoute`
and the registry's own matcher. Event names are
sequences of segments; `LooselyCovers` keeps the registry's habit of cutting
the dot as well (`a.b.*` also matches `a.bc`), with `Stems` saying which
segments continue others. `PlainCatalog` says that this habit does not matter for
a catalog: no event of it has a subscriber in the eyes of the registry alone, and
no subscription is without a queue.
`EventMesh` opens the handler of a `JobProcessor` up: `AddTo` / `AddToFails`
per queue of the route, in any order (two nested `allSettled`), then
`FanOutReturns` or `FanOutThrows`. It EXTENDS `JobProcessor` and replaces only
its `Handle`. `MeshInit` ranges over all sets of subscriptions that pass the
coverage check and over all registration orders.

### VersionedCache
A writer commits, lists and deletes keys, bumps the version; `Abandon` cuts that
short (Redis error or crash). `Drift` is a change that nothing invalidates: an
assignment that expires, a permission that is switched on or off. A reader gets
the version, builds its key, joins an in-flight promise of its instance or leads
one, looks up, computes from the database, writes back; a bypass skips the
lookup and the promise. The value of an entity is its number of changes, so
"older" is `<`. `bumps` records the database at every bump.

### AtomicSaga
The abstract promise of a saga, without transactions, locks or timers: an
execution does steps while its fate is open, commits with all of them and the
record says COMPLETED, or fails; steps are compensated only once the fate is
sealed; what returns has committed or has nothing left uncompensated. In `Saga` a
fate is the state of the transaction (`FateOf`), the steps done are those run and
never compensated (`DoneBy`), the record is the committed row.

### Saga
One pair (saga type, correlation id). An execution is a record: its place, the
handler an exception meets next (`level`: inner try, inner catch, outer), the
state of its transaction and the row it has drafted in it, and how often each
compensation was called. `SaveTx` writes the draft and takes the row lock,
`SaveLifecycle` writes the committed row and waits for the lock, also for the
caller's own; `Throw` is where an exception goes from there. `Expire` is Prisma's
transaction timer. `SweepFind` … `SweepClose` are `compensateByCorrelationId`,
`Cleanup` is the retention sweep. Steps are interchangeable, so a saga is its
number of steps; a step may or may not use the database.

### AuthSessions
The sessions of one user. A request is named by the token pair it mints; its
record holds its place, its device and the pair it came with. Sign-in, refresh
and logout pass their guard in one action (`SignIn`, `Refresh`, `Logout`) and
write later: `Revoke`, `FindByDevice`, then `Update` or `Create`, `Announce`,
`Blacklist`. `Erase` is the erasure handler, `AccessExpires`, `RefreshExpires`
and `Evict` are time. Nothing in the program changes a user's status or deletes
a session row, so neither does the model.

### HttpIdempotency and Accounts
`HttpIdempotency` is the interceptor: one action per call on the key's row, the
body of a request standing for its hash, the response for the request it
answers. It leaves the handler open. `Accounts` supplies it: the claim use case
(`FindToken`, `FindUser`, `CommitClaim`, `IssueSession`) on users, claim tokens
and profiles, beside registration, verification, guest profiles, and the jobs
for USER_REGISTERED and ACCOUNT_CLAIMED. Users and profiles are named by the
spelling of their address; profiles are looked up in lower case. A check that
only refuses early what a unique key refuses later is part of the write
(registration, guest profiles). The key's day of life ends only when no request
is in flight.

The jobs are those of PROFILES_EVENTS, a queue with idempotency keys, one job per
event. `BeginJob` asks the key: a finished event is done, one whose key says that
it is being handled is *skipped*, which BullMQ counts as completed, and otherwise
the handler runs, one action per call. `CompleteJob` and `Thrown` are its ends:
a call that a unique key refuses (`Conflict`) or that fails (`JobCallFails`)
takes one of `Attempts`, and the last one fails the job for good. `WorkerDies`
leaves the key in progress and the job redelivered, `MaxStalledCount` times, to be
skipped unless `JobKeyExpires` comes first; `LateCallFails` is the run that
lost its lock and fails after its job was skipped beside it; `JobKeyFails` is the
fail-open of `begin` and `complete`; `AddAgain` is a fan-out repeated after the
finished job was trimmed. The calls around a handler are one step with it and no
job is handled twice at once: `JobProcessor` has both one by one.

### Uploads
Intents and the records they become. `CompleteUploadUseCase` is a chain of
single calls (`FindUpload`, `ObjectExists`, `CreateRecord`, `MarkConsumed`,
`Publish`, `Enqueue`), `Fail` ends it anywhere; `SweepFind` and `SweepExpire` are
the nightly sweep, which writes what it read before. A record is named by the
request that created it. The scan is a job with one attempt, since it is
enqueued without options on a queue that has none either: `Scan` clears the file,
`ScanFails` fails the job for good, `ScanDies` has it redelivered once (BullMQ's
default) and then failed. `Fail` of the enqueue may leave the job added.

### Notifications
The handler of a `JobProcessor` again, this time `NotificationDispatchService`.
One recipient and one category, since others share no state. A run walks the
event's channels in the order of the code (`Turn`); within one it makes the
calls `gate` (override), `preference`, `devices` (push only), `note`, `trail`
(delivery or in-app row) and `send`, each an action. `Entry` and `Reachable` are
the conditions that skip the gate or the channel. `ChannelFails` is `isolate()`:
a call throws, with or without its effect, and the next channel begins.
`SendSwallowed` is an error the sms, WhatsApp and push providers, or the catch
behind the in-app publish, keep to themselves, so that `dispatch` goes on as
after a success. A push channel repeats the calls per device. `SetPreference` and
`OverrideExpires` change the settings at any time. `CrashDispatching` loses the
run, the call under way may still take effect. `on`, `off`, `failed` and
`intruded` are history for the properties.

## 4. Runs

| Run | Question | Instance |
|---|---|---|
| `outbox` | loss, retry budget, duplicates, exclusive claims, stranding, reopening, settling, refinement of EventDelivery | 1 event, 2 workers, 2 attempts, 2 crashes, 2 failed calls |
| `jobs` | keys, duplicates, verdicts, finality, every job is reported, refinement of TaskQueue | 1 event added twice, 3 runners, 3 attempts, 1 crash, 2 failed calls, 1 premature stall |
| `jobs_stuck_key` | violation: a dead run's key | 1 event, 2 runners, 1 crash |
| `event_mesh` | table, silent drops, partial fan-out, duplicates | 1 event added twice, 2 runners, 3 queues, 1 refused add, 1 crash, 1 failed call, 1 stall |
| `mesh_audit_gap` | violation: the audit's wildcard | the worker's four subscriptions, 1 runner |
| `cache` | fills against invalidations, end of staleness | 1 entity, 2 readers, 2 writers, 2 changes |
| `cache_first_bump` | violation: the first bump | 1 entity, 2 readers, 1 writer, 1 change |
| `saga` | wholeness, compensation, the wait for its own lock, refinement of AtomicSaga (and with it what readers see) | 2 executions of 2 steps, background compensation, retention, 1 failed call, 1 crash |
| `sessions` | rotation, logout, sessions of other devices | 4 requests, 2 devices, 1 failed call, 1 erasure |
| `accounts` | one run per key, replies, announced claims, a profile for every member | 2 registrations or requests in all, 2 bodies, 1 token, 2 spellings, 2 attempts, 1 redelivery after a stall, 2 failed calls, crashes, dead workers or repeated fan-outs |
| `uploads` | the returned file, processing of records | 2 intents, 2 requests, 2 failed calls, crashes or dead workers |
| `notifications` | isolation of channels, repeats, settings, records | 1 event added once, 4 inputs, 2 runners, 2 attempts, 2 devices, 2 changes of a preference, 1 failed call of a channel, 1 crash, 1 stall; no failing key |

Why the bounds are enough to be interesting. An event's steps interact only
through its own row, key and job, so one event shows every interleaving of a
row's life; batches of several, which only share a worker's loop, are left to the
theorems about any `Events` and `BatchSize`.
Three runners allow a stale one, its replacement and a bystander. Two
attempts make the first failure retry and the second give up; three attempts
in `jobs` put a retry between two others. Two failed calls let an
ambiguous reply meet a second fault on the recovery path. Adding an event twice is the
re-enqueue after an ambiguous outbox reply. Two changes give one bump that
creates the version key and one that does not; two readers are a fill and the
read that must not see it. Two steps tell "every executed step" from "the last
one", two executions meet on the row, and a failed call beside the timer reaches
the second compensation. Four requests are two sign-ins that leave pairs, and
two that use them at once; on two devices, because a refresh may name another
device than its token's. Two spellings are the lower case and another;
`MaxCalls` lets two registrations, two claims or one of each meet, while three
of them are left to the theorems. Two attempts (three in the code) leave one for
a conflict and one for what follows it, and two faults let a job stall once too
often, or be added again after it was skipped. Two requests complete one upload at once, or two. Two devices show what a failure for
the first does to the second; three channels have one before and one behind the
failing one; two changes switch a channel off and on again within a dispatch.
Everything a bound excludes is
included in the theorems, which do not fix the constants.

Deadlock is checked in the outbox run (the sweeps, polls and clock never
stop). The other runs set `CHECK_DEADLOCK FALSE`: once the bounded adds,
requests or changes are used up and everything has been answered the instance
rightly stops.

## 5. Fairness

Only what the scheduling of the code gives.

- Outbox: weak fairness of a worker's own steps (an `await` comes back),
  of `StartDrain` (the 15 s poll, `OutboxSchedulerService`) and of the clock.
  Strong fairness of `Reap`: its job is enqueued every five minutes and waits
  in the same FIFO queue as the drain jobs, and a worker is idle again and again
  but not for ever. Crashes and faults are never fair and are bounded.
- JobProcessor: weak fairness of a run's steps (handlers return or throw), of
  BullMQ's repeated stalled check and of the TTL clock; strong fairness of
  `Take`, because slots are free again and again and the queue is FIFO.
- VersionedCache: weak fairness of each read's steps and of Redis's expiry,
  which every entry is written with. Writers need none.
- Saga: weak fairness of an execution's steps, each of which returns or throws,
  and of `Expire`: Prisma's timer closes a transaction that stays open, which is
  what ends the wait of a compensation for its own row lock.
- Uploads: weak fairness of a request's steps, and of the scan of a job that
  waits or was redelivered: a worker takes it. Failures are never fair. The sweep
  and the client need none.
- AuthSessions, Accounts and Notifications state safety only and assume none; that
  a notification's job ends is `EventuallyReported` of JobProcessor.

## 6. What is proved

Every invariant and every action property of the passing runs, and the three
refinements, are theorems. They hold for any constants that satisfy the named
assumptions: finite `Events` and `Subscriptions`, names that are sequences of
strings, positive limits, a `NoRunner`/`NoReader`/`Nobody` outside the real ones,
and `HostOf` a function, any number of steps, requests, devices, spellings and
intents. One theorem, `NoEventIsDropped`, has a hypothesis about the catalog as
well, explained below. Every module's type invariant is proved, as the theorem
`TypeCorrect` or within the inductive invariant.

- **OutboxProofs.** `NothingLost`, `BudgetUsedUp`: neither follows from itself,
  because a worker acts on what it remembers. `AccountInv` adds what a task
  implies: whoever is about to mark has handed over (`StepsKnow`), whoever is
  about to give up has seen a spent budget. `ClaimsAreExclusive`: `ClaimInv` says only workers
  in a batch hold anything, a claimable row is held by nobody, and a held row is
  held once unless contested. `BudgetKept` adds `BudgetLeft` (the copy equals
  the row while the holder is sole). `NothingStranded`, `HandedOnce`
  (`OnceInv`) and `SettledStays` build on them. `OutboxKeepsPromise` is the
  refinement: `InitRefines` and `StepRefines` map every action to a step of
  `EventDelivery` or a stutter; `PromiseForgetsNothing` is what the abstract
  promise gives.
- **JobProcessorProofs.** `KeysTellTheTruth` needs that a run about to write
  COMPLETED has handled (`HandledInv`). `CompletedIsFinal` is an action property.
  `DuplicatesAreSkipped` and `VerdictsAreTrue` rest on `CalmInv`: as long as
  nothing failed, one run holds the lock (`OneRun`), the key mirrors its step
  (`RunFacts`) and, between runs, the job's history (`RestFacts`).
  `TheQueueRunsTasks` is the refinement of `TaskQueue`: by `TaskStep` a step
  moves the task of one event (`OneTaskMoves`), upsets some (`UpsetTask`) or none
  (`TaskKept`), and `CalmInv` gives the guards of the abstract step, for
  example that work reported done was done. `TaskVerdicts` is proved of `TaskQueue`.
  `NoJobIsStuck` is the safety half of `EventuallyReported`: an active job has lost
  its lock, or the holder is on a run that will report (`HolderRuns`).
- **ConsumersProofs**, for both handlers. `MeshIsAJobProcessor`: `MeshSpec => Spec`, so every
  theorem above carries over, `FanOutsAreTasks` among them. `OneJobAtATime` (`SinkInv`), `NoPartialFanOut`
  (`FanInv`: what a run has settled without refusal was given, and a run past
  its handler, or a COMPLETED key, means the whole route was), `OneJobEach`
  (`EvenInv` over `CalmInv`).
  `TheTableIsDeclared` and `NoEventIsDropped` are about the routing itself.
  A table built by a loop asks for induction over the subscriptions; the library's
  induction theorem cannot be instantiated, so `NatInductionBySet` takes the least
  length at which the claim fails (`LeastNat`) and derives a contradiction with
  `AddDeclares`, which says what one more subscription does to a declared table;
  `TablesStep` shows by the same means that the recursion is well defined.
  `OrdersList` says that an order of registration lists the set that is
  registered. A dispatched event then finds its queue by `CoveredIsRouted`, which
  needs the longest of the prefixes that cover it (`LongestCover`).
  `NoEventIsDropped` assumes `PlainCatalog`: without it the coverage check of the
  bootstrap may accept `a.b.*` as the subscriber of `a.bc`, which the dispatch then
  finds no route for. It is a fact about names and not about code, so it is stated
  as a hypothesis; `MCEventMesh` assumes it of the catalogs of both runs, the
  worker's own subscriptions included, and TLC confirms it.
  `NoticesAreAJobProcessor` and `NoticesAreTasks` are the same for notifications. `PlaceInv` says where a
  dispatch may be: only a handling run is inside one, on a channel its event names. `OffIsRespected` adds `MoodInv`: a run that has passed the
  gate has found the channel on. `ChannelsAnswerForThemselves` adds `AnswerInv`: a
  channel that is neither at hand nor ahead has answered, answers are never taken
  back, so a run past its handler, or a COMPLETED key, means all have.
  `OneNoticeEach` adds `FreshInv` over `CalmInv`: what lies ahead of an undisturbed
  dispatch has not been written, because nobody has dispatched the event before.
  `EveryMessageHasItsRows` compares what several runs wrote, so `RecordInv` is an
  account: the delivery rows of an address, and the runs about to write one, are
  no more than its notifications, and likewise the messages and the runs about to
  send against the delivery rows. `CountChanges` says what one run's step does to
  the number of runs that wait.
- **VersionedCacheProofs.** `NothingBehindABump`: a key of version n ≥ 2 is
  built after bump n and filled from a later database (`StoreFacts`); a read
  that began after bump m builds a key of some n ≥ m, and later bumps saw later
  databases (`BumpFacts`), so whatever it finds, computes or receives from a
  joined promise is new enough (`ReadFacts`).

- **SagaProofs.** Everything follows from what an execution's place says about
  its transaction: an open one was drafted by its own saves with exactly the
  steps it ran, `commit` with an open transaction means all steps ran and none is
  compensated, and `level` bounds the compensations that lie behind
  (`CompensatedAtMostTwice`: at most one call per step inside the callback, one
  more in the outer handler). `SagasAreAtomic` is the refinement of `AtomicSaga`:
  `RunRefines`, `EndRefines` and `OutsideRefines` map the steps of an execution,
  its ends and the steps from outside; the invariant supplies that an open
  transaction about to commit has all steps done and none compensated, and that
  COMPENSATED is saved with nothing left. `CompletedTheorem` is proved of
  `AtomicSaga` and comes down through the refinement: a row that says COMPLETED has
  a committed execution. `OutcomesTheorem` (`OnlyOutcomesVisible`) says what the
  refinement says of the record, as an invariant. `WaitsTheorem` is the safety half
  of `EventuallyAnswered`: the lock a compensation waits for belongs to a
  transaction that the timer will close.
- **AuthSessionsProofs.** `RowsAreOwn`: a row carries the pair of a request that
  wrote it for that device. `LogoutInv`: a logout past its revocation has left
  no valid row with its pair, because a pair is written once, before anyone
  holds it. `AccessInv`: an entry is evicted only after the token's expiry.
- **AccountsProofs.** `KeyInv`: a key is taken over only from a run that is
  broken. `ClaimInv`: whatever says it is done (a replayed response, an accepted
  token, a queued job) rests on a committed claim. `LinkedInv` and
  `ProfileInv` follow the jobs: at each place either the profile is linked, or the
  step ahead will link it, or another spelling has a user; a job that is done has
  done its part. What is hard is the job that fails for good without a lost call to
  blame. `CountInv` counts its attempts: those that failed calls did not take met a
  conflict. `ConflictInv` says what a conflict leaves behind: something other
  than the user itself had come to the profile, and the next attempt finds it
  (`GapMoves`), so that without a clash of spellings (`Settled`, `Unfindable`) a
  job meets one conflict at most. `LinkedTheorem` and `ProfileTheorem` follow
  for any number of attempts, stalls and faults.
- **UploadsProofs.** `RecordsInv`: the unique key gives an upload one record, so
  only the request that created it can consume the upload; `UploadsInv` says the
  same of what the row names. `PendingTheorem` is the safety half of
  `RecordedIsProcessed`: by what a request leaves behind at each place (`TraceInv`)
  a pending scan is in the hands of its request, or that request failed, or the file
  is announced and its job can still be taken, or has failed.

Only model-checked: liveness (`EventuallySettled`, `EventuallyReported`,
`StalenessEnds`, `EventuallyAnswered`, `RecordedIsProcessed`), since fairness is
out of the prover's reach, and the counterexamples of the three runs that end in
a violation.

## 7. Findings

Three runs end in a violation, each of a sentence the repository says about
itself.

- `jobs_stuck_key`. A worker dies after creating its key. The redelivered job
  finds IN_PROGRESS within its 24 h TTL, is skipped as a duplicate and
  *completes*; nothing is left to reclaim the key after the TTL, which the
  comment in `prisma-idempotency-key.adapter.ts:52-54` relies on. That consumer
  drops the event.
- `mesh_audit_gap`. `computeRoute` returns the exact route alone, so an event
  with an exact subscription never reaches the audit's `workspace.*`. The audit
  handler says it "REACTS to every event in the catalog". The comment on the
  subscription says both that and "the catch-all for every event type without an
  exact subscription of its own", which is what happens.
- `cache_first_bump`. A missing version key reads as 1 and its first INCR gives
  1, so the first bump of a prefix "invalidating all versioned keys under it"
  changes no key: a fill that was under way outlives the invalidation until its
  TTL. From the second bump on the promise holds, which is what
  `LaterBumpsInvalidate` checks and `NothingBehindABump` proves.

Weaker guarantees follow from the code and are stated as such, not as
findings:

- After a premature reap a stale worker may turn PROCESSED back to FAILED
  (`SettledStaysSettled` excludes held rows; `EventuallySettled` says it ends).
- A commit whose invalidation is cut short, an assignment that expires and a
  permission that is switched off are served stale until the TTL
  (`StalenessEnds`). Resolution does not read a role's own `isActive` at all, and
  a revoked assignment stays in the table, so the role cannot be assigned again.
- A saga that fails compensates its steps twice, in the callback and in the outer
  handler, and in between waits for its own transaction to time out
  (`CompensatedAtMostTwice`, `EventuallyAnswered`). Background compensation
  overwrites a COMPLETED row. The timeout sweep asks for sagas of type `''` and
  finds none; `OnlyOutcomesVisible`, proved, shows that no query for IN_PROGRESS would.
- Two requests with one key and different bodies that both pass the comparison:
  one runs, the other is answered with the first one's response or with nothing
  (`RunsAgainOnlyAfterFailure` holds all the same). A completion that fails after
  the handler turns the key FAILED, and the next request runs again.
- Profiles keep the spelling of the address but are looked up in lower case: when
  two spellings have users, one takes over the other's profile (`Clash`).
- A user who registered and never verified blocks the claim of that address.
- A profile job whose worker died is skipped for the key of the dead run, and one
  whose calls failed on all attempts is given up: the user stays without a profile,
  or the claim without PROFILE_LINKED (`Lost`). Nothing else looks for such users.
- A guest profile in a mixed spelling is not found by the lookup in lower case and
  refuses a new profile: unless another profile is found in lower case, the job of a
  registration in that spelling fails on every attempt (`Unfindable`).
- An upload whose request dies after recording or consuming is not announced or
  scanned by anybody, and a scan that fails once leaves the file PENDING for good
  although its request returned (`RecordedIsProcessed` excepts both).
- Errors of the sms, WhatsApp and push providers and of the in-app publish are
  swallowed, and nothing calls `markSent` or `markFailed`: a delivery row stays
  PENDING whatever became of the message. A record that cannot be written for one
  device silences the devices after it (`EveryChannelAnswers` counts the channel
  as failed). After a crash or a stall the redelivered job notifies again
  (`OneNoticeUndisturbed` excepts it).

## 8. Not modelled, and why

- The inbox of in-app notifications (read and archive flags of single rows,
  filtered by owner), the registration of push devices, templates, and what the
  mail, sms, WhatsApp and push providers do behind their ports.
- The SSE hub: entries of a map in a single-threaded process, best effort by
  design. Rate limiting: one Lua script makes a check atomic.
- Identity: an assignment is a single row under a unique key; API clients and keys
  are plain CRUD. The cache behind the lookups is `VersionedCache`.
- The tokens of verification mails and their resending, account preferences, the
  onboarding stamp in the metadata bag (a lost update of one JSON field),
  consents, ownership checks and the limits per upload purpose.
- A saga without a metrics port, whose callbacks run the steps: every process
  gets the port from `ObservabilityModule`.
- The cache's `lock` and `staleTtl` options and its list operations: no caller
  in the repository uses them. Loss of the version key in Redis is not modelled.
- Queue partitioning: a partition is a queue, a hash picks it. Schedulers are
  idempotent upserts at start-up.
- Payloads, wording, logs, metrics, tracing and context propagation: no
  property depends on them. The drain nudge is an earlier poll.
- Redis, Postgres and BullMQ are external: modelled by what the code relies on
  (atomic statements, SKIP LOCKED, unique keys, job ids, locks, stalls).
- Front ends, client packages, generated API types, DTOs, controllers, and the
  storage, mail, payment and document adapters: rendering, declarations and pure
  I/O. They are most of the repository's lines, which is why the map covers a
  small share of them: the state that steps of several actors share is in the
  parts above.
