# A formal model of the flash sale

The repository implements a flash sale: one product, a fixed number of units, a
sale window, at most one unit per user. This directory holds TLA+ modules that
model its API, its worker, its web client and its load harness, TLC configurations
that check them on small instances, and TLAPS proofs of theorems that hold for any number of users and units.

`PROJECT.json` maps every definition to the source lines it stands for, lists the
runs with their properties, a mutation of the code that each property catches,
the hazards of the code, the findings and the theorems.

## 1. The system

| Component | State it keeps | Operations | Hard about it |
|---|---|---|---|
| Sale keys in Redis (`packages/redis`) | stock counter, `buyers` set, `reservations` hash (user → reservation id), sale config | Lua scripts: purchase, compensate, compare-and-restore, inspect and reconcile membership, reconcile state, seed, status; reset | every script is atomic, but callers compose several of them with awaits in between; a restore does not decrement stock |
| Purchase API (`apps/api/src/purchase`) | none of its own | `purchase`: fast-path guard, `purchase.lua`, then `enqueueConfirmedOrder` (one retry) | the confirmation is given before anything is queued; the enqueue may be lost, late or its outcome unknown |
| Orders producer (`apps/api/src/queue`) | a generation (connection + queue), in-flight count, circuit, backoff | enqueue, retire, close | deadlines racing late settlements; a retired generation keeps its slots |
| Orders queue (BullMQ, external) | one job per user: `jobId = <saleId>-<userId>` | add (no-op on an existing id), take, retry, stall, fail, remove | the job id is shared by successive reservations of one user |
| Order persistence (`apps/worker/src/orders/order.repository.ts`) | Postgres `orders`, unique per user, `persisted` or `compensated` | `persist`, `resolveFailed`, `ensureSale` | two stores, no distributed transaction; advisory and row locks; lost COMMIT acknowledgements |
| Consumer (`orders.consumer.ts`, `order.processor.ts`) | BullMQ worker, termination listeners | prepare, start, pause, close, process | a stalled processor outlives its lock; termination is asynchronous |
| Reconciliation and DLQ sweep (`reconciliation.service.ts`) | a maintenance chain, health flags | `runDiff`, `adjudicateBuyerOnly`, `sweepFailed` | decisions from snapshots that age during many awaits |
| Worker lifecycle (`reconciliation.service.ts`, `main.ts`, `health.service.ts`) | boot stage, timers, readiness and health flags, session lock | start, triggers, passes, stop | boot behind orphans of a dead predecessor; late writes of health flags |
| API clock, snapshot cache (`apps/api/src/infra`) | samples and offset, cached snapshot | sync, guard | staleness, overlapping syncs, a clock that is set |
| API edge (`common`, `sale`, `purchase`) | per-user request counters in Redis | rate limits, status and purchase-status reads, error mapping | fail-open and fail-closed paths; answers put together from Redis and Postgres |
| API process (`main.ts`, `health`, `queue-depth-probe.ts`, `process-shutdown.ts`, `infra.module.ts`) | the probe's generation and flight, exit code, watchdog, the step of the shutdown | readiness, depth, signals, ordered shutdown | budgets inside budgets, late settlements, repeated triggers |
| Web client (`apps/web`) | form, lookup, two polling hooks | edit, submit, check, poll, refresh, hide, show, unmount | answers that arrive after the page has moved on |
| Load harness (`scripts/stress.mjs`, `load/audit.ts`) | child registry, samplers, evidence files, the audit's snapshots | run scenarios, sample, interrupt, audit, publish, clean up | signals at any await; a snapshot collected by seven reads of a moving system |

How they interact: the API and the worker share the Redis sale keys and the
queue; only the worker writes Postgres. The API tells the user "CONFIRMED" once
`purchase.lua` has stored a reservation; from then on the reservation must become
a durable order or be given back. The consumer persists orders from jobs; the
maintenance chain repairs whatever got lost (missing jobs, missing ledger
entries, drifted stock) and resolves jobs that failed for good. The web client
sees the sale only through the API's replies. The load harness drives the whole
system from outside and audits what is left in Redis and Postgres.

What makes it correct (`README.md` of the repository, I1–I4):

* I1 no oversell: at the store (`UnitsAccounted`, `StockInRange`) and at the end
  of the pipeline (`NoOversell`, `UnitsNeverInflated`);
* I2 one unit per user: `BuyersMatchLedger`, `PersistedHoldsReservation`,
  `PersistedIsFinal`, and the lifecycle of reservations;
* I3 only inside the window: `ConfirmedOnlyInWindow`;
* I4 no confirmation is forgotten: `ConfirmationSettles`,
  `WithdrawnOnlyByOwnFailure`, and the worker's `BootCompletes`.

Around it: the producer and the API process always come to an end of what they
wait for (`EnqueueSettles`, `CircuitRecloses`, `FlightSettles`, `ShutdownEnds`); the
page never shows one request's answer as another's (`FeedbackIsForField`,
`LookupIsCurrent`, `OldSnapshotIsReplaced`); the harness never publishes a verdict on
a state that did not exist, or results of a run it cut short (`ReportSeen`,
`ResultsTrusted`).

## 2. Modules

```
SaleScripts            the sale keys and every Lua script, as operators
  SaleStore            the store alone: scripts in any order
    SaleStoreProofs    inductive invariant and theorems
  OrderPipeline        API + queue + processors + reconciliation + DLQ sweep
    OrderPipelineProofs
ReservationLifecycle   abstract: a reservation is idle, held, then sold or returned
WorkerLifecycle        boot, consumer, maintenance chain, readiness, shutdown
  WorkerLifecycleProofs
OrdersProducer         the API's producer: generations, circuit, deadlines, retry
  OrdersProducerProofs
AdvisoryGuard          the API's clock, snapshot cache and fast-path guard
  AdvisoryGuardProofs  inductive invariant and theorems
ApiProcess             readiness, queue-depth probe, signals, watchdog, shutdown
  ApiProcessProofs
SaleStore
  ApiEdge              rate limit, replies, status reads and errors, as operators
    WebClient          one page over the edge and the store
      WebClientProofs  (with SaleStoreProofs)
LoadAudit              the audit process and the system it audits
  LoadRun              the stress runner around it
    LoadRunProofs
```

The `MC*` modules only add symmetry sets. Where a property needs to be shown
able to fail, the module of the component also holds a mutated form of the
definition (each marked `Mutant:`); no specification uses one.

### SaleScripts and SaleStore

`seeded`, `stock`, `buyers`, `reservations` are the Redis keys of one sale, `now`
is Redis `TIME`. Each script is an action `XScript` that changes the keys and an
operator `XOutcome` with its reply, so that a composing module can branch on the
reply. `NoRid` is a missing hash field. `SaleStore` calls every script in any
order with reservation ids that some purchase generated. The observer `drift`
counts `RESTORED` replies since the counter was last derived from the ledger:
a restore puts the reservation back without a decrement, so until the next
`reconcile-state.lua` the counter may promise that many units too many.

### OrderPipeline

One action per awaited call. `row` is the `orders` table, `job` the queue,
`pending` the `queue.add` calls under way, `proc` the processors (a set: after a
stall the old and the new one run side by side, `own` tells who holds the job
lock). `phase`, `byUser`, `scanned`, `todo` and `task` are the program counter and
the local variables of the maintenance chain: `byUser` and `scanned` are the
snapshots `runDiff` works from, `task` is the user being visited and the step
reached. Transactions are modelled by their locks: `AdvisoryLocked` (per
reservation) and `RowLocked` (per user) between begin and commit;
`resolveFailed` runs `compensate.lua` inside its open transaction, so
`ResolveCompensate` and `ResolveCommit` are two steps with an abort or a crash
possible in between. A commit may succeed and its acknowledgement be lost. Any other
awaited call of a pass or sweep may fail, which ends it there (`PassFails`, charged
to `MaxCrashes`). A sweep lists some of the failed jobs (the code pages through
them), and an ensure that comes from the adjudication works on the job it fetched
then (`handle`), which may be gone or another one by now. The paged scans of Redis
and Postgres that a pass begins with are one atomic read each.

BullMQ is external and modelled by what the code relies on: add under an
existing id is ignored, an active job cannot be removed, only the lock owner
moves a job, stalled jobs are retried `MaxStalledCount` times and then failed,
completed jobs are evicted. `delayed` and `waiting` are one state: the code treats
them alike.

### ReservationLifecycle

What the pipeline promises for each reservation id: `idle → held → sold` or
`held → returned`, once and for good, one held or sold reservation per user, at
most `TotalStock` held or sold. The refinement mapping `ReservationStatus`
derives it from the row, the ledger and the ids issued.

### WorkerLifecycle

The record `worker[w]` holds the fields of `ReconciliationService`,
`OrdersConsumer` and the shared readiness state; code between two awaits is one
step. `paused`, `active` and `lock` are shared between processes (Redis, Redis,
Postgres), and processes may overlap. A pass or sweep ends healthy, degraded or
with an error; what it does to orders is in `OrderPipeline`. Readiness is published
under the session lock and the unlock is a step of its own, which may fail: the
worker then tears down what it has published, outside the lock. Assumed: an unlock
fails only with its connection, and the session lock does not get lost while the
work under it goes on. (When Postgres drops the connection, the `error` of the
checked-out client is an uncaught exception that shuts the process down,
`main.ts:105`; what it still does until it learns of it is not modelled.) The length of the
grace window is not modelled: `MayReportReady` says that readiness can be "ok" at
some instant of it.

### OrdersProducer

`call[c]` is a purchase inside `enqueueConfirmedOrder`: its attempt, which of the
two races of `enqueue` it waits in, what is left of its deadline, and whether the
generation it holds a slot of is still `this.generation`. `gen` is that
generation: how its readiness promise has settled, `inFlight`, and how far its
retirement has come (`readiness`, `settlements`, `close`). `add[c]` is the promise
of its `queue.add`, which may settle although nobody waits for it any more. Timers are
numbers of ticks, and time does not pass while a timer is due or a continuation is
ready to run. Assumed of ioredis and BullMQ: `redis.disconnect` settles a
`waitUntilReady` that is pending (`orders-queue.service.ts:196` and `209`), so that a
retirement does not wait for it.

### AdvisoryGuard

`time` is Redis `TIME` and `shift` how far `Date.now()` is ahead of it. A sync is a
flight in three steps (call, `status.lua`, reply), several may overlap, and each
reply appends a sample and picks the best one as `attemptSync` does. The guard is
an operator of the state, evaluated in every state: a purchase may arrive at any
time. The observer `trusted` counts the latest samples that were taken, from call
to reply, since the local clock was last set.

### ApiProcess

`proc` is the `ProcessShutdownController` (exit code, watchdog, signal handlers
left: `process.once`, so the second signal of a kind kills), `request` the readiness
request a client waits for, `probe` the `QueueDepthProbe` (its generation, the flight
all callers share, its deadline, how far `close()` has come), `infra` the step of
`InfraModule.shutdownSequence` with its budget and the time spent before the pool's
turn. Redis, Postgres, BullMQ and HTTP clients may answer, fail or hang at every
step. A tick stands for 250 ms, so that the constants of the run are the real
budgets: 750, 1000, 1000 and 5000 ms.

### ApiEdge and WebClient

`ApiEdge` holds what a request meets at the API: the per-user limiter's script and
its fail-open paths, `PurchaseService.purchase` with the guard's refusals and the
unavailable replies, the sale's status, the purchase status from the ledger and the
order row, and how `HttpExceptionFilter` renders each refusal. The IP limiter is
external, as are the order rows: a user who was issued a reservation may have any.

`WebClient` is one page over it. `form`, `buy`, `look`, `poll` and `ops` are the state
and the refs of `App`, `useSaleStatus` and `useOpsSnapshot`; a request is in flight, then
served (it reads the store at that instant), then answered, or it fails at any time.
Superseded lookups stay in `look.old` until they settle. `orphan` stands for the calls
of an earlier mount, such as the first of React's StrictMode, which reject after the
second has begun. All other shoppers, other tabs, requests whose page has gone, and
the worker are the free calls of `SaleStore`. The flag `fresh` is an observer: whether
a snapshot was read after the page's own reservation.

### LoadAudit and LoadRun

`LoadAudit` collects a snapshot in the seven reads of `collectSnapshot` while the
system goes on (`sys`, the pipeline reduced to what a snapshot can tell apart), looks
for two equal idle snapshots and a third that confirms them, judges I1, I2 and I4 and
publishes the report in two steps, linking and proving it visible. A publication that
fails takes the file away or makes it unreadable, and when that fails too leaves it
as it is. Each of the seven reads is atomic, also those that page (`SSCAN`, `HSCAN`,
the orders). The observer
`seen` says that the snapshot judged equals some state of the system at one instant.

`LoadRun` is `main()` and `runScenario`: one step per awaited child, `registry` the child
registry with its active termination, `sampler` the interval and its tick in flight.
The workload and its samplers are started in one step; what differs when a signal
falls between them is `Crash`.
Children end as they like, ignore SIGTERM, exit 0 after it, or hang; commands with a
`timeoutMs` are killed in the end; signals come at any time.

## 3. Runs

| Run | Instance | Shows |
|---|---|---|
| `web_client` | 1 page, 2 users, 1 unit, 2 ids, window [1,2) in 0..2, 1 restore, 2 gestures | the scripts keep both representations of the buyers equal, account for every unit and confirm only in the window; the page shows no answer under the wrong id, no answer of a superseded lookup, replaces an old snapshot after a purchase, polls exactly while it is open and visible, and tells no holder "sold out" |
| `pipeline_two_buyers` | 2 users, 1 unit, 1 id each, 1 attempt, 1 stall, late adds | no oversell, no inflated units, every durable order still holds its reservation, and the refinement of `ReservationLifecycle`, with stalls, lost and late enqueues and lost acknowledgements |
| `pipeline_rebuy` | 1 user, 2 ids, 2 attempts, 1 crash, the clock passes the end | the refinement when a user buys again after a compensation; a unit is given back once; a confirmation is only withdrawn because its own job failed, and every one is persisted or given back in the end |
| `pipeline_faults` | 1 user, 2 ids, crash, aborted resolution, lost field, late adds | a persisted order is never rewritten, under every fault of the model |
| `worker_boot` | 2 overlapping workers, 1 restart | the boot diff sees a queue at rest; "ready" means a running consumer with timers |
| `worker_liveness` | 1 worker, 1 restart | the boot ends behind an orphaned job; every stop completes |
| `producer` | 3 purchases, 2 slots | no slot is leaked or given back twice, no two generations are in use, a retirement ends within `2 * Timeout`; every purchase is answered, the circuit closes again, `close()` is final |
| `api_process` | the real budgets in ticks of 250 ms | a shutdown ends within its watchdog whatever hangs; the probe's `close()` fits its share; the pool gets its turn; exit code 0 means that everything was let go; every depth flight settles |
| `guard` | 2 overlapping syncs, 2 samples kept, 1 adjustment of the clock | the guard refuses nothing inside the window, once the samples kept are newer than the adjustment |
| `load_run` | 2 scenarios, 1 buyer, 1 lost field | a termination misses no child; nothing of the load outlives its scenario; results are written only for scenarios whose proven audit passed and whose children were not signalled; the audit publishes only states that existed; an interrupted run ends, and by way of its cleanup unless the signal met the start of a workload |
| `oversell_after_lost_commit` | 2 users, 1 unit, 1 aborted resolution | finding 1 |
| `grace_masks_failure` | 1 worker | finding 2 |

### Bounds

* Users and units: oversell needs one unit and a second user who wants it; two
  users also give two rows, jobs and processors. In `web_client` the store's part is
  small too; its properties are proved for every number of users and units
  (section 4).
* `Rids`: two ids per user give "bought, compensated, bought again"; a third
  purchase meets nothing that the second does not (leftovers in the queue and in
  Postgres are replaced, not accumulated).
* `MaxNow`, `StartsAt`, `EndsAt`: one instant before, in and after the window
  where the window matters; elsewhere the sale is open throughout.
* `Attempts`, `MaxStalledCount`: with two users a job is processed a second time,
  by a concurrent processor, through its stall; retries are in `pipeline_rebuy`.
  Either is lower where ids or faults take the room (a job still fails, and a
  stalled processor still runs on).
* `MaxCrashes`, `MaxResolveAborts`, `MaxLosses`: faults per behaviour. A failing
  call of a pass or sweep counts as a crash.
  `MaxResolveAborts = 0` in the runs about `NoOversell` and the lifecycle: with 1
  these are violated (finding 1), so the passing runs state exactly what they
  assume.
* `LateAdds = FALSE` assumes that `queue.add` does not land after its own
  reservation was compensated: the producer gives up after its deadline, and a
  compensation takes the job's whole retry schedule. `pipeline_two_buyers` and
  `pipeline_faults` drop it.
* `MaxDrift`, `MaxRestarts`: restores between two stock reconciliations, and
  processes started after the first.

* `Timeout`, `Backoff`: 1 and 2 ticks. The assumption `Timeout < Backoff` holds for
  the defaults (500 ms and 1000 ms); `env.schema.ts:91` accepts any positive
  `ENQUEUE_TIMEOUT_MS` and does not enforce it. `OneGenerationInUse` rests on it: an
  add that slipped past the list of settlements is over before the producer reopens.
* `Calls`: three purchases make the limit of two slots bite while a generation is
  being retired.
* `MaxGestures`: what the user does after typing a first id, and regular polls. Two
  suffice for submit and edit, submit and retry, check and check again, hide and
  submit; an edit that aborts a lookup is free, so that superseded lookups pile up.
* `UserMax`: one request per window, so that the second is refused.
* `Scenarios`: the warmup, whose failure ends the run, and one more (the smoke
  profile has one only; the proofs are for any positive number). One user is
  enough for the audit: his job, row, buyer entry, field and unit change
  independently between the reads.
* `MaxRtt`, `MaxTime`: round trips from 0 to 2 and the instants from well before the
  window to after it. `GuardSkew = 0` (which the environment schema allows) leaves the
  margin to `4 * rtt` alone.
* `Ahead`, `StepSize`, `MaxSteps`: the first offset of the local clock, and one
  adjustment.

Symmetry is used in safety runs only. The worker runs, `guard`, `api_process`,
`load_run` and `web_client` turn the deadlock check off: a stopped worker, an exited
process, an ended run, a closed page whose bounds are used up and the last instant
of the guard's bounded time are legitimate ends. The pipeline and the producer never
stop.

Type invariants: `WorkerLifecycle`, `ApiProcess` and `WebClient` (with `SaleStore`) have
theirs checked, because they carry bounds a bug would break, and proved; those of
`SaleStore`, `AdvisoryGuard`, `OrderPipeline`, `OrdersProducer` and `LoadRun` are proved.

What some properties do not say. `CompensatedOnce` is checked and proved without
aborted resolutions; with one it fails (finding 1). `PersistedIsFinal` holds under
every fault, but is about durable orders being rewritten: an order that should not
have been made durable (section 5, the late add of an older reservation) and a
reservation put back wrongly (section 5, `adjudicateBuyerOnly`) are other questions.

### Fairness

`OrderPipeline!Fairness`: passes and sweeps are scheduled by timers through one
FIFO chain (`setInterval`, `maintenanceTail`), hence strong fairness of their
starts; an awaited Redis, Postgres or queue call returns (all have command
timeouts), hence weak fairness of the chain; Redis and Postgres do not fail every
resolution for ever (strong fairness of its two steps: without it no retry
scheme can succeed); the consumer takes waiting jobs; a transaction ends; BullMQ's
stalled check finds an active job without an owner. No fairness is assumed of
purchases, of enqueues, of ticks, or of a stall of a live processor.

`WorkerLifecycle!Fairness`: awaited calls return, boot steps that may fail do not
fail for ever, orphans are found, and `main.ts` stops a process whose boot or
supervision rejected. No fairness is assumed of triggers, crashes or restarts.

`OrdersProducer!Fairness`: the event loop runs ready continuations and due timers
(weak fairness of each, of a promise only when its timeout is due), and time
passes even while refused purchases keep arriving (strong fairness of `Tick`). No
fairness is assumed of Redis: it may never answer.

`ApiProcess!FairSpec`: weak fairness of what the event loop and the clock do alone
(ticks, due timers, ready continuations). No client, queue or server need ever
answer, and nobody need send a signal.

`LoadRun!FairSpec`: weak fairness of the runner's own continuations, of its timers and
of the end of a killed child. A child that is not killed need never end: the audit
and the workload have no timeout, which is why only an interrupted run is shown to
end. `WebClient` has no liveness property and no fairness.

## 4. Proofs

`SaleStoreProofs` proves, for every finite set of users, every set of ids, every
window and every `TotalStock`, that `SaleStore!Spec` implies its type invariant,
`BuyersMatchLedger`, `UnitsAccounted`, `StockInRange` and the action property
`ConfirmedOnlyInWindow`.

None of these is inductive alone. `compensate.lua` decides by `SREM` on `buyers`
and the accounting is about `reservations`, so `UnitsAccounted` needs
`BuyersMatchLedger`; the cap in `compensate.lua` conserves units only while the
counter is in range, so it needs `StockInRange`; and `seed.lua` writes a full
counter, which accounts for the units only if what the ledger holds while the
sale is unseeded came from restores (`UnseededIsRestored`). `IInv` is the
conjunction of the four with `TypeOK`. One lemma per script shows that it
preserves `IInv`; the counting steps rest on lemmas about the cardinality of the
holders of a ledger after a field is set or deleted.

`AdvisoryGuardProofs` proves `NoFalseRefusal` for every window, margin, first
offset, round trip, number of kept samples and number of overlapping syncs, and
any number of adjustments of the local clock. `NoFalseRefusal` says nothing about
samples, so the invariant bounds the error of each sample by half its round trip
plus the rounding (Cristian's bound, lemma `OffsetAccurate`), for all the trusted
samples and not only the best one: when the best one leaves the window, any other
may take its place. `FlightsOrdered` gives the bound its premise: the reply of a
flight that no adjustment has cut was stamped between call and receipt. With four
round trips of margin the refusals follow.

`OrderPipelineProofs` proves each property from as few assumptions about faults as it
holds under. Users, ids, units, attempts and bounds are arbitrary; crashes, stalls,
retries, lost acknowledgements, failed adds and purchases after a compensation are
never restricted.

| assumption | theorems |
|---|---|
| none: every fault of the model | `PipelineTypes`, `PersistedOrdersFinal` (`PersistedIsFinal`) |
| Redis loses no field (`MaxLosses = 0`) | `WithdrawnByOwnFailure` (`WithdrawnOnlyByOwnFailure`) |
| also, a resolution whose compensation ran commits (`NothingLost`) | `PersistedKeepsReservation` (`PersistedHoldsReservation`) |
| also, no add lands after its reservation was compensated (`FaultFree`) | `UnitsAreConserved` (`UnitsNeverInflated`), `OrdersNeverOversold` (`NoOversell`), `UnitsReturnedOnce` (`CompensatedOnce`), `PipelineImplementsLifecycle` (`ImplementsLifecycle`), `PipelineKeepsPromise` |

No assumption is too strong: with one fault of the next kind alone and one unit, TLC
refutes every property of the rows below. A lost field refutes all six; an aborted
resolution refutes all but `WithdrawnOnlyByOwnFailure` (finding 1); a late add refutes
those of the last row, `NoOversell` with two users and two ids.

None of the properties is inductive, because each speaks of the ledger, the counter and
the rows and not of what is in flight. `LockInv` says what the advisory lock and the
unique index leave possible inside a transaction (one writer per row; a resolution and
a write exclude each other; what a transaction has read is still what the row says).
`UnitInv` adds: the buyers set agrees with the ledger (`LedgerInv`); only issued ids are
anywhere (`IssuedInv`); a row says whether its id still stands (`RowInv`); a transaction
writes only for the id on file (`WriteInv`); and the row snapshot of a pass is still true
when it is used (`PassInv`). These hold with late adds too. Without late adds, a leftover
job of an older id meets the marker of that id or a later order (`LeftoverInv`); the job
snapshot of a pass restores nothing that was withdrawn after it was taken (`ScanInv`); a
unit goes back once, for an id that is gone (`CreditInv`); and the counter and the ledger
add up to the stock, exactly (`CountInv`).

The refinement maps initial states to initial states and each action to a step of
`ReservationLifecycle` on one id or to a stutter. `LifecycleKeepsPromise` shows, for any
number of users and ids, that the abstract specification has at most one current
reservation per user and at most `TotalStock` of them; `PipelineKeepsPromise` combines the
two.

`OrdersProducerProofs` proves `SlotsExact`, `OneGenerationInUse`, `RetirementBounded` and
the safety half of `CloseIsFinal` for any number of purchases and slots and every
`Timeout < Backoff`. `GenInv` relates the circuit to the generation in use and the one
being retired; `SlotInv` counts the calls that hold a slot; `StaleInv` says that a call
which slipped past the retirement's list of settlements has less time left than the
backoff; `RetireInv` adds up what is left of the awaited adds and of `queue.close()`.

`ApiProcessProofs` proves `TypeOK`, `ProbeCloseFits`, `CleanExit`, and that `pool.end()`
begins with at least `ProcessBudget - 3 * ResourceBudget`, for every choice of budgets
that satisfies `BudgetAssumption`. The assumption includes
`ReadyBudget < ProcessBudget` (1 s and 5 s in the code): a readiness request that began
before the signal still counts down its own budget while the process drains. `SettleInv`
follows the observer's `close()` against the budget of its attempt; `DrainInv` and `EndInv`
follow what each step of the sequence has let go of.

`WorkerLifecycleProofs` proves `TypeOK`, `BootDiffIsQuiet`, `ReadyMeansServing` and that a
boot in its locked part, from its pause to its unlock, excludes every other boot and
pass, for any number of workers, crashes and restarts. Two workers are kept apart by the session lock (`LockInv`) and by
the pause that only the holder of the lock ends (`PauseInv`, `DiffInv`); one worker's
flags, chain and consumer are related at every stage by `Consistent`.

`WebClientProofs` proves `WebTypeOK`, `FeedbackIsForField`, `LookupIsCurrent`,
`PollingFollowsPage`, `OldSnapshotIsReplaced` and `SoldOutOnlyToOthers` for any users, stock,
window, limit and number of gestures, and that `WebSpec` implies `SaleStore!Spec`, so
that the theorems of `SaleStoreProofs` hold under the page and the HTTP edge. The
invariant is about answers still on their way: a purchase in flight is for the id in
the field (`SubmitInv`); "confirmed" and "found" are said of users who were issued a
reservation, which no later step takes back (`ConfirmedInv`, `LookInv`); after a
confirmation a poll that was read before it has a refresh queued behind it
(`StaleInv`); and whoever is in the buyers set was issued a reservation
(`HoldersWereIssued`), since that set is what a lookup is answered from.

`LoadRunProofs` proves `TerminationExact`, `QuietAfterLoad`, `ResultsTrusted`, `ReportSeen`
and the types, for every number of confirmed purchases, every stock that covers them,
and any number of lost fields and any positive number of scenarios.

* `ReportSeen`. The seven reads of `collectSnapshot` are not atomic, so that two equal
  snapshots alone prove nothing: what helps is the direction in which the system moves. A
  row is written once (`RowsOlder`), and a unit that is returned leaves a buyer whose row is
  still to be written (`ReturnedSince`). Hence a candidate whose rows still hold agrees in
  stock and buyers with an idle system (`OlderIdle`). From the second, equal snapshot on,
  the candidate has been the system's state, or a row has been written since, or a job
  that must still write one is under way (`Witnessed`). The queue read of the third
  snapshot excludes the last and its rows the second. This is why `waitForConvergence`
  collects a final snapshot after the two that agree.
* The runner. `TermInv`: from the moment a termination has listed its targets the registry
  refuses every spawn. `QuietInv`: the only children are the one the current step awaits
  and the `docker stats` of the tick in flight. `DoneInv` and `HarmInv`: a workload or an
  audit that the runner has signalled is charged to its scenario at that step or at one
  of the few that follow, before a result can be written.

Every inductive invariant was checked by TLC on the instances of the runs before it
was proved; the part of `UnitInv` that allows late adds, on one user with two and three
ids.

Only model-checked: all liveness (`ConfirmationSettles`, `BootCompletes`, `StopCompletes`,
`EnqueueSettles`, `CircuitRecloses`, `CloseIsFinal` as a whole, `ShutdownEnds`,
`FlightSettles`, `InterruptEnds`), since fairness and ENABLED are out of the prover's
reach. Every safety property of the passing runs is proved.

## 5. Findings

1. `resolveFailed` increments Redis stock inside a Postgres transaction that can
   still abort. Then no marker row exists, the INSERT path of `persist` does not
   ask the ledger, and a processor that outlived its job lock persists a
   reservation whose unit was sold again: two persisted orders for one unit.
   With the same abort `CompensatedOnce` fails as well: a pass restores the
   reservation from the failed job, and the next sweep increments again. The pass
   that follows derives the counter from the ledger, so this inflation is
   temporary. The test "crash after Redis compensation retries NOOP and never
   increments twice" covers a retry with nothing in between.
2. `runContinuousPass` reads `wasHealthy` before it waits in the maintenance chain.
   A failure confirmed by the sweep ahead of it is downgraded to grace-eligible,
   although the comments in `health.service.ts` and `reconciliation.service.ts`
   say that a confirmed failure is never masked.

Read off the models, without a run of their own:

* `enqueueConfirmedOrder` retries a failed enqueue at once, and its comment
  (`purchase.service.ts:201-203`) says that the retry of an add that had landed is a
  BullMQ no-op. The failure of the first attempt has retired the generation, so the
  retry is refused by the open circuit or the backoff and never reaches BullMQ. The
  order is then repaired by the worker (`ConfirmationSettles`).
* A `queue.add` that the API gave up on may land after its reservation was compensated and
  its failed job removed (`LateAdds`). If its user has bought again and that reservation
  was compensated too, the one row of the user marks the newer id only: a pass takes the
  late job for an order that Redis has forgotten, restores its reservation, and the
  processor persists it, although the unit may have been sold to another user. It takes
  two users, two ids and one unit; hence the third conjunct of `FaultFree`.
* `workloadPromise` (`stress.mjs:1423`) has no handler while `runtime.json` is written.
  A refused or failed spawn in between is an unhandled rejection: the process ends
  without its cleanup (`LoadRun!Crash`), although a test (`load/stress.spec.ts:507`) has an
  interruption allow "exactly one bounded validated cleanup". `InterruptEnds` shows that
  this is the only await of the run with that consequence.
* `adjudicateBuyerOnly` (`reconciliation.service.ts:633-643`) asks for a job before it looks
  at the compensated row, and a failed job counts as live. Redis loses the field of a
  reservation and keeps its buyer; the reservation is resolved as compensated and
  `job.remove` fails: the next pass puts the compensated reservation back, although a
  test has it permit "only atomic stale-membership cleanup"
  (`reconciliation.service.spec.ts:1016`); a later sweep compensates it once more. And when
  the order becomes durable between the adjudication's reads of the row and of the
  job, or the field is lost between the scan of the ledger and the repair of an entry,
  the buyer of a durable order is dropped until the next pass. All this takes a
  partial loss of Redis data, about which the documents promise nothing; hence no
  property of the adjudication beyond `PersistedIsFinal`.
* Results are written before the cleanup, and also when a signal arrives after the
  last child of the last scenario; the exit code is 1 then.
* A purchase-status read may answer "compensated" from the row of an earlier
  reservation while the user holds a newer, live one: the row is asked first.
* `submit` in `App.tsx` leaves an earlier lookup result on the screen; a refresh of the
  operations panel during a running poll is swallowed.

A limit of the fast-path guard that is not a disagreement with the code's
documents: `isFresh()` dates the last sync, not the sample in use. After the local
clock is set, an older sample with a lower round trip stays in use for up to
`RTT_SAMPLE_WINDOW` syncs, and the guard may refuse purchases inside the window.
Hence the premise of `NoFalseRefusal`.

## 6. Not modelled, and the plan

Done: the sale store and its proofs, the order pipeline and its refinement, the
worker's lifecycle, the API's producer, clock, guard, edge and process, the web
client, the load harness, and the proofs about all of them. Left: the cold start of
`OrderPipeline` (unseeded sale, rows and jobs left over).

An overcommitted ledger fails every pass, at boot for ever: deliberate (failure-modes
test 11), so no liveness is claimed for it. Overlapping workers may also leave the
queue paused, since only a boot resumes it; the repository excludes horizontal
scaling of the worker (`README.md:390`).

Left out: rendering and styling of the web client, environment parsing, wording,
logging, the k6 scripts, the preflight of the load runner and the field-by-field
validation of its evidence files (accepted or not), metrics counters that nothing
decides on, and two operations of `SaleRedisStore` that no process calls (`restoreReservations`,
`reconcileStock`).
