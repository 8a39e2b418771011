# LogiTrack: formal specification

TLA+ modules, TLC configurations and TLAPS proofs for LogiTrack, a delivery tracking system: a
Spring Boot API, a Python GPS simulator, a Python analytics service and a Next.js console around
PostgreSQL, Kafka and Redis. The modules are written from the code; every definition that models
code is listed with its file and lines under `map` in `PROJECT.json`. Paths below are relative to
the repository, and `J/` stands for `src/api/src/main/java/io/logitrack/`.

Contents: [the system](#1-the-system) · [the modules](#2-the-modules) · [the runs](#3-the-runs) ·
[bounds](#4-bounds) · [fairness](#5-fairness) · [proofs](#6-proofs) ·
[disagreements found](#7-disagreements-found) · [not modelled](#8-what-is-not-modelled)

## 1. The system

### 1.1 How it fits together

    client --HTTP--> OrderService / DeliveryService --one transaction--> PostgreSQL (orders,
        deliveries, outbox_events) --OutboxPublisher--> Kafka delivery.created.v1
        --> GPS simulator --> Kafka vehicle.telemetry.v1 --> TelemetryConsumer
        --one transaction--> delivery, alerts, order fulfilment, processed_events, outbox
        --after commit--> Redis Pub/Sub --> DeliveryStream --SSE--> browsers
    failures of both consumers --> vehicle.telemetry.dlq.v1, delivery.created.dlq.v1
        --> DeadLetterCatalog --> PostgreSQL --operators--> replay to the source topic, or discard
    client --HTTP--> WarehouseService --> stock, tasks and an immutable ledger
    browser <--cookies--> web server: auth/login, auth/callback, auth/logout, proxy.ts
    browser --backend/[...path]--> API: snapshots, commands with keys, one event stream
    page = version guard + map + lists + commands, sharing the network of the browser

Every step between two boxes is at least once, and what makes a repetition harmless differs each
time: an idempotency key with an advisory lock (HTTP commands), a unique index, an event id in
`processed_events`, the watermark `last_telemetry_at`, the identity of a dead letter (original
topic, partition, offset). The behaviour that is hard to test is in these repetitions meeting each
other, in the transactions that read without a lock, and in the browser, where answers, stream
events, timers and the network interleave and nothing but references and cookies remembers anything.

### 1.2 Inventory

| Component | State it keeps | Operations | Talks to | Hard behaviour | Correct means |
|---|---|---|---|---|---|
| Transactional outbox (`J/outbox`) | `outbox_events` (status, attempts, next attempt), `outbox_retry_audits`, the producer's buffer | save with the business transaction, publish the next due row, back off, operator retry, retention | every service that saves a row; Kafka | two instances, SKIP LOCKED, a send that times out and is appended later, a crash before the commit | no committed event is lost, a duplicate always has a reason, an operator's retry is done once |
| Orders and deliveries (`J/order`, `J/delivery`) | `customer_orders`, `deliveries`, unique indexes | create an order, dispatch it, create a direct delivery, fulfil from telemetry | analytics (route, under the locks), outbox, telemetry | two locks per command, keys shared by dispatches and direct deliveries, rows read without a lock | order and delivery agree, one key is one command, no deadlock |
| Telemetry consumer (`J/event`) | delivery row (progress, `last_telemetry_at`, version), `processed_events`, group offset | check, load, apply, reject, retry, dead-letter, commit the offset | Kafka, alerts, orders, SSE | redelivery, rebalance inside a transaction, late and repeated events | a delivery only moves forward, nothing is skipped, delivered is final |
| Warehouse (`J/warehouse`) | stock, tasks, ledger | receive, pick, dispatch | clients | first receipt of a stock, several advisory and row locks in one command | never oversold, stock = ledger = tasks, no ring of waiters |
| Delivery alerts (`J/alert/AlertService`) | `delivery_alerts` | open, escalate, resolve (telemetry), acknowledge (operator) | telemetry, outbox, SSE | row written back whole after an unlocked read | life of an alert = its events; acknowledged once |
| Dead letter recovery (`J/replay`) | catalog entries, audits, replay and discard plans | capture, replay, discard, prepare, execute, expire, purge | Kafka topics, operators | transactions of a plan's entries are separate, the publication is inside a transaction, the catalog's own error handler | an entry is recovered once and finally, an executed plan recovered all |
| GPS simulator (`src/simulator`) | consumer position, contiguous offset tracker, worker pool, completions | poll, submit, simulate, quarantine, commit, stop | Kafka, delivery API | simulations finish out of order, fail, and are repeated after a restart | the offset passes over finished work only, telemetry has no gap, nothing blocks a partition for ever |
| Alert policies (`J/alert/AlertPolicyService`) | policies, immutable audits | upsert, reset, restore | operators | optimistic version, keys bound to audits | a restore puts back what an audit says, once per key |
| Event stream (`J/stream`) | emitters, connections per subject | subscribe, broadcast, heartbeat, remove, close | Redis, browsers | callbacks against a walk over the list | counts equal the open emitters, caps hold |
| Rate limiting (`J/config/ApiRateLimitFilter`) | window per subject, in memory | count a request | every request | check of the table size before the insertion | at most `limit` requests per window and subject |
| Route analysis (`src/analytics/app/routing.py`) | plan cache, plans under way | plan, finalise an abandoned plan | OSRM, API | single flight with cancelled callers | one request at a time per key, no plan is left in flight |
| Retention and demo seeding (`J/maintenance`, `DemoDeliverySeeder`) | an advisory lock | delete what has settled, replenish demo deliveries | all tables | deletion under running work | nothing unsettled is deleted |
| Operator session (`src/web/app/auth`, `proxy.ts`, `backend/[...path]`) | the cookies of the browser; nothing on the server | login, callback, logout, page guard, relay | identity provider, API | several requests in flight, each answer a partial edit of cookies its request may never have seen; expiry, lost answers, keys that cannot be had | a logout is final, only a reason ends a session, no code meets the wrong verifier |
| Console deliveries (`console/page.tsx:65-119`) | rows, requested map data, the event source | load, resync, hear an update, load routes and tracks | API through the relay | loads overlap, the stream is cut, refused and comes back | no older row over a newer one, every requested route is loaded or asked for again |
| Console lists (`FleetTelemetryPanel`, `AlertOperationsPanel`, `FleetMap` features) | scope, selection, visible counts | filter, sort, page, select | rows of the console | limits, missing times | the selected delivery is shown, urgent alerts come first |
| Console commands (`console/page.tsx:129-152`) | retry references | click, confirm, fail, repeat | API | lost and late answers, two requests for one intention | one intention, one effect |
| Map and version guard (`FleetMap`, `RuntimeVersionGuard`) | timers, flags | load, fail, retry; poll, reload | tile server, web server | timers against network events | the map comes back, polling never stops |
| KPIs, reports, security, metrics, scripts, infrastructure | - | - | - | - | see section 8 |

The hazards this code is exposed to are listed at their lines under `hazards` in `PROJECT.json`,
with the properties that watch them.

## 2. The modules

Each component has one module; `MC<Module>` adds only model constants, values for function-valued
constants and symmetry sets. Operators whose comment starts with `Fault:` are deliberately wrong
versions of the operator they stand before; each is used to show that one property would notice
(`mutants` in `PROJECT.json`) and none of them is part of a specification.

### EventRelay, Outbox, MCOutbox, OutboxProofs
`Outbox` models `J/outbox`. `status`, `attempts`, `audits` are the columns; `held` is the row lock
of the transaction of `OutboxPublishAttempt.publishNext`; `answer` and `buffer` the producer, which
keeps the order of its own records (`enable.idempotence`) and may append a record after
`get(timeout)` has given up on it. `next_attempt_at` is abstracted to `due` (the PENDING rows whose
time has come) and `ahead` (who was due before): these are what `lockNextPending` looks at.
`StartPublish` is lock + send, `Answer` the answer of the broker, `Publish` the commit (PUBLISHED,
or one more failed attempt, and FAILED after the last), `Crash` any end of the transaction without
a commit, `Retry` the operator's retry with its key and audit, `Purge` retention.

`EventRelay` is what the outbox promises: a committed event is published, possibly more than once,
or is reported as failed and can be armed again; it never disappears. `Outbox` implements it under
the mapping at the end of `Outbox.tla`; TLC checks the implication on the instance
(`ImplementsRelay`) and `OutboxProofs` proves it.

### OrderDispatch, MCOrderDispatch, OrderDispatchProofs
`OrderService.create`, `OrderService.dispatch`, `DeliveryService.create` and
`OrderService.fulfillFromDelivery`. A client's transaction passes through stages named for what it
waits for: key lock, order row, delivery key lock, route. Locks are held until the transaction
ends, and a lock is derived from the stages (`DispatchKeyLocked`, `OrderLocked`,
`DeliveryKeyLocked`), so no action can forget to release one. `LegacyOrders` are orders that were
dispatched before migration V44 added `dispatch_request_key`. `UniqueIndexesAllow` are the unique
indexes; `LocksSuffice` says they never have to refuse.

### Telemetry, MCTelemetry, TelemetryProofs
`TelemetryConsumer.consume` on one partition and one delivery, with two instances. `Check` is the
test for a processed event and for the payload, `Load` the read of the delivery without a lock,
`Write` the rest of the transaction, which fails on a changed `version` or an already inserted
processed event. `RetryLater` and `GiveUp` are the error handler (exponential backoff of at most 8
seconds, then the dead letter topic), `Move` a rebalance, after which the old instance may still
commit its transaction. The order of the delivery is fulfilled in `Write`.

### Warehouse, MCWarehouse, WarehouseProofs
`WarehouseService.receive`, `pick` and `dispatch`, one action per lock. `Wanted(t)` is the lock the
next step of a transaction needs; `locks[c]` what it holds. `Commit` changes stock, task and ledger
together, as the transaction does. `DatabaseAllows` is what the unique indexes and the version
column would refuse.

### DeliveryAlerts, MCDeliveryAlerts, TelemetryProofs
`AlertService.evaluate/reconcile` inside telemetry transactions, which read the active alert and
write all of its columns later, against `acknowledge`, which locks key and row. The transactions
of one delivery are ordered by the version of the delivery (`CommitReading`), acknowledgements are
not. Distances and ETAs are abstracted to what the policy says of them (`Measures`: clear, warning,
critical).

### DlqRecovery, MCDlqRecovery, DlqRecoveryProofs
The two dead letter topics as one sequence of letters with the topic each is on; the catalog
consumer with the error handler it shares with the telemetry consumer (`CaptureFails` publishes the
letter to the telemetry dead letter topic); `ReplayService.replay` and `discard` with key lock, row
lock, publication inside the transaction and audit; replay and discard plans, whose entries are
recovered by a transaction each and whose execution may be cut off between two of them.

### SimulatorOffsets, MCSimulatorOffsets, SimulatorOffsetsProofs
`main` of the simulator. The main loop is a small state machine (`main.at`: drain, poll, submit,
quarantine), the executor a backlog and a set of running simulations, `completions` the queue the
callbacks fill. `pending`, `completed`, `lastSeen` are the fields of `ContiguousOffsetTracker`;
`Complete` is its `complete` with the synchronous commit. A step is `StepStored` (broker) then
`StepConfirmed` (delivery report). Failures of any kind end the process (`os._exit(1)`), which is
what `Stop` does: everything but Kafka and the API's rows is forgotten. `Apply` and `Delete` are
what the API does with the positions and, much later, with a delivered demo delivery.

### OperatorSession, MCOperatorSession, ConsoleProofs
The routes of `src/web/app/auth`, `proxy.ts` and `backend/[...path]/route.ts`. The server has no
state: `jar` is the cookies of the browser, `requests` what is in flight, each with the cookies it
was sent with and later the edit its answer carries; `Deliver` applies an edit to the cookies as
they are then. The stages of a callback (`exchanging`, `tokens`) and of a call (`reading`,
`upstream`, `relaying`) are where the route waits. State, nonce and verifier are set and cleared
together and are one cookie. `left` and `older` are history: whether a logout was the last change
of the session, and which requests were sent before it.

### BrowserNetwork, RuntimeVersionGuard, FleetMapRecovery, ConsoleCommands, BrowserPage, MCBrowserPage, BrowserPageProofs
One module per part of a page, with variables of its own and `online` shared; `BrowserPage` composes
them: `GoOnline` and `GoOffline` run the listeners of the guard and of the map in the same task,
`Reload` is the guard's `window.location.reload()`, which begins the map anew and forgets the keys
of uncertain commands. In the guard a timer whose identifier was overwritten is counted in `lost`.
In the map, `Replace` is the effect of `mapRetry` and a step of its own, because the old instance
may still report before it runs. In the commands, `awaited` is the request the buttons wait for,
`abandoned` what the API may still run, `retry` and `task` the references of the page.

### ConsoleSync, FleetView, AlertList, MCConsoleSync, ConsoleProofs
`ConsoleSync` is `load`, `loadMapData` and the listeners of the event source. A load reads page by
page (`ReadPage`), shows its rows (`ShowLoad`, merged when the stream has spoken since it began) and
then waits for its map request; `mapRequests` are the requests for routes and tracks with who waits
for each. A delivery is the number of its last update. `FleetView` and `AlertList` are the pure
functions: staleness, scopes, the windows of list and map, selection, paging, the travelled line,
and the comparator of the alerts. `MCConsoleSync` checks them on samples (`ASSUME`),
`ConsoleProofs` for every input.

## 3. The runs

| Run | Properties | What it shows |
|---|---|---|
| outbox | NoCommittedEventLost, OneHolder, DuplicatesAccounted, RearmIsAudited, ImplementsRelay, EventuallySettled | two publishers, a crash, failing and late sends, an operator who repeats a retry: no event is lost, copies are bounded by the attempts that failed or were cut off, a row is armed again at most once per key, the outbox implements the relay, and every saved event is PUBLISHED or FAILED in the end |
| order_dispatch | RequestsFinish, StatesAgree, OneCommandPerKey, LocksSuffice, KeyBindingKept | racing dispatches, retries and direct deliveries with shared keys, one order from before keys were stored: the locks never close a ring and leave nothing for the unique indexes |
| telemetry | OnlyForward, FulfilledWithDelivery, NothingSkipped | duplicates, reordering, two completions, an invalid event, rebalances in a transaction |
| warehouse | AccountsAgree, LocksSuffice, DispatchKeptByKey, SomeoneProceeds | commands interleaved at every lock; overflow of `on_hand` |
| delivery_alerts | LifeIsAnnounced, NeverReplaced | the life of alerts under races |
| delivery_alerts_once (violation) | AcknowledgedOnce | an acknowledgement that telemetry erases is recorded twice |
| dlq_recovery | OneRecovery, NothingUncatalogued, ExecutedMeansAll, OutcomeIsFinal | hand and plan recoveries race for entries, and are cut off |
| simulator_offsets | NothingPassedOver, TelemetryHasNoGap, OffsetsAccounted, EveryRecordIsPassed | out-of-order completion, failures, crash, reassignment, repetition; no partition stands still while no delivery is deleted |
| operator_session | NoCodeWasted, LogoutIsFinal, SessionKept | two logins, logouts, guards and calls answer one browser in any order |
| browser_page | PollingNeverStops, RecoveryScheduled, OneEffectPerIntention, OneOpenTask, NewVersionSeen, MapComesBack | guard, map and commands of one page while the network comes and goes and the page is loaded again |
| console_sync | StreamedRowsStay, RequestedIsLoaded, ResyncUnderWay | overlapping loads, stream and map requests |
| console_resync (violation) | MissedIsRecovered | a late load from before the cut undoes the resync |

Every component with state also has a type invariant, which is a theorem. A conjunction such as
`AccountsAgree` is checked as one property: its parts (`NeverOversold`, `LedgerExplainsStock`,
`TasksExplainStock`) are named in the module.

A run marked *violation* checks a sentence of the repository's documentation that the code does not
keep; section 7 tells the story of each.

## 4. Bounds

All bounds are constants in guards, so nothing is cut off behind the back of a property.

- **Outbox**: 2 rows with one key, 2 publishers, 1 retry key, `MaxAttempts = 2` (20 in the code: the
  first attempt, a failure with another attempt to come, and the failure that is final are the only
  different ones), 1 crash. 441k states. Rows are numbered in the order in which they are
  committed, which loses nothing. The proofs do not depend on any of these.
- **OrderDispatch**: 2 orders, one of them dispatched before keys were stored, 1 vehicle, 2 keys, 2
  clients, 3 deliveries; every lock conflict is between two transactions, and two dispatches of one
  order and a direct delivery meet at all three kinds of lock. 97k states.
- **Telemetry**: 5 events (a position, a second one with the same progress, a completion, another
  completion under its own id, an invalid event), a log of 3 records in any order with repetitions,
  2 instances, 2 rebalances. 541k states. The times of the events respect `CompletionIsLast`
  (section 6). `Full = 2` progress steps: under way and complete.
- **Warehouse**: 2 stocks, 3 task keys, 2 dispatch keys, 2 clients, quantities 1..2 and
  `MaxInt = 3` in place of 2^31 - 1, so that two receipts can overflow.
- **DeliveryAlerts**: 2 alerts of the same delivery and type one after the other, 2 operators, 2
  clients and one key (to force reuse), 2 telemetry transactions, 3 readings.
- **DlqRecovery**: 2 letters, one of each kind, 2 clients, one key, one plan, one recovery cut off;
  3 letters where a letter is dead-lettered again.
- **SimulatorOffsets**: one partition of 3 records over 2 deliveries and an invalid event (so a
  delivery's event may appear twice), 2 workers with 4 slots, 2 steps, 1 fault, 1 deletion. Offsets
  of different partitions interact only through the workers. 248k states.

- **OperatorSession**: 2 attempts to log in, the token an older release stored, 2 requests in
  flight, bodies counted in units with limits of 1 and chunks of up to 2 (a chunk may end at, or
  pass over, a limit). A race of answers is between two requests; a third repeats one of them. 1.9M
  states.
- **BrowserPage**: 2 versions, 1 lost timer, 3 keys. The parts only meet through the network and
  the reload.
- **ConsoleSync**: 2 deliveries, 2 updates, 2 loads, 1 cut or refusal: a load that overlaps another
  one or the resync, and an update before, between and after them.

`CHECK_DEADLOCK FALSE` is set where a finished world has nothing left to do: all rows settled or
purged (Outbox), the log full and read (Telemetry), the delivery done (DeliveryAlerts), all entries
recovered (DlqRecovery), all logins used or all loads done (OperatorSession, ConsoleSync). The warehouse, order,
simulator and page runs check for deadlock.

Symmetry is used for clients, operators, keys and the like, and never in a run with a liveness
property.

## 5. Fairness

- **Outbox** (`FairSpec`): the scheduled publisher keeps polling and ends its attempt (`get` has a
  timeout), a backoff passes, a producer settles what it has accepted. Nothing is assumed of
  operators, crashes or the broker's willingness to append.
- **OrderDispatch**: strong fairness of the steps of each request: PostgreSQL queues the waiters of a
  lock, and the route analysis is bounded by timeouts. No fairness of roll backs or of telemetry.
- **SimulatorOffsets**: the loop and the workers go on and the container is restarted (compose has
  `restart: unless-stopped`). Strong fairness of a poll that returns a record and of the submission
  to a slot: polls that return nothing pass through states where no record can be polled. Faults
  are bounded and never fair.

- **BrowserPage** (`FairSpec`): timers fire and React runs effects (weak); a check that is repeated
  without end is answered now and then and a map that is loaded without end arrives now and then
  (strong): a network that always fails is not promised anything. Clicks, deployments and the
  network itself are not fair; both leads-to properties are about a browser that stays online.

No run has crashes without end: the number of faults is bounded, so "in the end" means
after the last fault.

## 6. Proofs

Eight modules hold theorems, each about the components it extends, for any finite or infinite sets
and any bounds. `PROJECT.json` lists them under `theorems`. Where not said otherwise they rest on
the named assumption of the component's module alone (bounds are naturals, `None` is nothing else).

Properties of single parts of the state are seldom inductive. Each proof module names the inductive
invariant `IInv` (`ConsoleProofs`, which is about two components, `SyncInv` and `SessionInv`;
`TelemetryProofs` has `AlertInv` besides), proves
`Init => IInv` and `IInv /\ [Next]_vars => IInv'` with one lemma or step per action, and reads the
properties off it.

**OutboxProofs** (`OutboxAssumption`: rows and bounds are naturals, every row has a key,
`MaxAttempts` >= 1): `Invariant`, `TypeCorrect`, `NothingLost`, `RowsHaveOneHolder`, and
`Refinement` (`Spec => ImplementsRelay`: the outbox implements `EventRelay`). `NoCommittedEventLost` is
not inductive: whether `Publish` may write PUBLISHED depends on what the producer has answered, and
what an answer means depends on the log. `IInv` adds that

- a due row is PENDING (`DueArePending`), and a PENDING row has attempts left (`AttemptsLeft`);
- every record in a buffer or in the log is of a committed row (`RecordsCommitted`);
- an instance has an answer exactly when it holds a row, an acknowledged row is in the log, and the
  row of a waiting send is in the instance's buffer (`AnswerMatches`).

The refinement maps `StartPublish`, `Answer` and the failed attempts to stutters, `BrokerAppends`
and the commit to the relay's steps.

`DuplicatesAreAccounted` bounds the copies of an event by its attempts, the crashes and a full round
of attempts per audited retry. The copies on the log cannot be bounded alone: a send whose publisher
gave up long ago is still in the producer's buffer and becomes a copy later. `SendsInv` counts both,
copies and buffered records; a row that is published or in the hands of a publisher has one more than
it has been charged for. A row that failed has used `MaxAttempts` attempts, which is
what a retry may reset. `RearmsAreAudited` is the action property `RearmIsAudited`, from `IInv`.

**OrderDispatchProofs** (`DispatchAssumption`: a vehicle, key, order or delivery is not `None`, and
there are enough deliveries to give each order from before V44 one of its own, which
`uq_deliveries_order_id` guarantees of the rows): `TypeCorrect`, `LocksAreEnough`, `BindingsStay`,
`KeyStandsForOneDispatch`, `NoStateApart`. What `Commit` may write was looked up several steps
earlier, so the invariant says that no lock has two holders (`LocksExclusive`) and that what was
looked up under a lock still is so (`LookedUp`): every step that would change it needs the same lock.
The exception is `OrderService.fulfillFromDelivery`, which reads an order without a lock:
`ReadStillTrue` says that what it read is the order as it is now, or the order without the key that
a repeated dispatch bound to an order from before V44. That is the one binding that can be lost
(section 7), and the theorems except nothing else.

**TelemetryProofs**, of `Telemetry`: `TypeCorrect`, `OffsetsSkipNothing`, `FulfilledOnce`, `EventsApplyInOrder`,
`DeliveryOnlyForward`. The invariant relates what a transaction has seen to the row as it is now
(what was seen is never newer), offsets to what was processed or dead-lettered, and the row to the
last event that took effect. The last theorem carries an assumption the proof brought to light,
`CompletionIsLast`: no event that is not a completion has the time of a completion or a later one.
Without it a completion can be late, count as processed and leave the delivery under way for good.
The simulator keeps it as long as its clock does (section 8); `EventsApplyInOrder` needs no such
assumption.

Of `DeliveryAlerts`: `AlertTypeCorrect`, `LifeAlwaysAnnounced`, `NamesAreNotReplaced`. A telemetry
transaction writes back every column of a row it read without a lock. `ReadIsTrue` says why this does
less harm than it might: as long as the delivery has the version the transaction read, it is still
the active alert it would write, with the same severity (`StillTrue`), and only an acknowledgement,
or its key, may have come since; what it read of these is what the row has, or nothing. `LocksHold`: a row
that an operator has locked is active and unacknowledged, and telemetry waits for it. That the
acknowledgement is lost is not excluded (section 7); that it is exchanged for another one is. The
invariant has the life of an alert one row at a time (`Lived`), and a lemma says which of five steps
a row and its events can take.

**WarehouseProofs**: `TypeCorrect`, `StockNeverOversold`, `LocksAreEnough`, `KeyStandsForOneTask`, `NoRing`. The
invariant says which locks a transaction holds at each stage and that what it read under them is
still so, which is why the unique indexes and versions never refuse. `NoRing` assumes
`Keys \cap Stocks = {}`: keys and stocks have one space of advisory lock numbers in the code, and a
key that is also the name of a stock can close a ring. Locks are taken in the order key, stock, row;
the theorem finds a transaction that waits for nobody among those that are furthest.

`AccountsAlwaysAgree` is about the sums of `TasksExplainStock`: what the tasks of a stock reserve,
and what they shipped, is what its columns say. A sum is defined with a fold, about which the prover
cannot induce; `UnitsCount` gives it a closed form, the size of a set of pairs (task, unit), proved
by a least counterexample: a smallest set of tasks for which the two differ cannot lose a task. From
then on a step moves one task from one sum to another (`UnitsAdd`), or leaves a sum alone
(`UnitsSame`). `Carries` adds that a dispatch still has the quantity of the task it is to move.

**SimulatorOffsetsProofs**: `TypeCorrect`, `NothingIsPassedOver`, `NoGapInTelemetry`,
`NoOffsetLeaks`, for any number of partitions, records, workers, steps and faults. The commit looks
only at the numbers of the tracker, so the invariant relates these to the records. `Tracked`:
`pending` is the interval from the committed to the last registered offset, and the committed one is
never finished, so that `complete` leaves the tracker at the first unfinished record. `Placed`: an
offset that is pending and not completed is in exactly one place, the loop, the backlog, a worker or
the queue of completions, and nothing else is in any of them. `Finishes`: what a simulation has
counted is in the topic, and a record in `completed` is done for good. `NothingPassedOver` and
`TelemetryHasNoGap` are then inductive with it. That the loop of `complete` ends at the least
unfinished offset is a fact about the least element of a set of naturals; it comes from the
well-foundedness of `<` as a relation, without an induction over an operator.

**DlqRecoveryProofs** (besides the bounds, the assumption says that there are finitely many payloads:
each is a record somebody has published): `TypeCorrect`, `RecoveredByOne`, `NothingPassesTheCatalog`,
`ExecutedPlansAreDone`, `OutcomesAreFinal`. The unique index of the audits is never what decides a
race, because of what the invariant says of the recoveries under way. `JobsHold`: each has the lock of
a pending entry and a key no audit has, and nobody else has either. `AuditsMatch`: a settled entry has
one audit, with its outcome and operator, and a pending one has none. `CopiesCounted` counts the copies
of an entry on the topics together with the sends nobody waits for any more, which may be appended
later: they are no more than the replays that were cut off, and one for the replay that has
succeeded or has sent its copy; by `SentIsThere` that copy is on its topic. `RunsCount` relates the
execution of a plan to its entries: a plan has one execution, and what it has counted is recovered in
the plan's way and by its operator, so that a plan which has counted all of its entries is done.

**BrowserPageProofs**: `TypeCorrect`, `PollingGoesOn`, `MapIsOnItsWay`, `IntentionsHaveOneEffect`,
`ShippingIsFinished`. The invariant is one conjunct per part (`GuardInv`, `MapInv`, `CommandsInv`);
a step of one part leaves the others alone, except for the network events and the reload. For the
commands it adds that the request the buttons are busy with carries the key that is kept, and that
requests that may still run are covered as if they had run.

**ConsoleProofs**, of `OperatorSession`: `SessionTypeCorrect`, `CodesAreNotWasted`, `LogoutEndsTheSession`,
`GoodSessionKept`. A request carries the cookies it was sent with, so the invariant says of every
request in flight which tokens those cookies and the edit of its answer can contain, and that whatever
could still bring back an ended session is older than the logout.

Of `ConsoleSync`: `TypeCorrect`, `NoOlderRow`, `NoRouteForgotten`, `FlagHasItsResync`. `Fresh` says that a load that has not heard the stream since it began has read rows at least as new as what
the stream brought; `Waiting` that only a load whose rows are shown waits for the map, with one
request, without which the failure of a request could end a load twice or leave the flag behind.

The same module has the pure functions of the lists, for inputs of any size:
`WindowShowsSelected`, `StaleIsLabelled` and `ReachedOnRoute` of `FleetView`,
`ComparatorConsistent` and `UrgentFirst` of `AlertList`.

Every safety property and every action property of a passing run is a theorem. Only model-checked is
liveness: `EventuallySettled`, `RequestsFinish`, `EveryRecordIsPassed`, `NewVersionSeen`, `MapComesBack`.

The prover has no rule for liveness under fairness, for ENABLED, or for induction over recursive
definitions and folds; where a theorem is about one, a closed form had to be found first.

## 7. Disagreements found

Checked by a run:

1. **Acknowledged once** (`delivery_alerts_once`). `AlertService.reconcile` reads without a lock and
   `DeliveryAlert` has no version: it can erase an acknowledgement, and a second operator's is
   recorded as if it were the first. `docs/architecture.md:73` says it is recorded once.
2. **Recovery of what was missed** (`console_resync`). A reconnected console loads a snapshot, but a
   load that began before the cut may end after it and replace its rows: the version it compares
   counts events that were heard, and the missed one was not. `docs/progress.md:493` says the
   missed state is recovered.

Stated in the modules but in no run, with the bounds that show them:

3. **Order of the events of an aggregate** (`KeyOrder` in `Outbox`; 2 events, 1 publisher, no retry
   key, 2 attempts, no crash). `docs/architecture.md:41` promises the order per aggregate. An event
   that failed waits for its backoff while the next one of its key is due; two instances can also
   publish them at the same time.
4. **Replay to the original topic** (`ReplayGoesHome` in `DlqRecovery`; 1 payload, 1 operator, 3
   letters). A dead letter that the catalog cannot store for 8 seconds is published to the telemetry
   dead letter topic with the dead letter topic as its newest origin; from there it is replayed to a
   dead letter topic. `docs/architecture.md:108` says the original topic.
5. **The key of a legacy order** (`BindingLost` in `OrderDispatch`). A retry binds its key to an
   order that was dispatched before keys were stored; a completing telemetry transaction that read
   the order before writes all columns back and the key is null again. `docs/progress.md:631` calls
   the binding durable. `OneCommandPerKey` and `KeyBindingKept` except exactly this case; without
   the exception both are violated.

One behaviour that no document rules out is written into a property instead: a created event that
is read again after its delivery was deleted stops the simulator at every start, because
`load_delivery_state` fails with 404, and no later record of the partition is passed
(`EveryRecordIsPassed` excepts deleted deliveries). It takes a stop between the last step and the
commit and an outage longer than the retention of delivered demo deliveries.

## 8. What is not modelled

- Two-dimensional geometry, ETAs, routes, distances: data that no property here tells apart.
- Daily KPIs and PDF reports: one query under an advisory lock, and layout.
- Security, tracing, metrics, body limits: stateless for the purposes of this project.
- Alert policies, the server side of the event stream, rate limiting, the plan cache of the analytics
  service: small components whose state no other component of this project depends on; listed with
  their hazards where they have one.
- Of the console: the lists of the other workspaces (loaded again at intervals, no stream), reports,
  markup, map layers and camera; the content security policy.
- Operations scripts, Terraform and compose files.
- The connection pool: a plan's execution holds one connection while each entry needs a second; its
  effect, an entry that fails, is in `DlqRecovery`.
- Clocks that differ between hosts: `occurredAt` is the clock of the simulator's host, and after a
  restart on a host whose clock is behind the remaining positions are stale to the consumer.
- PostgreSQL and Kafka themselves: row and advisory locks, unique indexes, SKIP LOCKED, partitions,
  consumer groups and the idempotent producer are modelled as the code relies on them.
- Keys that collide with the name of a stock in the warehouse's advisory locks: the instance keeps
  them apart (hazard at `WarehouseStockRepository.java:6`).

## Running

    tlc -workers 2 -config MCOutbox.cfg MCOutbox
    tlapm OutboxProofs.tla

`PROJECT.json` pairs every configuration with its module and lists the wrong versions with the
property that notices each.
