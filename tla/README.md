# Verification of the order ingestion service

TLA+ models of the service that reads order status events from a Redis stream,
applies them to PostgreSQL in one transaction each and acknowledges them, with
the TLC runs that check the models on small instances and TLAPS proofs of the
main safety properties for every size. `PROJECT.json` maps every definition to
the source lines it translates.

## 1. Inventory

    producer --XADD--> Redis stream --XREADGROUP--> worker pool --+
                          |  PEL                                   +--> processor --> repository --> PostgreSQL
                          +-------XAUTOCLAIM------> reclaimer -----+
                          <---------------XACK (after COMMIT)------+
    main.run starts, cancels and awaits pool and reclaimer; both count into the
    collector, which GET /stats reads together with Redis

| Component | State | Operations | What is hard | What makes it correct |
|---|---|---|---|---|
| Order state machine (`internal/domain`) | none | `EvaluateTransition` | nothing: a pure table | used through the repository's properties |
| Order repository (`internal/repository`, `migrations`) | `orders`, `processed_events`, `order_status_history`, `pending_events`, `dead_letter_events`, advisory locks | `ProcessEventTx`: validate, lock, insert, load, classify, apply / defer / reject, replay, commit | concurrent callers, redelivery, failure at each statement, a commit whose answer is lost, order of replay | no stale write; history is one legal lifecycle; each event in exactly one place; success is durable; each transaction is one atomic step |
| Redis queue (`internal/queue`) | stream, group position, pending entries list (PEL) | `EnsureGroup`, `Publish`, `ReadGroup`, `ClaimPending`, `Ack`, `QueueDepth`, `StreamLength`, `PendingCount` | replies lost after the effect, the cursor loop of `ClaimPending` failing half way, one bad entry in a reply | an entry handed out is never forgotten |
| Processor (`internal/service`) | none | `Process`, a pass-through | nothing | |
| Worker pool (`internal/worker/pool.go`) | goroutines with a batch each, shared counter of the acknowledgement-failure simulator | `Run`, `runWorker`, `handleMessage` | cancellation in a batch, a crash between commit and XACK | XACK only after commit; batches are finished on shutdown |
| Reclaimer (`internal/worker/reclaimer.go`) | a timer and a batch | `Run`, `reclaim`, `handleMessage` | takes over entries a worker is still processing | everything left pending is processed in the end |
| API runtime (`cmd/api/main.go`) | the context, open connections, goroutines, the HTTP server | start, serve, cancel, drain, exit | a start that fails half way, a signal before the server listens, a goroutine that misses the cancellation | connections outlive the workers; everything is closed; shutdown ends |
| Monitoring (`internal/monitoring`) | atomic counters | `RecordResult`, `RecordFailure`, `RecordRecovered`, `Snapshot`, the handler of `/stats` | counters and queue depths read one after the other while they change, counted before XACK | a response does not mislead; each change is counted once |
| Producer (`cmd/producer`) | the generated plan, a batch | `validate`, `generate`, `publishGenerated` | rounding of ratios, publication that fails half way | the totals asked for are the totals emitted, and the labels are true |
| Database pool (`internal/db`) | connections | open, ping, close | a ping that fails after the pool was made | nothing is left open |
| Configuration (`internal/config`) | holds no code | | | |

The hazards of this code, each at its line with the properties that watch it,
are the list `hazards` of `PROJECT.json`.

## 2. Modules

| Module | Models | Kind |
|---|---|---|
| `OrderDomain` | statuses, classifications, `EvaluateTransition` | pure operators |
| `OrderRepository` | `ProcessEventTx`, one action per SQL statement, any number of callers | specification and properties |
| `OrderLedger` | what the repository promises: one atomic step per event | abstract specification |
| `StreamDelivery` | stream, consumer group, workers, reclaimer, process | specification and properties |
| `Stats` | `GET /stats` beside `StreamDelivery` | extends `StreamDelivery` |
| `Pipeline` | the whole service: `StreamDelivery` and `OrderRepository` composed, with the metrics | composition and refinement |
| `Collector` | the counters, one atomic operation at a time | specification and properties |
| `ReclaimTiming` | the reclaimer against the clock | specification and properties |
| `Producer` | `cmd/producer` | specification and properties |
| `ApiRuntime` | `run()` of `cmd/api`, the database pool | specification and properties |
| `MCOrderRepository`, `MCStats`, `MCStreamDelivery`, `MCPipeline`, `MCProducer`, `MCReclaimTiming` | instances | for TLC |
| `OrderRepositoryProofs`, `OrderAccountProofs` | theorems about `OrderRepository`, the second also that it implements `OrderLedger` | for TLAPS |
| `StreamDeliveryProofs`, `StatsProofs`, `PipelineProofs`, `CollectorProofs`, `ProducerProofs`, `ApiRuntimeProofs` | theorems about the module of that name | for TLAPS |

Definitions marked *Mutant* are variants of the definition that follows them, with
a plausible bug in it. No specification uses them: each is there to be put in
place of the original, to see that the properties notice.

### OrderRepository

The five tables are variables (`orders`, `processed`, `history`, `pending`,
`deadLetters`). A caller has a statement to execute next (`pc`), its event
(`ev`), the Go variable `current` (`cur`), the uncommitted writes of its
transaction (`ws`) and its result. `ws` becomes visible only in `Commit`
(READ COMMITTED, which the code leaves at its default). Two things of an open
transaction are visible to others: `lock`, the transaction-level advisory locks
on `hashtext(order_id)`, and the `event_id`s it has written, on which a
concurrent `INSERT` of the same key waits (`WrittenElsewhere`).

The statements follow the code: `BeginTx` (after `validateEvent`),
`AcquireLock`, `insertProcessedEvent` (a conflict jumps to commit as
`DUPLICATE_EVENT`), `loadCurrentStatus`, the four branches of the switch
(`Apply`, `SkipDuplicateStatus`, `Defer`, `Reject`), the rounds of
`replayPending` (`ReplayApply`, `ReplaySkip`, `ReplayReject`, `ReplayDone`) and
`Commit`. `Rollback` may happen at every statement: an error, a refused COMMIT or
a dead caller. `Commit` may also report an error although the server committed.
The statements of one branch (upsert, history, outcome) are one action: nobody
sees them before the commit, and a failure in between has the effect of
`Rollback`.

Data kept abstract: an `event_id` is a positive number that stands for a text
key in collation order; a timestamp is a number of ticks, `TicksPerMicro` of
them to a microsecond, so that the truncation of `time.Time` to `TIMESTAMPTZ`
is modelled by what it does; a payload is an object, empty or something else.

### OrderLedger

A ledger with a trail of applied events per order and a fate per event. One
action takes in a new event: it leaves the order as it is (`Record`) or moves
it along a path of legal transitions, this event first and deferred events of
the same order after it (`Advance`). `OrderRepository!ImplementsLedger` maps
`history` to the trail and `processed` to the fates.

### StreamDelivery

`stream`, `delivered` (last-delivered position of the group), `pel` and `stale`
(the pending entries idle for at least `RECLAIM_MIN_IDLE_SECONDS`) are Redis;
`run` is the process; `phase` and `batch` are the goroutines of the workers and
the reclaimer; `start` is the XAUTOCLAIM cursor; `successes` the counter of the
simulator. The owner of a pending entry is left out because no code reads it.
`Processor.Process` is represented by what `OrderRepository` shows of it:
success means durable (`SuccessIsDurable`), an error leaves it open. An entry is
valid, refused (it parses, but `validateEvent` rejects it every time) or malformed.

Each call has the outcomes the code must cope with: `ReadGroup` succeeds, fails
without effect, or fails after Redis has handed out entries (`ReadGroupLost`: the
reply was lost or one entry does not parse). `ClaimPending` is one action per
XAUTOCLAIM round, and a failing round drops what earlier rounds claimed. How many
entries an XAUTOCLAIM scans before it gives up is Redis's choice, so every
choice is allowed; the branch for a nil reply is left out because XAUTOCLAIM
always answers with a cursor and a list. `Cancel` may come at any time; `Stop` is
possible only where the code looks at the context; `Crash` loses every batch.

### Stats

The handler of `/stats` asks Redis for the lag of the group, the length of the
stream and the number of pending entries, one action each, while `StreamDelivery`
goes on in between. `QueueDepth` falls back to the length when the lag is unknown
or XINFO fails. A failed question leaves its depth 0 and is remembered. The
collector's part of the response is in `Collector`.

### Pipeline

Instances of `StreamDelivery` (`D`) and `OrderRepository` (`R`) over shared
variables: between `D`'s start of a message and its acknowledgement a consumer runs
the statements of `R`'s transaction, what `ProcessEventTx` returns decides which
step of `D` follows, and `D`'s set of durable events is no variable any more but
read off `processed_events`. A crash rolls back the open transactions. The
collector's counters that speak of the tables or the stream are kept as numbers.
After a success, `RecordResult` and `RecordRecovered` are one step (`Record`) and the
XACK, its failure or its omission is the next (`Acknowledge`), so everything else,
a look at the counters included, can happen in between. What can be seen between the
single additions is the subject of `Collector`.

### Collector

Each `Record` function is a list of atomic additions, performed one by one; a
snapshot is eleven loads in the order of the code. The history variable `recorded`
sums up what the calls set out to add; no action depends on it. Uptime and throughput
follow from the one load of `processed` and are left out.

### ReclaimTiming

`StreamDelivery` lets time pass in any way. Here there is a clock: entries grow
idle tick by tick, the reclaimer claims the `Count` oldest stale ones every
`Interval` and handling them takes up to `Work` ticks more. Some entries are
refused by `Process` every time and stay.

### Producer

A ratio is represented by the count `ratioCount` makes of it. `validate` guards
the run; the three loops of `generate` begin orders, `emitUnique` emits their
events and duplicates, and the callback of `publishGenerated` fills and flushes
batches. A publication may fail with or without its effect. An event's identifier
and timestamp are one number. Retries of the Redis client itself are left out.

### ApiRuntime

The stages of `run()` in order, each with its failing return; the deferred calls;
the two background goroutines, which end some time after the cancellation (that
they do is `ShutdownCompletes` of `StreamDelivery`); the server, its requests and
the goroutine that calls `Shutdown`; signals, which are deadly once `stop()` has
been called. `/healthz` and `/metrics` answer with constants and are requests like
any other.

## 3. Runs

| Run | Instance | Shows |
|---|---|---|
| `repository_lifecycle` | 2 callers, 2 orders, 4 identifiers, 8 events | `TypeOK`, `NoStaleWrite`, `HistoryIsLifecycle`, `EventAccountedOnce`, `SuccessIsDurable`, `CommittedIsFinal`, the refinement `ImplementsLedger` and, with timestamps in lifecycle order, `PendingCannotYetBeApplied` |
| `repository_progress` | 3 callers, 2 orders, 1 identifier | `TransactionEnds`: waiting for locks and for keys never forms a cycle |
| `repository_blocked_replay` | a shipment and a payment in one microsecond | violation, finding 1 |
| `delivery_stats` | 2 workers, 2 entries of 3 kinds, 1 fault, a request with 1 failed question | `NothingLost`, `BatchFinished`, and of `/stats` `StatsTypeOK`, `DrainedMeansDone`, `BacklogWithinStream` |
| `delivery_recovery` | 2 workers, 2 entries of 3 kinds, 2 faults | `TypeOK`, `ShutdownCompletes`, `RecoveredUnlessPoisoned`, with claims of two and so up to one refused entry |
| `delivery_poison` | an entry that does not parse | violation, finding 2 |
| `pipeline_lifecycle` | a worker and the reclaimer, 4 scripts, 1 fault, 1 skipped XACK | the refinement `ImplementsDelivery`, `ChangesCountedOnce`, `RecoveredExceedsByFaults` and, with timestamps in lifecycle order, `LifecycleCompletes` |
| `pipeline_cancelled` | 2 workers, a creation and a cancellation | violation, finding 3 |
| `collector` | 2 recorders, 1 reader, 3 calls | `TypeOK`, `PartsAccountForProcessed`, `NoAdditionLost` |
| `producer_plan` | all mixtures of counts for up to 7 events, batches of 2 and 3 | `TypeOK`, `SummaryIsTrue`, `LabelsAreTrue`, `ShortOfDuplicatesOnly`, `RunEnds` |
| `reclaim_capacity` | all settings with interval up to 3, idle time up to 4, count up to 2; 4 entries, any of them refused | `TypeOK`, `RecoversBelowCapacity` |
| `api_shutdown` | 2 requests | `TypeOK`, `ResourcesOutliveBackground`, `NothingLeftOpen`, `CutOnlyWhileDraining`, `StopsWhenTold` |

### Bounds

- *Callers*: the repository's properties are about a caller against everybody
  else, so two suffice for safety; a caller that waits for a lock whose holder waits
  for a key that a third holds takes three: `TransactionEnds`.
- *Events*: each may be submitted any number of times, so redelivery is not
  bounded. The events of `LifecycleEvents` reach every branch of the switch and of the
  replay loop: the longest lifecycle, a second payment to be skipped, a cancellation
  that makes a deferred shipment impossible. The second order has two of the same
  identifiers, which lets the primary key and not the lock decide.
- `TicksPerMicro = 2`: the least at which truncation merges two timestamps.
- `MaxLen` bounds the entries ever published. Two are enough for a batch with a
  rest, for a claim that takes two rounds, and for a malformed or refused entry with a
  neighbour. The scripts of `Pipeline` with three make a claim of two stop early.
- `MaxFaults = 2`: failed calls, crashes and shutdowns share one budget, so that a
  fault can hit the recovery from another one. The budget is finite because
  nothing is delivered if every call fails for ever. In `delivery_stats` and in
  `Pipeline`, which have many more steps in between, it is 1; `NothingLost` is proved
  for any number of faults.
- *Scripts* of `Pipeline`: a creation and a cancellation (an event dead-lettered or
  not, by order of arrival), an event that is refused, and a lifecycle in two orders
  that defer. Two consumers meet on one event when the reclaimer takes over what a
  worker is still processing.
- The counter of the failure simulator is capped where the code stops telling its
  values apart.
- `MaxCalls = 3` of `Collector` is one more than there are recorders, so that one of
  them records twice while a snapshot is taken.
- *Producer*: seven events hold the longest scenario (four events), an out-of-order
  one and the rest of a cut-off lifecycle, and more duplicates than unique events.
- *ReclaimTiming*: intervals shorter than, equal to and longer than the idle time,
  with fewer and more refused entries than the reclaimer can stand.

The deadlock check is off where the program ends: `producer_plan` and
`api_shutdown`.

### Fairness

- `OrderRepository`: a statement sent is answered in the end (weak fairness of
  `Statement`); PostgreSQL queues those who wait for an advisory lock or for
  another transaction's key, so a waiter is not overtaken for ever (strong
  fairness of `AcquireLock` and `insertProcessedEvent`). Nothing makes a caller
  submit an event, and nothing makes a statement fail.
- `StreamDelivery`: the Go runtime schedules every goroutine and its calls return
  (weak fairness per consumer; which outcome a call has is not fair); time passes,
  so an unacknowledged entry becomes stale (`Age`); the service is started again
  after it went down, as `docs/RUNBOOK.md` has the operator do (`Start`). Publishing,
  faults and cancellation are never forced.
- `Pipeline`: as in `StreamDelivery`, and the producer publishes its script. A
  transaction in it is alone with one other consumer, so weak fairness is enough.
- `Producer`: one goroutine whose calls return (weak fairness of `Next`).
- `ReclaimTiming`: the clock runs and the goroutine is scheduled (weak fairness of
  `Next`).
- `ApiRuntime`: `run()` and its goroutines are scheduled and the timeout of `Shutdown`
  comes. Nothing makes a server that serves stop, no signal is forced, and a handler may
  hang: `Respond` and `ShutdownReturns("done")` are not fair.

## 4. Proofs

TLAPS proves for every value of the constants that satisfies the assumptions in
the modules:

- `OrderRepository`: events have the fields of `OrderEvent`, `hashtext` is defined on
  the orders and may map different orders to one key, a microsecond is at least one
  tick;
- `StreamDelivery`, `Pipeline`: counts are positive where the code makes them so, the
  reclaimer is not one of the workers, scripts are sequences of events;
- `Collector`: finitely many recorders; `Stats`: finitely many failed questions;
- `Producer`: a configuration has the fields of `producerConfig`, with any integers.

| Theorem | States |
|---|---|
| `RepositoryTypeCorrect` | `Spec => []TypeOK` of `OrderRepository` |
| `RepositoryNeverWritesStale` | `Spec => []NoStaleWrite` |
| `RepositoryKeepsLifecycle` | `Spec => []HistoryIsLifecycle` |
| `RepositoryAccountsOnce` | `Spec => []EventAccountedOnce` |
| `RepositorySuccessIsDurable` | `Spec => []SuccessIsDurable` |
| `RepositoryCommittedIsFinal` | `Spec => CommittedIsFinal` |
| `RepositoryImplementsLedger` | `Spec => ImplementsLedger` |
| `RepositoryLeavesNothingDue` | `Spec => []PendingCannotYetBeApplied`, provided `PaidSortsFirst` |
| `DeliveryTypeCorrect` | `Spec => []TypeOK` of `StreamDelivery` |
| `DeliveryLosesNothing` | `Spec => []NothingLost` |
| `DeliveryFinishesBatches` | `Spec => BatchFinished` |
| `StatsTypeCorrect` | `StatsSpec => []StatsTypeOK` |
| `StatsBacklogWithinStream` | `StatsSpec => []BacklogWithinStream` |
| `StatsDrainedMeansDone` | `StatsSpec => []DrainedMeansDone` |
| `PipelineImplementsDelivery` | `Spec => ImplementsDelivery` of `Pipeline` |
| `RecoveredExceedsByFaultsHolds` | `Spec => []RecoveredExceedsByFaults` of `Pipeline` |
| `ChangesCountedOnceHolds` | `Spec => []ChangesCountedOnce` of `Pipeline` |
| `CollectorTypeCorrect` | `Spec => []TypeOK` of `Collector` |
| `CollectorPartsAccountForProcessed` | `Spec => []PartsAccountForProcessed` |
| `CollectorLosesNoAddition` | `Spec => []NoAdditionLost` |
| `ProducerTypeCorrect` | `Spec => []TypeOK` of `Producer` |
| `ProducerSummaryIsTrue` | `Spec => []SummaryIsTrue` |
| `ProducerLabelsAreTrue` | `Spec => []LabelsAreTrue` |
| `ProducerShortOfDuplicatesOnly` | `Spec => []ShortOfDuplicatesOnly` |
| `RuntimeTypeCorrect` | `Spec => []TypeOK` of `ApiRuntime` |
| `RuntimeResourcesOutliveBackground` | `Spec => []ResourcesOutliveBackground` |
| `RuntimeNothingLeftOpen` | `Spec => []NothingLeftOpen` |
| `RuntimeCutsOnlyWhileDraining` | `Spec => []CutOnlyWhileDraining` |

*Repository, one order.* Neither `NoStaleWrite` nor `HistoryIsLifecycle` is inductive
alone. `SerialInv` adds two facts. `LockHeld`: a caller past `AcquireLock` holds the
lock of its order's key, so no two callers are past the lock with the same order.
`Continuation(p)`: caller p has written nothing before its INSERT and no transition
before classification; from then on its writes continue the committed status of its
order by legal transitions, and `cur` is the status they lead to, which is the one it
will store. A commit of another caller changes the tables of another order only (by
`LockHeld`), and p's own commit appends its continuation to a legal history.

*Repository, all orders.* `EventAccountedOnce` and `SuccessIsDurable` relate tables
that are keyed by `event_id` with tables that are keyed by order, and two callers may
use one `event_id` for different orders under different locks. `AccountInv` adds to
`SerialInv`: `Booked`, the committed rows agree with their outcomes; `Accounts(p)`, the
write set of an open transaction would leave them so; `Exclusive`, no two open
transactions have written the same `event_id`: the primary key sees to it for an event
that is new, the order's lock for one that is replayed; `Answered`, success is reported
only for an event in the form in which it is stored. `CommittedIsFinal` and `ImplementsLedger` follow step by
step: only `Commit` changes a table, and what it changes are rows that were absent or
deferred, in the order of the one caller that holds its lock.

*Repository, deferred events.* `PendingCannotYetBeApplied` is false in general: finding
1 is its counterexample. `RepositoryLeavesNothingDue` proves it from one hypothesis on
the events, `PaidSortsFirst`: no shipment comes before the payment of its order in
the order in which `replayPending` takes deferred events (timestamp, then `event_id`).
The events of `repository_lifecycle` satisfy it, those of `repository_blocked_replay` do
not. `ReplayInv` adds that only payments and shipments are ever deferred, so the first
event that is still out of order is a shipment in front of nothing but shipments, and
that a transaction about to commit leaves none deferred that its own writes would let
through (`NothingDue`); other callers' commits concern other orders, by `SerialInv`.

*Delivery.* `NothingLost` is disturbed by XACK only, and that step is safe because
of the order of the calls in `handleMessage`: `AckIsCommitted` says that a consumer
about to acknowledge has seen the event of the first message in its batch become
durable. `durable` never shrinks and the stream is only appended to. `BatchFinished`
needs that a consumer outside its message loop has nothing in hand (`EmptyHanded`).

*GET /stats.* The depths are read at three moments of a moving system. `StatsInv`
records for each place of the handler what the answers so far have established, in
terms that later steps cannot undo (`NextOnward`: the stream and the group's position only
grow, and only what lies behind that position comes to the pending list).
`DrainedMeansDone` then rests on `NothingLost` at the moment of the last question.

*Pipeline.* Handing a message to `ProcessEventTx`, statement by statement, has to be
one `Process` of `StreamDelivery` or one failure of it. `PipelineInv`: a transaction is
open only while its consumer handles the message it was begun for (`Callers`,
`Handling`), and whatever else it has written was already recorded by an earlier one
(`Deferred`, `Writing`). So COMMIT makes one event durable, and everything else stutters.

*Pipeline, the counters.* Numbers that are compared with sizes of sets are not
inductive; sets are. `RecoveryInv` says that there is a set of entries, all gone from the
pending list and disjoint from what the reclaimer has in hand, that is as large as
`recovered_messages` but for the failed calls and the message that is counted and not
yet acknowledged (`CountedInHand`); the reclaimer has no entry in hand twice,
and `ClaimPending` goes on behind what it has claimed. `TallyInv` says of each open
transaction that its write set has as many history rows as its result will report, that
its event is recorded by nobody else once it was inserted (`Inserted`), and that no two
open transactions have inserted one event (`Distinct`, the primary key).
`CountInv` then splits the rows of `order_status_history`: the counted ones, and for each
consumer those it has committed and not counted yet, pairwise disjoint; until a call
fails they are all the rows, because the first process starts on empty tables
(`FirstRun`). The dead letters are split in the same way.

*Collector.* `processed` equals the sum of its parts but for the recorders between
their two additions, one each (`Balanced`); a snapshot loads `processed` first, so what
it loads later can only be larger (`SnapshotInv`). `NoAdditionLost` needs that a call
adds to each counter at most once (`Single`); what is outstanding is a set with one
element per unit, from which `Add` removes those of one recorder.

*Producer.* The counters move when an event is buffered, long before it is published.
They are compared with the log: the stream followed by what the running flush has still
to publish, which `Publish` and the end of a flush leave as it is. `Books` says that the
log holds what the counters say and that the numbers 1 to `eventSequence` are those
met in the log and in the script. `Plan` says how many events and flags the loops have
used up, which links the sizes that `validate` adds up to what the loops emit; `Paired`,
that every unique event gets its duplicate as long as duplicates are wanted.

*Producer, labels.* `LabelsAreTrue` asks where an order is after the events before it,
the end of a path through the statuses it has met. Lemmas determine that status for
the sets of statuses the scenarios pass through. `LabelInv`: the labels along the whole
log are right, and each event of the script will be when those before it have been
emitted (`Fits`). `emitUnique` moves one event from the script to the log, a duplicate
adds no status its order has not met, a new order has met nothing (`Books`), and a
failed XADD only cuts the log off.

*Runtime.* `Held`: at every stage the deferred calls close exactly what is open, and
goroutines run only between their start and `background.Wait()`. `Ending`: how `run()`
can come to its end without an error.

*Model-checked only.*

- Liveness (`TransactionEnds`, `ShutdownCompletes`, `RecoveredUnlessPoisoned`,
  `LifecycleCompletes`, `RecoversBelowCapacity`, `RunEnds`, `StopsWhenTold`) needs fairness
  and ENABLED, which the proof system does not handle.
- `PendingCannotYetBeApplied` without `PaidSortsFirst`: it is false (finding 1).
- `TypeOK` of `ReclaimTiming`: that module exists for a liveness property, and nothing is
  proved on top of its types.

Every other invariant and every action property that a run checks is proved, and so
are both refinements.

## 5. Findings

Shown by a run:

1. *A deferred event can stay deferred although its turn has come.*
   `replayPending` returns at the first pending event that is still out of order
   (`order_repository.go:540`). If SHIPPED sorts before PAID (an earlier timestamp,
   or the same microsecond and a smaller `event_id`), CREATED does not replay PAID,
   and only another applied event of the order would. `migrations/001_init.sql:65`
   and `docs/DATA_FLOW.md:120` say otherwise.
2. *One entry that does not parse holds back its neighbours.* `ReadGroup` and
   `ClaimPending` fail for the whole reply. Entries claimed together become idle
   together, so each later claim can fail in the same way; `docs/RUNBOOK.md:254`
   says the reclaimer should process them. The counterexample has them aging
   together for ever; a claim limit that separates them would let the valid one
   through.
3. *A cancellation that overtakes its creation is lost to the order.*
   `EvaluateTransition` defers PAID and SHIPPED of an unknown order but calls CANCELLED
   invalid (`state_machine.go:53`). With two workers a cancellation published right
   after the creation may commit first: it is dead-lettered and the order stays
   CREATED. `docs/RUNBOOK.md:280` blames the sender for invalid transitions;
   `reports/sample-run-100k.md` counts 1424 of them where the producer sent 1000.

Noticed while modelling, each a difference between a document and the code; the
properties state what the code does:

- `last_event_timestamp` bounds nothing: it is written and never read, and an older
  event moves it backwards. ADR 006 calls it the ordering boundary.
- An unknown status is never dead-lettered: `validateEvent` refuses it before
  `EvaluateTransition` can classify it, so the entry stays pending for ever
  (`NothingLost` keeps it there). ADR 004 and `docs/ERD.md` call it an invalid
  transition that is stored.
- Refused entries starve the others when there are enough of them:
  `RecoveredUnlessPoisoned` supposes fewer of them than one claim takes, which is
  enough whatever the clock does; `RecoversBelowCapacity` says how many the reclaimer
  stands. With the settings of
  `docker-compose.yml` (interval 5, idle time 10, count 50) a hundred at the head of
  the pending list use up every claim.
- `dead_letters` does not count the events that a replay dead-letters:
  `docs/RUNBOOK.md:67` says otherwise; `ChangesCountedOnce` states what is left.
- `recovered_messages` counts before the XACK (`reclaimer.go:158`, `:163`); when that
  fails, the entry stays pending and is counted again with the next claim.
  `docs/RUNBOOK.md:70` calls the counter "pending Redis messages reclaimed and
  acknowledged". `RecoveredExceedsByFaults` bounds the excess: one for the message in
  hand, which `/stats` can show without any failure, and one per failed call.
- `validate` accepts more duplicates than there are unique events, although
  `emitUnique` emits at most one duplicate for each: `generate` then fails after full
  batches have been published. `ShortOfDuplicatesOnly` shows that this is the only
  such configuration.
- `run()` does not wait for `Shutdown` to return, so a request that is being answered
  can be cut off although the ten seconds are not over. `CutOnlyWhileDraining` does not
  exclude that; it says that without an error this is the only time it can happen.

## 6. Not modelled

- Payload contents, reasons, `created_at` and `updated_at`, log lines, the layout of
  `/stats` and of the producer's summary: no decision depends on them.
- The parsing of flags and environment variables: a configuration is valid or not.
- Uptime and throughput.
- `internal/config` holds no code.

## 7. Plan

Done, in this order: `OrderDomain`, `OrderRepository`, `OrderLedger`,
`StreamDelivery`, their first theorems; then `Producer`, `Collector`, `Stats`,
`Pipeline`, `ReclaimTiming` and `ApiRuntime`; then the theorems of section 4, the
counters of `Pipeline`, the deferred events and the producer's labels last. Every
component that keeps state has a module.

What would be next, should the code change:

1. If `replayPending` goes on behind an event that is still out of order, the hypothesis
   of `RepositoryLeavesNothingDue` becomes unnecessary and finding 1 disappears.
2. If `last_event_timestamp` comes to be read, a property of it belongs in
   `OrderRepository`.
