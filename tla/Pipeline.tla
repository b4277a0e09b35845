------------------------------ MODULE Pipeline ------------------------------
(***************************************************************************)
(* The service as a whole: the delivery of StreamDelivery, in which the    *)
(* call of Processor.Process is the transaction of OrderRepository,        *)
(* statement by statement, and what handleMessage records in the metrics.  *)
(* A producer publishes a script of events in order; the consumers take    *)
(* them up concurrently, so transactions run in any order.                 *)
(***************************************************************************)
EXTENDS OrderDomain, Integers, Sequences, FiniteSets

CONSTANTS Workers, Reclaimer, ReadCount, ReclaimCount, After, Count, MaxFaults,
          Orders, hashtext, TicksPerMicro, Free,
          Scripts   \* what the producer may publish: sequences of events

VARIABLES stream, delivered, pel, stale, run, phase, batch, start, successes, faults,
          orders, processed, history, pending, deadLetters, lock, pc, ev, cur, ws, result,
          script,   \* the events of this run's producer
          metrics   \* the counters of the running process

\* A Redis entry as StreamDelivery sees it, with the event it carries.  Publish
\* lets any status through; validateEvent refuses an unknown one.
Entry(e) == [id    |-> e.id,
             form  |-> IF isKnown(e.status) THEN "valid" ELSE "refused",
             event |-> e]

Published == UNION {{s[n] : n \in DOMAIN s} : s \in Scripts}

\* bound: entries ever published
MaxLen == CHOOSE n \in {Len(s) : s \in Scripts} : \A s \in Scripts : Len(s) <= n

\* the event_ids in use
Ids == {e.id : e \in Published}

R == INSTANCE OrderRepository WITH Procs    <- Workers \cup {Reclaimer},
                                   Events   <- Published,
                                   EventIDs <- Ids

\* Of the database, delivery sees which event_ids are in processed_events.
D == INSTANCE StreamDelivery WITH
        Messages <- {Entry(e) : e \in Published},
        durable  <- {i \in Ids : processed[i] # R!NotProcessed}

\* The reclaimer's consumer name is no worker's; positiveIntEnv lets no other read and
\* reclaim counts pass; a script is a sequence of events as Publish takes them.
ASSUME ReclaimerAssumption == Reclaimer \notin Workers
ASSUME SettingsAssumption == ReadCount \in Nat \ {0} /\ ReclaimCount \in Nat \ {0}
ASSUME ScriptAssumption == \A s \in Scripts : s \in Seq(R!OrderEvent)

delivery == <<stream, delivered, pel, stale, run, phase, batch, start, successes, faults>>
tables   == <<orders, processed, history, pending, deadLetters>>
database == <<tables, lock, pc, ev, cur, ws, result>>
vars     == <<delivery, database, script, metrics>>

\* The counters that say something of the tables or of the stream.
NoMetrics == [applied |-> 0, pendingReplayed |-> 0, deadLetters |-> 0,
              recoveredMessages |-> 0]

Init == /\ R!Init
        /\ D!Init
        /\ script \in Scripts
        /\ metrics = NoMetrics

-----------------------------------------------------------------------------
(* Delivery steps that do not touch the database                           *)

Idle == UNCHANGED <<database, script>>

Publish ==
    /\ Len(stream) < Len(script)
    /\ Idle
    /\ D!Publish(Entry(script[Len(stream) + 1]))
    /\ UNCHANGED metrics

Age(i) == Idle /\ D!Age(i) /\ UNCHANGED metrics

\* A new process has a new Collector.
Start == Idle /\ D!Start /\ metrics' = NoMetrics

StartFails == Idle /\ D!StartFails /\ UNCHANGED metrics
Cancel     == Idle /\ D!Cancel /\ UNCHANGED metrics
Exit       == Idle /\ D!Exit /\ UNCHANGED metrics

\* The process dies with all its connections: PostgreSQL rolls the open
\* transactions back.  A COMMIT that still takes effect is one just before.
Crash ==
    /\ pc'     = [c \in D!Consumers |-> "idle"]
    /\ ev'     = [c \in D!Consumers |-> R!NoRow]
    /\ cur'    = [c \in D!Consumers |-> NoStatus]
    /\ ws'     = [c \in D!Consumers |-> R!NoWrites]
    /\ result' = [c \in D!Consumers |-> R!NoResult]
    /\ lock'   = [k \in DOMAIN lock |-> Free]
    /\ UNCHANGED <<tables, script, metrics>>
    /\ D!Crash

\* Reading, claiming and stopping
Fetch(c) ==
    /\ Idle
    /\ \/ c \in Workers /\ (D!CallReadGroup(c) \/ D!ReadGroup(c)
                            \/ D!ReadGroupLost(c) \/ D!ReadGroupFails(c))
       \/ c = Reclaimer /\ D!ReclaimerStep
       \/ D!Stop(c)
    /\ UNCHANGED metrics

-----------------------------------------------------------------------------
(* handleMessage                                                           *)

\* The event of the message c is handling
Event(c) == D!Message(c).event

\* Process is called and the transaction begins.
Begin(c) ==
    /\ phase[c] = "work"
    /\ R!BeginTx(c, Event(c))
    /\ UNCHANGED <<delivery, script, metrics>>

\* A statement of the transaction other than COMMIT
Statement(c) ==
    /\ R!AcquireLock(c) \/ R!insertProcessedEvent(c) \/ R!TxBody(c)
    /\ UNCHANGED <<delivery, script, metrics>>

\* What ProcessEventTx returns decides how handleMessage goes on.
ProcessReturns(c) ==
    /\ \/ result'[c].status = "ok" /\ D!ProcessSucceeds(c)
       \/ result'[c].status = "error" /\ D!ProcessReturnsError(c)
    /\ UNCHANGED <<script, metrics>>

Commit(c) == R!Commit(c) /\ ProcessReturns(c)

\* The event is refused, the transaction cannot begin or is rolled back.
Fail(c) ==
    /\ phase[c] = "work"
    /\ R!RefuseEvent(c, Event(c)) \/ R!BeginFails(c, Event(c)) \/ R!Rollback(c)
    /\ ProcessReturns(c)

\* Mutant: a redelivered event counts as applied again.
RecordResultAgain(m, r) ==
    [m EXCEPT !.pendingReplayed = @ + r.replayed,
              !.applied         = @ + IF r.class \in {"APPLIED", "DUPLICATE_EVENT"}
                                      THEN 1 ELSE 0,
              !.deadLetters     = @ + IF r.class = "INVALID_TRANSITION" THEN 1 ELSE 0]

\* RecordResult, on the counters kept here
RecordResult(m, r) ==
    [m EXCEPT !.pendingReplayed = @ + r.replayed,
              !.applied         = @ + IF r.class = "APPLIED" THEN 1 ELSE 0,
              !.deadLetters     = @ + IF r.class = "INVALID_TRANSITION" THEN 1 ELSE 0]

RecordRecovered(m) == [m EXCEPT !.recoveredMessages = @ + 1]

\* c is about to acknowledge its message, with nothing left to record of it.
Recorded(c) == phase[c] = "ack" /\ result[c] = R!NoResult

\* Mutant: workers count their messages as recovered, too.
RecordAllRecovered(c) ==
    /\ phase[c] = "ack" /\ result[c] # R!NoResult
    /\ metrics' = RecordRecovered(RecordResult(metrics, result[c]))
    /\ ev'     = [ev EXCEPT ![c] = R!NoRow]
    /\ cur'    = [cur EXCEPT ![c] = NoStatus]
    /\ result' = [result EXCEPT ![c] = R!NoResult]
    /\ UNCHANGED <<delivery, tables, lock, pc, ws, script>>

\* After a success: the metrics.  A reclaimed message is counted as recovered
\* here, before the XACK, and /stats may be asked in between.
Record(c) ==
    /\ phase[c] = "ack" /\ result[c] # R!NoResult
    /\ metrics' = IF c = Reclaimer THEN RecordRecovered(RecordResult(metrics, result[c]))
                  ELSE RecordResult(metrics, result[c])
    /\ ev'     = [ev EXCEPT ![c] = R!NoRow]
    /\ cur'    = [cur EXCEPT ![c] = NoStatus]
    /\ result' = [result EXCEPT ![c] = R!NoResult]
    /\ UNCHANGED <<delivery, tables, lock, pc, ws, script>>

\* Then the XACK, its failure, or the simulated failure in place of it
Acknowledge(c) ==
    /\ Recorded(c)
    /\ Idle
    /\ D!Ack(c) \/ D!AckFails(c) \/ (c \in Workers /\ D!SkipAck(c))
    /\ UNCHANGED metrics

-----------------------------------------------------------------------------

ConsumerStep(c) == \/ Fetch(c) \/ Begin(c) \/ Statement(c) \/ Commit(c)
                   \/ Fail(c) \/ Record(c) \/ Acknowledge(c)

Next == \/ Publish
        \/ \E i \in pel : Age(i)
        \/ Start \/ StartFails \/ Cancel \/ Exit \/ Crash
        \/ \E c \in D!Consumers : ConsumerStep(c)

Spec == Init /\ [][Next]_vars

\* As in StreamDelivery: goroutines run, statements are answered, time passes and
\* the service is started again; and the producer publishes its script.
Fairness == /\ WF_vars(Publish) /\ WF_vars(Start) /\ WF_vars(Exit)
            /\ \A c \in D!Consumers : WF_vars(ConsumerStep(c))
            /\ \A i \in 1..MaxLen : WF_vars(Age(i))

FairSpec == Spec /\ Fairness

-----------------------------------------------------------------------------
(* Properties                                                              *)

\* What StreamDelivery takes for granted of Processor.Process is what the
\* transaction does: with ProcessEventTx in place of it, statement by statement
\* and with several consumers on the same order or even the same event, every
\* step is a step of StreamDelivery.  Success means that the event has become
\* durable, an error leaves both open (pool.go:182-207, reclaimer.go:137-163,
\* order_repository.go:67-213).
ImplementsDelivery == D!Spec

\* Rows of order_status_history
HistoryRows == Cardinality(UNION {{o} \X DOMAIN history[o] : o \in Orders})

\* /stats counts every change of an order once: applied and pending_replayed
\* never exceed the rows of order_status_history, and they add up to them as
\* soon as every result is recorded, unless a call failed or the process was
\* restarted, however often an entry whose XACK was skipped is delivered again;
\* nor are there ever more dead_letters than dead_letter_events
\* (metrics.go:77-102, pool.go:200-209, reclaimer.go:156-159).
ChangesCountedOnce ==
    LET counted == metrics.applied + metrics.pendingReplayed
    IN  /\ counted <= HistoryRows
        /\ /\ faults = 0
           /\ \A c \in D!Consumers : phase[c] = "ack" => Recorded(c)
           => counted = HistoryRows
        /\ metrics.deadLetters <= Cardinality({i \in Ids : deadLetters[i] > 0})

\* The message the reclaimer has counted and is about to acknowledge
CountedInHand == IF Recorded(Reclaimer) THEN 1 ELSE 0

\* RecordRecovered comes before the XACK, which may fail, so recovered_messages
\* is no count of entries "reclaimed and acknowledged" (docs/RUNBOOK.md:70); but
\* apart from the one message the reclaimer has in hand it exceeds them by one
\* per failed call at most, although the reclaimer may handle what a worker
\* handles at the same time and meet an entry again and again
\* (reclaimer.go:137-174).
RecoveredExceedsByFaults ==
    metrics.recoveredMessages <= Cardinality((1..delivered) \ pel) + CountedInHand + faults

\* The script holds the CREATED, PAID and SHIPPED of an order, in any order.
IsLifecycle == {script[n].status : n \in DOMAIN script} = {"CREATED", "PAID", "SHIPPED"}

\* End to end: the events CREATED, PAID and SHIPPED of an order, published in
\* any order and taken up by workers and the reclaimer in any other, bring the
\* order to SHIPPED, with nothing left pending in PostgreSQL or in Redis,
\* through failed calls, crashes, shutdowns and skipped acknowledgements.  This
\* is said of events whose timestamps are in lifecycle order, the only ones in
\* the scripts of MCPipeline: replayPending takes the rows by timestamp and stops
\* at the first that is not due, so that of other timestamps it does not hold
\* (PendingCannotYetBeApplied of OrderRepository)
\* (pool.go:139-243, reclaimer.go:84-185, order_repository.go:67-213, 464-551).
LifecycleCompletes ==
    IsLifecycle =>
        <>[](/\ \A o \in Orders : orders[o].status = "SHIPPED"
             /\ pending = {}
             /\ Len(stream) = Len(script) /\ delivered = Len(stream) /\ pel = {})

\* The events of each order were published in lifecycle order.
PublishedInOrder ==
    \A n \in 1..Len(script) :
        LET earlier == {m \in 1..(n - 1) : script[m].order = script[n].order}
            from    == IF earlier = {} THEN NoStatus
                       ELSE script[CHOOSE m \in earlier : \A k \in earlier : k <= m].status
        IN  <<from, script[n].status>> \in AppliedPairs

\* docs/RUNBOOK.md:280 on invalid transitions: "The producer or upstream system
\* is sending lifecycle-invalid events", so events published in lifecycle order
\* are not dead-lettered (state_machine.go:53-63 calls a cancellation that
\* overtakes the creation invalid).
InOrderNeverDeadLettered ==
    PublishedInOrder => \A i \in Ids : deadLetters[i] = 0
=============================================================================
