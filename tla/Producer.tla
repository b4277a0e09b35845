------------------------------ MODULE Producer ------------------------------
(***************************************************************************)
(* cmd/producer: generate makes up orders whose events are in lifecycle    *)
(* order, out of order on purpose, or end in a transition that must be     *)
(* rejected, and repeats some of them; publishGenerated publishes them in  *)
(* batches.                                                                *)
(*                                                                         *)
(* An event's identifier and its timestamp are numbered together (newEvent *)
(* and reserveTimes advance in step), so one number stands for both.  The  *)
(* seeded random choice of a lifecycle is any choice.  Payloads, progress  *)
(* lines and the printed layout are left out, and so are the retries the   *)
(* Redis client may make by itself: an XADD takes effect at most once.     *)
(***************************************************************************)
EXTENDS OrderDomain, Integers, Sequences, FiniteSets

CONSTANT Configs   \* the configurations the producer may be started with

\* The number ratioCount(total, ratio) yields for each of the three ratios
\* stands for the ratio.  Any number in 0..total is the floor of total * ratio
\* for some ratio between 0 and 1; any other number stands for a ratio outside.
\* redis: address, stream and group are all given.
producerConfig == [total : Int, duplicates : Int, outOfOrder : Int, invalid : Int,
                   batchSize : Int, redis : BOOLEAN]

ASSUME ConfigAssumption == Configs \subseteq producerConfig

VARIABLES config,              \* the configuration of this run
          stage,               \* where publishGenerated is
          index,               \* loop index of the stage
          script,              \* generated events of the current order, not yet emitted
          due,                 \* the duplicate that emitUnique still has to emit
          duplicatesRemaining, \* duplicates still to emit
          orderSequence,       \* orders begun, the UniqueOrderIDs of the summary
          eventSequence,       \* events made
          summary,             \* what generate has counted
          batch,               \* buffered events
          sent,                \* how many of them the running flush has published
          stream,              \* what has been added to the Redis stream
          result               \* how the run ended, "" while it runs

generator == <<index, script, due, duplicatesRemaining, orderSequence,
               eventSequence, summary>>
vars == <<config, stage, generator, batch, sent, stream, result>>

NoCounts == [total |-> 0, unique |-> 0, duplicate |-> 0, outOfOrder |-> 0, invalid |-> 0]

-----------------------------------------------------------------------------
(* validate                                                                *)

\* paid before created takes 2 events and shipped before paid 3, in turn
outOfOrderScenarioSize(count) == 2 * ((count + 1) \div 2) + 3 * (count \div 2)

uniqueTarget(c) == c.total - c.duplicates

validate(c) ==
    /\ c.total > 0
    /\ c.batchSize > 0
    /\ c.redis
    /\ {c.duplicates, c.outOfOrder, c.invalid} \subseteq 0..c.total
    /\ c.duplicates > 0 => uniqueTarget(c) # 0
    /\ outOfOrderScenarioSize(c.outOfOrder) + 4 * c.invalid <= uniqueTarget(c)

-----------------------------------------------------------------------------
(* Scenarios: the events of order o, the first of which has number i       *)

Event(o, i, s, flag) == [order |-> o, id |-> i, status |-> s, flag |-> flag]

paidBeforeCreated(o, i) == << Event(o, i + 1, "PAID", "outOfOrder"),
                              Event(o, i, "CREATED", "") >>

\* Mutant: the payment is sent before the creation, too.
shippedBeforePaidReversed(o, i) == << Event(o, i + 2, "SHIPPED", "outOfOrder"),
                                      Event(o, i + 1, "PAID", ""),
                                      Event(o, i, "CREATED", "") >>

shippedBeforePaid(o, i) == << Event(o, i + 2, "SHIPPED", "outOfOrder"),
                              Event(o, i, "CREATED", ""),
                              Event(o, i + 1, "PAID", "") >>

cancelledAfterShipped(o, i) == << Event(o, i, "CREATED", ""),
                                  Event(o, i + 1, "PAID", ""),
                                  Event(o, i + 2, "SHIPPED", ""),
                                  Event(o, i + 3, "CANCELLED", "invalid") >>

lifecycles == { <<"CREATED">>, <<"CREATED", "PAID">>, <<"CREATED", "CANCELLED">>,
                <<"CREATED", "PAID", "SHIPPED">>, <<"CREATED", "PAID", "CANCELLED">> }

\* a lifecycle cut off where only count events are wanted
inLifecycleOrder(o, i, lifecycle, count) ==
    LET n == IF Len(lifecycle) > count THEN count ELSE Len(lifecycle)
    IN  [k \in 1..n |-> Event(o, i + k - 1, lifecycle[k], "")]

-----------------------------------------------------------------------------
(* generate                                                                *)

Init == /\ config \in Configs
        /\ stage  = "validate"
        /\ index  = 0
        /\ script = <<>>
        /\ due    = <<>>
        /\ duplicatesRemaining = 0
        /\ orderSequence = 0
        /\ eventSequence = 0
        /\ summary = NoCounts
        /\ batch  = <<>>
        /\ sent   = 0
        /\ stream = <<>>
        /\ result = ""

Fail(why) == /\ result' = why
             /\ stage'  = "done"
             /\ UNCHANGED <<config, generator, batch, sent>>

\* parseConfig and generate validate before anything is published.
Refuse == /\ stage = "validate"
          /\ ~validate(config)
          /\ Fail("refused")
          /\ UNCHANGED stream

\* run() could not create the consumer group.
EnsureGroupFails == /\ stage = "validate"
                    /\ validate(config)
                    /\ Fail("failed")
                    /\ UNCHANGED stream

Generate == /\ stage = "validate"
            /\ validate(config)
            /\ stage' = "outOfOrder"
            /\ duplicatesRemaining' = config.duplicates
            /\ UNCHANGED <<config, index, script, due, orderSequence, eventSequence,
                           summary, batch, sent, stream, result>>

\* No event of the order begun last is left, and no flush is under way.
OrderEmitted == script = <<>> /\ due = <<>> /\ Len(batch) < config.batchSize

\* nextOrderID, reserveTimes and newEvent for every event of the order
BeginOrder(s) == /\ OrderEmitted
                 /\ script' = s
                 /\ index'  = index + 1
                 /\ orderSequence' = orderSequence + 1
                 /\ eventSequence' = eventSequence + Len(s)
                 /\ UNCHANGED <<config, stage, due, duplicatesRemaining, summary,
                                batch, sent, stream, result>>

generateOutOfOrder ==
    /\ stage = "outOfOrder"
    /\ index < config.outOfOrder
    /\ BeginOrder(IF index % 2 = 0
                  THEN paidBeforeCreated(orderSequence + 1, eventSequence + 1)
                  ELSE shippedBeforePaid(orderSequence + 1, eventSequence + 1))

generateInvalid ==
    /\ stage = "invalid"
    /\ index < config.invalid
    /\ BeginOrder(cancelledAfterShipped(orderSequence + 1, eventSequence + 1))

\* Mutant: the lifecycle is not cut off.
generateNormalWhole ==
    /\ stage = "normal"
    /\ uniqueTarget(config) > summary.unique
    /\ \E lifecycle \in lifecycles :
          BeginOrder(inLifecycleOrder(orderSequence + 1, eventSequence + 1, lifecycle, 3))

generateNormal ==
    /\ stage = "normal"
    /\ uniqueTarget(config) > summary.unique
    /\ \E lifecycle \in lifecycles :
          BeginOrder(inLifecycleOrder(orderSequence + 1, eventSequence + 1, lifecycle,
                                      uniqueTarget(config) - summary.unique))

\* Mutant: the loop ends after an order, not before one.
LoopEndsAfterOrder(from, count, to) ==
    /\ stage = from
    /\ OrderEmitted
    /\ index >= count /\ index > 0
    /\ stage' = to
    /\ index' = 0
    /\ UNCHANGED <<config, script, due, duplicatesRemaining, orderSequence,
                   eventSequence, summary, batch, sent, stream, result>>

\* The loop of one kind of scenario is over.
LoopEnds(from, count, to) ==
    /\ stage = from
    /\ OrderEmitted
    /\ index >= count
    /\ stage' = to
    /\ index' = 0
    /\ UNCHANGED <<config, script, due, duplicatesRemaining, orderSequence,
                   eventSequence, summary, batch, sent, stream, result>>

\* All unique events are emitted: generate compares what it counted with what
\* was asked for.
GenerateReturns ==
    /\ stage = "normal"
    /\ OrderEmitted
    /\ uniqueTarget(config) <= summary.unique
    /\ \/ /\ summary.total # config.total
          /\ Fail("short")
       \/ /\ summary.total = config.total
          /\ stage' = "flush"
          /\ UNCHANGED <<config, generator, batch, sent, result>>
    /\ UNCHANGED stream

\* The callback of publishGenerated appends to the batch; a full one is flushed
\* before the callback returns.
emit(e) == /\ Len(batch) < config.batchSize
           /\ batch' = Append(batch, e)
           /\ UNCHANGED <<config, stage, index, orderSequence, eventSequence,
                          sent, stream, result>>

\* The counters of the summary that go up for a unique event.
Counts(flag) == {"total", "unique"} \cup (IF flag = "" THEN {} ELSE {flag})

Bump(names) == [f \in DOMAIN summary |->
                   IF f \in names THEN summary[f] + 1 ELSE summary[f]]

\* Mutant: the duplicate goes out without being counted down.
emitUniqueAlwaysTwice ==
    /\ script # <<>> /\ due = <<>>
    /\ emit(Head(script))
    /\ script'  = Tail(script)
    /\ summary' = Bump(Counts(Head(script).flag))
    /\ due' = <<[Head(script) EXCEPT !.flag = "duplicate"]>>
    /\ UNCHANGED duplicatesRemaining

\* emitUnique: the event itself
emitUnique ==
    /\ script # <<>> /\ due = <<>>
    /\ emit(Head(script))
    /\ script'  = Tail(script)
    /\ summary' = Bump(Counts(Head(script).flag))
    /\ due' = IF duplicatesRemaining = 0 THEN <<>>
              ELSE <<[Head(script) EXCEPT !.flag = "duplicate"]>>
    /\ UNCHANGED duplicatesRemaining

\* emitUnique: its duplicate
emitDuplicate ==
    /\ due # <<>>
    /\ emit(due[1])
    /\ due' = <<>>
    /\ duplicatesRemaining' = duplicatesRemaining - 1
    /\ summary' = Bump({"total", "duplicate"})
    /\ UNCHANGED script

-----------------------------------------------------------------------------
(* publishGenerated                                                        *)

\* flush is under way: the batch is full, or generate has returned.
Flushing == Len(batch) = config.batchSize \/ stage = "flush"

\* Publish: XADD succeeds
Publish == /\ stage # "done" /\ Flushing
           /\ sent < Len(batch)
           /\ stream' = Append(stream, batch[sent + 1])
           /\ sent'   = sent + 1
           /\ UNCHANGED <<config, stage, generator, batch, result>>

\* Publish fails, with or without its effect; the rest of the batch is dropped.
PublishFails == /\ stage # "done" /\ Flushing
                /\ sent < Len(batch)
                /\ stream' \in {stream, Append(stream, batch[sent + 1])}
                /\ Fail("failed")

\* Mutant: the batch is emptied before it is published to the end.
FlushEndsEarly ==
    /\ stage # "done" /\ Flushing
    /\ sent >= Len(batch) - 1
    /\ batch' = <<>>
    /\ sent'  = 0
    /\ IF stage = "flush" THEN stage' = "done" /\ result' = "ok"
       ELSE UNCHANGED <<stage, result>>
    /\ UNCHANGED <<config, generator, stream>>

\* flush returns; the last one ends the run
FlushEnds == /\ stage # "done" /\ Flushing
             /\ sent = Len(batch)
             /\ batch' = <<>>
             /\ sent'  = 0
             /\ IF stage = "flush" THEN stage' = "done" /\ result' = "ok"
                ELSE UNCHANGED <<stage, result>>
             /\ UNCHANGED <<config, generator, stream>>

Next == \/ Refuse \/ EnsureGroupFails \/ Generate
        \/ generateOutOfOrder \/ LoopEnds("outOfOrder", config.outOfOrder, "invalid")
        \/ generateInvalid \/ LoopEnds("invalid", config.invalid, "normal")
        \/ generateNormal \/ GenerateReturns
        \/ emitUnique \/ emitDuplicate
        \/ Publish \/ PublishFails \/ FlushEnds

Spec == Init /\ [][Next]_vars

\* One goroutine that is never blocked for ever: every call returns.
FairSpec == Spec /\ WF_vars(Next)

-----------------------------------------------------------------------------
(* Properties                                                              *)

Flags == {"", "outOfOrder", "invalid", "duplicate"}

GeneratedEvent == [order : Nat, id : Nat, status : Status, flag : Flags]

\* The generator's counters, its buffers and the stream have their types, and
\* a flush never runs past its batch.
TypeOK ==
    /\ config \in Configs
    /\ stage \in {"validate", "outOfOrder", "invalid", "normal", "flush", "done"}
    /\ index \in Nat /\ orderSequence \in Nat /\ eventSequence \in Nat
    /\ duplicatesRemaining \in Nat
    /\ script \in Seq(GeneratedEvent)
    /\ due \in Seq(GeneratedEvent) /\ Len(due) <= 1
    /\ summary \in [DOMAIN NoCounts -> Nat]
    /\ batch \in Seq(GeneratedEvent)
    /\ sent \in 0..Len(batch)
    /\ stream \in Seq(GeneratedEvent)
    /\ result \in {"", "ok", "refused", "failed", "short"}

Positions(flag) == {n \in 1..Len(stream) : stream[n].flag = flag}

\* A run that reports success has put on the stream, through all its batches,
\* exactly what its ratios ask for, and the summary it prints says so: the
\* counters are kept while events are buffered, long before they are published
\* (generator.go:299-332, 395-446).
SummaryIsTrue ==
    result = "ok" =>
        /\ Len(stream) = config.total
        /\ summary.total = config.total
        /\ summary.unique = Cardinality({stream[n].id : n \in 1..Len(stream)})
        /\ orderSequence  = Cardinality({stream[n].order : n \in 1..Len(stream)})
        /\ \A flag \in {"duplicate", "outOfOrder", "invalid"} :
               summary[flag] = Cardinality(Positions(flag))
        /\ summary.duplicate  = config.duplicates
        /\ summary.outOfOrder = config.outOfOrder
        /\ summary.invalid    = config.invalid

\* The order statuses met on the stream before position n by the order of n.
Before(n) == {stream[m].status :
                m \in {k \in 1..(n - 1) : stream[k].order = stream[n].order}}

\* Where an order is once events with the statuses S have been processed one
\* after the other, replays included.
Reached(S) ==
    CHOOSE s \in S \cup {NoStatus} :
        /\ \E path \in UNION {[1..k -> S] : k \in 0..3} :
              /\ \A k \in DOMAIN path :
                    <<IF k = 1 THEN NoStatus ELSE path[k - 1], path[k]>> \in AppliedPairs
              /\ s = IF path = <<>> THEN NoStatus ELSE path[Len(path)]
        /\ \A t \in S : <<s, t>> \notin AppliedPairs

\* The producer's labels agree with the service's state machine: read in stream
\* order, an event flagged out of order is classified OUT_OF_ORDER, one flagged
\* invalid INVALID_TRANSITION, a duplicate repeats an earlier event and every
\* other event is applied, whatever was published before a failure cut the
\* stream off (generator.go:170-297 against state_machine.go).
LabelsAreTrue ==
    \A n \in 1..Len(stream) :
        LET e == stream[n]
            c == EvaluateTransition(Reached(Before(n)), e.status)
        IN  CASE e.flag = "outOfOrder" -> c = "OUT_OF_ORDER"
              [] e.flag = "invalid"    -> c = "INVALID_TRANSITION"
              [] e.flag = ""           -> c = "APPLIED"
              [] e.flag = "duplicate"  ->
                    \E m \in 1..(n - 1) : /\ stream[m].flag # "duplicate"
                                          /\ stream[m].id = e.id
                                          /\ stream[m].order = e.order
                                          /\ stream[m].status = e.status

\* generate gives up for one reason only: more duplicates were asked for than
\* unique events can carry.  The scenario sizes validate adds up are those the
\* loops emit, and a lifecycle cut off at the end hits the target exactly
\* (generator.go:101-117, 159-165, 276-285, 389-393).
ShortOfDuplicatesOnly ==
    result = "short" => /\ config.duplicates > uniqueTarget(config)
                        /\ summary.unique = uniqueTarget(config)
                        /\ summary.duplicate = uniqueTarget(config)

\* Every run ends: the loops over scenarios and the flushes come to their end
\* (generator.go:174, 234, 276, 405-428).
RunEnds == <>(result # "")
=============================================================================
