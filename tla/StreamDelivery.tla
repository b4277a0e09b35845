--------------------------- MODULE StreamDelivery ---------------------------
(***************************************************************************)
(* The path of a message from the Redis stream through the worker pool and *)
(* the reclaimer to its acknowledgement, for one service process that may  *)
(* be told to stop, crash and be started again.                            *)
(*                                                                         *)
(* Redis keeps the stream, the position up to which the consumer group has *)
(* been served and the pending entries list (PEL).  Nothing in the code    *)
(* reads the owner of a pending entry, so the PEL is a set of positions,   *)
(* with the subset that has been idle for RECLAIM_MIN_IDLE_SECONDS.        *)
(*                                                                         *)
(* Processor.Process is represented by what OrderRepository shows of it:   *)
(* success means the event is durable, an error leaves it open whether the *)
(* transaction committed.  Log lines and counters are left out.            *)
(***************************************************************************)
EXTENDS Integers, Sequences, FiniteSets

CONSTANTS Workers,      \* the pool's consumers
          Reclaimer,    \* the reclaimer's consumer
          Messages,     \* what may be on the stream, any number of times
          ReadCount,    \* WORKER_READ_COUNT
          ReclaimCount, \* RECLAIM_COUNT
          After, Count, \* SIMULATE_ACK_FAILURE_AFTER, _COUNT
          MaxLen,       \* bound: entries ever published
          MaxFaults     \* bound: failed calls, crashes and shutdowns

\* A "malformed" entry does not parse; a "refused" one parses, but
\* validateEvent rejects it (an unknown status, for instance).
ASSUME MessageAssumption ==
    \A m \in Messages : m.form \in {"valid", "refused", "malformed"}
ASSUME ConsumerAssumption == Reclaimer \notin Workers
ASSUME CountAssumption == /\ ReadCount \in Nat \ {0}
                          /\ ReclaimCount \in Nat \ {0}
                          /\ After \in Nat
                          /\ Count \in Nat
                          /\ MaxFaults \in Nat

Consumers == Workers \cup {Reclaimer}

VARIABLES stream,    \* the entries of the Redis stream, oldest first
          delivered, \* the group's last-delivered position, NoGroup before it exists
          pel,       \* positions delivered and not acknowledged
          stale,     \* those of them idle for at least MinIdle
          durable,   \* event_ids in processed_events
          run,       \* the process: down, up, or draining after ctx is cancelled
          phase,     \* where each consumer's goroutine is
          batch,     \* positions each consumer has in hand, the current one first
          start,     \* XAUTOCLAIM cursor of the running ClaimPending, 0 for 0-0
          successes, \* ackFailureSimulator.successfulProcessed
          faults     \* bound: faults so far

redis     == <<stream, delivered, pel, stale>>
consumers == <<phase, batch, start>>
vars      == <<redis, durable, run, consumers, successes, faults>>

NoGroup == -1

Positions == 1..Len(stream)

Lesser(m, n) == IF m < n THEN m ELSE n

-----------------------------------------------------------------------------
(* Redis and the producers                                                 *)

Init == /\ stream    = <<>>
        /\ delivered = NoGroup
        /\ pel       = {}
        /\ stale     = {}
        /\ durable   = {}
        /\ run       = "down"
        /\ phase     = [c \in Consumers |-> "stopped"]
        /\ batch     = [c \in Consumers |-> <<>>]
        /\ start     = 0
        /\ successes = 0
        /\ faults    = 0

\* A call fails, the process dies or is told to stop.
Fault == faults < MaxFaults /\ faults' = faults + 1

NoFault == UNCHANGED faults

\* XADD.  A retried or repeated XADD puts the same message on the stream again.
XAdd(m) ==
    /\ Len(stream) < MaxLen
    /\ stream' = Append(stream, m)
    /\ UNCHANGED <<delivered, pel, stale, durable, run, consumers, successes, faults>>

\* eventFields lets a message without a required field or with a payload that is
\* not a JSON object go nowhere; it does not look at the status.
eventFields(m) == m.form # "malformed"

Publish(m) == eventFields(m) /\ XAdd(m)

\* Another client of the stream adds an entry that Publish would not.
PublishForeign(m) == ~eventFields(m) /\ XAdd(m)

\* Entry i has now been idle for MinIdle, whoever holds it.
Age(i) ==
    /\ i \in pel \ stale
    /\ stale' = stale \cup {i}
    /\ UNCHANGED <<stream, delivered, pel, durable, run, consumers, successes, faults>>

\* Mutant: XGROUP CREATE ... $, the group starts behind the last entry.
EnsureGroupAtEnd == delivered' = IF delivered = NoGroup THEN Len(stream) ELSE delivered

\* XGROUP CREATE ... 0 MKSTREAM: the group starts before the first entry; an
\* existing group is left alone (BUSYGROUP).
EnsureGroup == delivered' = IF delivered = NoGroup THEN 0 ELSE delivered

\* The required fields are there, the timestamp and the payload parse.
parseStreamMessage(m) == m.form # "malformed"

\* One entry that does not parse fails the whole reply.
parseStreamMessages(s) == \A n \in DOMAIN s : parseStreamMessage(stream[s[n]])

-----------------------------------------------------------------------------
(* The process                                                             *)

\* run(): the group is ensured, and pool and reclaimer are started with a new
\* failure simulator.
Start ==
    /\ run = "down"
    /\ EnsureGroup
    /\ run'       = "up"
    /\ phase'     = [c \in Consumers |-> "poll"]
    /\ successes' = 0
    /\ UNCHANGED <<stream, pel, stale, durable, batch, start, faults>>

\* run() returns an error before the pool exists; the group may exist by then.
StartFails ==
    /\ run = "down"
    /\ Fault
    /\ EnsureGroup \/ UNCHANGED delivered
    /\ UNCHANGED <<stream, pel, stale, durable, run, consumers, successes>>

\* SIGTERM, or the HTTP server failed and run() calls stop().
Cancel ==
    /\ run = "up"
    /\ Fault
    /\ run' = "draining"
    /\ UNCHANGED <<redis, durable, consumers, successes>>

\* <-backgroundDone: run() returns once every goroutine has.
Exit ==
    /\ run = "draining"
    /\ \A c \in Consumers : phase[c] = "stopped"
    /\ run' = "down"
    /\ UNCHANGED <<redis, durable, consumers, successes, faults>>

\* The process dies; what its goroutines had in hand is gone.
Crash ==
    /\ run # "down"
    /\ Fault
    /\ run'   = "down"
    /\ phase' = [c \in Consumers |-> "stopped"]
    /\ batch' = [c \in Consumers |-> <<>>]
    /\ start' = 0
    /\ UNCHANGED <<redis, durable, successes>>

-----------------------------------------------------------------------------
(* Consumers                                                               *)

Goto(c, next) == phase' = [phase EXCEPT ![c] = next]

\* Mutant: the batch loop checks ctx before every message.
StopMidBatch(c) ==
    /\ phase[c] \in {"poll", "work"}
    /\ run = "draining"
    /\ Goto(c, "stopped")
    /\ UNCHANGED <<redis, durable, run, batch, start, successes, faults>>

\* Mutant: the reclaimer waits for its timer only.
StopWorkersOnly(c) ==
    /\ c # Reclaimer
    /\ phase[c] = "poll"
    /\ run = "draining"
    /\ Goto(c, "stopped")
    /\ UNCHANGED <<redis, durable, run, batch, start, successes, faults>>

\* The top of runWorker's loop, and ctx.Done() of the reclaimer's select or of
\* waitForRetry.
Stop(c) ==
    /\ phase[c] = "poll"
    /\ run = "draining"
    /\ Goto(c, "stopped")
    /\ UNCHANGED <<redis, durable, run, batch, start, successes, faults>>

\* A worker that found ctx alive calls ReadGroup; cancellation may come while
\* the call is under way.
CallReadGroup(w) ==
    /\ phase[w] = "poll"
    /\ run = "up"
    /\ Goto(w, "reading")
    /\ UNCHANGED <<redis, durable, run, batch, start, successes, faults>>

\* XREADGROUP ">" hands out the next entries and puts them on the PEL.
Deliver(n) ==
    /\ delivered' = delivered + n
    /\ pel'       = pel \cup (delivered + 1 .. delivered + n)
    /\ UNCHANGED <<stream, stale>>

\* The reply arrives and parses: the worker has a batch, or none when the
\* block time passed without a message.
ReadGroup(w) ==
    LET n        == Lesser(ReadCount, Len(stream) - delivered)
        messages == [k \in 1..n |-> delivered + k]
    IN  /\ phase[w] = "reading"
        /\ Deliver(n)
        /\ parseStreamMessages(messages)
        /\ batch' = [batch EXCEPT ![w] = messages]
        /\ Goto(w, IF n = 0 THEN "poll" ELSE "work")
        /\ UNCHANGED <<durable, run, start, successes, faults>>

\* ReadGroup returns an error although entries were handed out: one of them
\* does not parse, or the reply was lost.  The worker backs off and polls.
ReadGroupLost(w) ==
    LET n == Lesser(ReadCount, Len(stream) - delivered)
    IN  /\ phase[w] = "reading"
        /\ n > 0
        /\ Deliver(n)
        /\ IF parseStreamMessages([k \in 1..n |-> delivered + k]) THEN Fault ELSE NoFault
        /\ Goto(w, "poll")
        /\ UNCHANGED <<durable, run, batch, start, successes>>

\* ReadGroup fails without effect (Redis cannot be reached, ctx is cancelled).
ReadGroupFails(w) ==
    /\ phase[w] = "reading"
    /\ IF run = "draining" THEN NoFault ELSE Fault
    /\ Goto(w, "poll")
    /\ UNCHANGED <<redis, durable, run, batch, start, successes>>

\* The reclaimer's timer fires and reclaim calls ClaimPending.  When ctx is
\* done as well the select may still pick the timer, but a call on a cancelled
\* ctx fails before it is sent and the select is reached again.
Tick ==
    /\ phase[Reclaimer] = "poll"
    /\ run = "up"
    /\ Goto(Reclaimer, "claiming")
    /\ start' = 0
    /\ UNCHANGED <<redis, durable, run, batch, successes, faults>>

\* The pending entries from the cursor on that XAUTOCLAIM looks at when it
\* stops after position last, and those it leaves for the next call.
Scanned(last) == {i \in pel : start <= i /\ i <= last}
Rest(last)    == {i \in pel : start <= i /\ last < i}

\* s lists the positions of S in stream order.
Lists(s, S) == /\ \A i \in S : \E n \in DOMAIN s : s[n] = i
               /\ \A m, n \in DOMAIN s : m < n => s[m] < s[n]

\* One XAUTOCLAIM from cursor start.  Redis stops after position last, where it
\* has found as many stale entries as were asked for, has spent its scanning
\* effort, or has reached the end.  What it claims is idle no more.
XAutoClaim(last, claimed) ==
    /\ last = 0 => Rest(0) = {}
    /\ last # 0 => last \in Scanned(last)
    /\ Lists(claimed, Scanned(last) \cap stale)
    /\ Len(claimed) <= ReclaimCount - Len(batch[Reclaimer])
    /\ stale' = stale \ Scanned(last)
    /\ UNCHANGED <<stream, delivered, pel>>

\* What one XAUTOCLAIM that stops after last may return.
Claims(last) == UNION {[1..k -> Scanned(last) \cap stale] : k \in 0..ReclaimCount}

\* The cursor it returns: the first entry it has not looked at, if any.
IsCursor(next, last) ==
    \/ next = 0 /\ Rest(last) = {}
    \/ next \in Rest(last) /\ \A i \in Rest(last) : next <= i

\* Mutant: ClaimPending returns the first reply that holds an entry.
ClaimPendingFirstReply ==
    /\ phase[Reclaimer] = "claiming"
    /\ \E last, next \in Positions \cup {0} : \E claimed \in Claims(last) :
         LET done == next \in {0, start} \/ claimed # <<>>
         IN  /\ XAutoClaim(last, claimed)
             /\ IsCursor(next, last)
             /\ parseStreamMessages(claimed)
             /\ batch' = [batch EXCEPT ![Reclaimer] = claimed]
             /\ start' = IF done THEN 0 ELSE next
             /\ Goto(Reclaimer, IF ~done THEN "claiming"
                                ELSE IF claimed = <<>> THEN "poll" ELSE "work")
    /\ UNCHANGED <<durable, run, successes, faults>>

\* One round of ClaimPending's loop whose reply arrives and parses: the last
\* round when the cursor is exhausted or enough entries are claimed.  The branch for
\* a nil reply returns what was claimed so far; XAUTOCLAIM always answers with an
\* array, so that branch is never taken.
ClaimPending ==
    /\ phase[Reclaimer] = "claiming"
    /\ \E last, next \in Positions \cup {0} : \E claimed \in Claims(last) :
         LET messages == batch[Reclaimer] \o claimed
             done     == next \in {0, start} \/ Len(messages) >= ReclaimCount
         IN  /\ XAutoClaim(last, claimed)
             /\ IsCursor(next, last)
             /\ parseStreamMessages(claimed)
             /\ batch' = [batch EXCEPT ![Reclaimer] = messages]
             /\ start' = IF done THEN 0 ELSE next
             /\ Goto(Reclaimer, IF ~done THEN "claiming"
                                ELSE IF messages = <<>> THEN "poll" ELSE "work")
    /\ UNCHANGED <<durable, run, successes, faults>>

\* ClaimPending returns an error: what it claimed in earlier rounds is dropped.
DropClaimed == /\ batch' = [batch EXCEPT ![Reclaimer] = <<>>]
               /\ start' = 0
               /\ Goto(Reclaimer, "poll")

\* An error although entries were claimed: one of them does not parse, or the
\* reply was lost.
ClaimPendingLost ==
    /\ phase[Reclaimer] = "claiming"
    /\ \E last \in Positions \cup {0} : \E claimed \in Claims(last) :
          /\ XAutoClaim(last, claimed)
          /\ IF parseStreamMessages(claimed) THEN Fault ELSE NoFault
    /\ DropClaimed
    /\ UNCHANGED <<durable, run, successes>>

\* XAUTOCLAIM fails without effect.
ClaimPendingFails ==
    /\ phase[Reclaimer] = "claiming"
    /\ IF run = "draining" THEN NoFault ELSE Fault
    /\ DropClaimed
    /\ UNCHANGED <<redis, durable, run, successes>>

\* Mutant: one message too many.
NextMessageOffByOne(c) ==
    /\ batch' = [batch EXCEPT ![c] = Tail(@)]
    /\ Goto(c, IF batch[c] = <<>> THEN "poll" ELSE "work")

\* handleMessage returns: on to the next message of the batch.
NextMessage(c) ==
    /\ batch' = [batch EXCEPT ![c] = Tail(@)]
    /\ Goto(c, IF Len(batch[c]) = 1 THEN "poll" ELSE "work")

Message(c) == stream[Head(batch[c])]

\* Process returns success to handleMessage, which goes on to the XACK.
ProcessSucceeds(c) ==
    /\ phase[c] = "work"
    /\ Goto(c, "ack")
    /\ UNCHANGED <<redis, run, batch, start, successes, faults>>

\* Process returns an error to handleMessage: the entry stays on the PEL.  It is
\* a fault unless validateEvent refuses the event.
ProcessReturnsError(c) ==
    /\ phase[c] = "work"
    /\ IF Message(c).form = "valid" THEN Fault ELSE NoFault
    /\ NextMessage(c)
    /\ UNCHANGED <<redis, run, start, successes>>

\* Success means that the transaction has committed.
Process(c) ==
    /\ ProcessSucceeds(c)
    /\ Message(c).form = "valid"
    /\ durable' = durable \cup {Message(c).id}

\* Mutant: handleMessage acknowledges whatever Process returned.
ProcessFailsAcked(c) ==
    /\ phase[c] = "work"
    /\ Message(c).form \in {"valid", "refused"}
    /\ pel'   = pel \ {Head(batch[c])}
    /\ stale' = stale \ {Head(batch[c])}
    /\ NextMessage(c)
    /\ UNCHANGED <<stream, delivered, durable, run, start, successes, faults>>

\* An error: the event is refused, the transaction failed, or it committed and
\* the answer was lost.
ProcessFails(c) ==
    /\ ProcessReturnsError(c)
    /\ \/ Message(c).form = "refused" /\ UNCHANGED durable
       \/ Message(c).form = "valid" /\ durable' \in {durable, durable \cup {Message(c).id}}

\* shouldSkipAck for the next successful worker; no simulator when a setting is 0
shouldSkipAck == /\ After # 0 /\ Count # 0
                 /\ successes + 1 > After
                 /\ successes + 1 - After <= Count

\* The counter is not told apart beyond the last position that matters.
CountSuccess(c) ==
    successes' = IF c = Reclaimer THEN successes
                 ELSE Lesser(successes + 1, After + Count)

\* handleMessage after a success: XACK
Ack(c) ==
    /\ phase[c] = "ack"
    /\ c = Reclaimer \/ ~shouldSkipAck
    /\ CountSuccess(c)
    /\ pel'   = pel \ {Head(batch[c])}
    /\ stale' = stale \ {Head(batch[c])}
    /\ NextMessage(c)
    /\ UNCHANGED <<stream, delivered, durable, run, start, faults>>

\* XACK fails without effect (when only its answer is lost, it is Ack).
AckFails(c) ==
    /\ phase[c] = "ack"
    /\ c = Reclaimer \/ ~shouldSkipAck
    /\ CountSuccess(c)
    /\ Fault
    /\ NextMessage(c)
    /\ UNCHANGED <<redis, durable, run, start>>

\* The simulated worker failure between COMMIT and XACK
SkipAck(w) ==
    /\ phase[w] = "ack"
    /\ shouldSkipAck
    /\ CountSuccess(w)
    /\ NextMessage(w)
    /\ UNCHANGED <<redis, durable, run, start, faults>>

-----------------------------------------------------------------------------

WorkerStep(w) ==
    \/ CallReadGroup(w) \/ ReadGroup(w) \/ ReadGroupLost(w) \/ ReadGroupFails(w)
    \/ SkipAck(w)

ReclaimerStep == Tick \/ ClaimPending \/ ClaimPendingLost \/ ClaimPendingFails

HandleStep(c) == Process(c) \/ ProcessFails(c) \/ Ack(c) \/ AckFails(c)

Next == \/ \E m \in Messages : Publish(m) \/ PublishForeign(m)
        \/ \E i \in pel : Age(i)
        \/ Start \/ StartFails \/ Cancel \/ Exit \/ Crash
        \/ \E c \in Consumers : HandleStep(c) \/ Stop(c)
        \/ \E w \in Workers : WorkerStep(w)
        \/ ReclaimerStep

Spec == Init /\ [][Next]_vars

\* The runtime schedules every goroutine and the context-free calls in a batch
\* return; time passes, so entries that are not acknowledged become stale; the
\* service is started again after it went down (docs/RUNBOOK.md).
Fairness ==
    /\ \A c \in Consumers : WF_vars(HandleStep(c)) /\ WF_vars(Stop(c))
    /\ \A w \in Workers : WF_vars(WorkerStep(w))
    /\ WF_vars(ReclaimerStep)
    /\ WF_vars(Start) /\ WF_vars(Exit)
    /\ \A i \in 1..MaxLen : WF_vars(Age(i))

FairSpec == Spec /\ Fairness

-----------------------------------------------------------------------------
(* Properties                                                              *)

EventIDs == {m.id : m \in Messages}

\* The stream, the group's bookkeeping and every goroutine's state have their
\* types; what a consumer has in hand was delivered, a consumer handles a
\* message only with one in hand, and while the process is down nobody runs.
TypeOK ==
    /\ stream \in Seq(Messages)
    /\ delivered \in {NoGroup} \cup 0..Len(stream)
    /\ pel \subseteq 1..delivered
    /\ stale \subseteq pel
    /\ durable \subseteq EventIDs
    /\ run \in {"down", "up", "draining"}
    /\ phase \in [Consumers -> {"stopped", "poll", "reading", "claiming", "work", "ack"}]
    /\ batch \in [Consumers -> Seq(1..delivered)]
    /\ start \in Nat
    /\ successes \in Nat
    /\ faults \in 0..MaxFaults
    /\ \A c \in Consumers : /\ phase[c] \in {"work", "ack"} => batch[c] # <<>>
                            /\ phase[c] # "stopped" => delivered # NoGroup /\ run # "down"

\* At-least-once delivery: an entry the group has been served is still pending
\* in Redis, or its event is in the database.  No order of reads, claims,
\* failed transactions, lost answers, crashes and shutdowns makes an entry
\* vanish from both (pool.go:180-232, reclaimer.go:137-174, redis_stream.go:57-74).
NothingLost ==
    \A i \in 1..delivered : i \in pel \/ stream[i].id \in durable

\* Cancellation stops a worker or the reclaimer between messages only: a
\* goroutine stops with messages in hand only when the process dies
\* (pool.go:169-176, reclaimer.go:131-134).
BatchFinished ==
    [][\A c \in Consumers :
          phase[c] # "stopped" /\ phase'[c] = "stopped" =>
              batch[c] = <<>> \/ run' = "down"]_vars

\* Entry i was delivered, its event is in the database and XACK took it off the PEL.
Acknowledged(i) == i <= delivered /\ i \notin pel /\ stream[i].id \in durable

\* docs/RUNBOOK.md:254: "The reclaimer should claim stale pending messages and
\* process them", so every published entry that can be processed is
\* acknowledged in the end, its event in the database
\* (reclaimer.go:84-135, redis_stream.go:149-204).
EventuallyAcknowledged ==
    \A i \in 1..MaxLen :
        (i \in Positions /\ stream[i].form = "valid") ~> Acknowledged(i)

\* No entry fails a whole reply, and those that are refused again and again leave
\* room for others when the reclaimer claims.
Claimable ==
    /\ \A i \in Positions : stream[i].form # "malformed"
    /\ Cardinality({i \in Positions : stream[i].form = "refused"}) < ReclaimCount

\* What a failed call, a crash, a shutdown, a lost reply or a skipped XACK left
\* on the pending list is recovered by the reclaimer, unless an entry that does
\* not parse gets on the stream, or as many that parse and are refused as one
\* ClaimPending may claim: they are claimed first each time (pool.go:139-243,
\* reclaimer.go:84-185, redis_stream.go:102-204, order_repository.go:225).
RecoveredUnlessPoisoned == []Claimable => EventuallyAcknowledged

\* A shutdown ends: once ctx is cancelled every worker and the reclaimer stop
\* and run() returns, however much is left on the stream (main.go:211-213).
ShutdownCompletes == run = "draining" ~> run = "down"
=============================================================================
