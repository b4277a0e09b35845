----------------------------- MODULE Collector -----------------------------
(***************************************************************************)
(* monitoring.Collector: counters that workers and the reclaimer add to    *)
(* while GET /stats loads them, one atomic operation at a time.  There is  *)
(* no lock, so a Record call and a Snapshot interleave field by field.     *)
(*                                                                         *)
(* The clock is left out: started_at, uptime and throughput (processed     *)
(* over uptime, from the one load of processed) follow from the rest.      *)
(***************************************************************************)
EXTENDS Integers, Sequences, FiniteSets

CONSTANTS Recorders,  \* goroutines that record: the workers and the reclaimer
          Readers,    \* handlers of GET /stats
          MaxReplay,  \* bound: pending events replayed by one transaction
          MaxCalls    \* bound: Record calls

ASSUME RecorderAssumption == IsFiniteSet(Recorders)
ASSUME BoundAssumption == MaxReplay \in Nat /\ MaxCalls \in Nat

\* Mutant: processed is loaded after its parts.
SnapshotOrderLast ==
    << "applied", "duplicatesSkipped", "duplicateStatus", "outOfOrder",
       "invalidTransitions", "deadLetters", "failures", "simulatedFailures",
       "recoveredMessages", "pendingReplayed", "processed" >>

\* Mutant: snapshotAt forgets the last counter.
SnapshotOrderIncomplete ==
    << "processed", "applied", "duplicatesSkipped", "duplicateStatus", "outOfOrder",
       "invalidTransitions", "deadLetters", "failures", "simulatedFailures",
       "recoveredMessages" >>

\* The counters, in the order snapshotAt loads them.
SnapshotOrder ==
    << "processed", "applied", "duplicatesSkipped", "duplicateStatus", "outOfOrder",
       "invalidTransitions", "deadLetters", "failures", "simulatedFailures",
       "recoveredMessages", "pendingReplayed" >>

Counters == {SnapshotOrder[n] : n \in DOMAIN SnapshotOrder}

\* The counter RecordResult keeps for each classification.
ClassCounter ==
    [APPLIED            |-> "applied",
     DUPLICATE_EVENT    |-> "duplicatesSkipped",
     DUPLICATE_STATUS   |-> "duplicateStatus",
     OUT_OF_ORDER       |-> "outOfOrder",
     INVALID_TRANSITION |-> "invalidTransitions"]

VARIABLES counter,  \* the atomic counters
          adds,     \* the Add operations left of each recorder's running call
          loads,    \* how many counters each reader's running Snapshot has loaded
          snapshot, \* what it has loaded
          recorded, \* history: what the Record calls so far set out to add
          calls     \* bound: Record calls so far

vars == <<counter, adds, loads, snapshot, recorded, calls>>

Zero == [f \in Counters |-> 0]

Init == /\ counter  = Zero
        /\ adds     = [g \in Recorders |-> <<>>]
        /\ loads    = [r \in Readers |-> 0]
        /\ snapshot = [r \in Readers |-> Zero]
        /\ recorded = Zero
        /\ calls    = 0

\* What the additions s, at most one to a counter, add to f.
Amount(s, f) == IF \E n \in DOMAIN s : s[n].counter = f
                THEN s[CHOOSE n \in DOMAIN s : s[n].counter = f].by ELSE 0

\* A recorder enters a Record function that will perform the additions s.
Call(g, s) == /\ adds[g] = <<>>
              /\ calls < MaxCalls
              /\ calls' = calls + 1
              /\ adds'  = [adds EXCEPT ![g] = s]
              /\ recorded' = [f \in Counters |-> recorded[f] + Amount(s, f)]
              /\ UNCHANGED <<counter, loads, snapshot>>

One(f) == <<[counter |-> f, by |-> 1]>>

\* Replays are counted first; only an applied event replays others, and every
\* INVALID_TRANSITION that ProcessEventTx returns is a dead letter.
RecordResult(g, class, replayed) ==
    /\ replayed > 0 => class = "APPLIED"
    /\ Call(g, (IF replayed > 0
                THEN <<[counter |-> "pendingReplayed", by |-> replayed]>> ELSE <<>>)
               \o One("processed") \o One(ClassCounter[class])
               \o (IF class = "INVALID_TRANSITION" THEN One("deadLetters") ELSE <<>>))

RecordFailure(g)          == Call(g, One("failures"))
RecordSimulatedFailure(g) == Call(g, One("simulatedFailures"))
RecordRecovered(g)        == Call(g, One("recoveredMessages"))

\* Mutant: counter++ on a plain integer, a load and a store.
AddNotAtomic(g) ==
    /\ adds[g] # <<>>
    /\ LET a == Head(adds[g])
       IN  \/ /\ "loaded" \notin DOMAIN a
              /\ adds' = [adds EXCEPT ![g][1] = [counter |-> a.counter, by |-> a.by,
                                                 loaded |-> counter[a.counter]]]
              /\ UNCHANGED counter
           \/ /\ "loaded" \in DOMAIN a
              /\ counter' = [counter EXCEPT ![a.counter] = a.loaded + a.by]
              /\ adds'    = [adds EXCEPT ![g] = Tail(@)]
    /\ UNCHANGED <<loads, snapshot, recorded, calls>>

\* atomic.Uint64.Add, the next one of the running call
Add(g) ==
    /\ adds[g] # <<>>
    /\ counter' = [counter EXCEPT ![Head(adds[g]).counter] = @ + Head(adds[g]).by]
    /\ adds'    = [adds EXCEPT ![g] = Tail(@)]
    /\ UNCHANGED <<loads, snapshot, recorded, calls>>

\* snapshotAt: atomic.Uint64.Load of the next counter
Load(r) ==
    /\ loads[r] < Len(SnapshotOrder)
    /\ LET f == SnapshotOrder[loads[r] + 1]
       IN  snapshot' = [snapshot EXCEPT ![r][f] = counter[f]]
    /\ loads' = [loads EXCEPT ![r] = @ + 1]
    /\ UNCHANGED <<counter, adds, recorded, calls>>

\* The response is written and the handler serves another request.
Respond(r) ==
    /\ loads[r] = Len(SnapshotOrder)
    /\ loads' = [loads EXCEPT ![r] = 0]
    /\ UNCHANGED <<counter, adds, snapshot, recorded, calls>>

Next == \/ \E g \in Recorders :
              \/ \E class \in DOMAIN ClassCounter, n \in 0..MaxReplay :
                    RecordResult(g, class, n)
              \/ RecordFailure(g) \/ RecordSimulatedFailure(g) \/ RecordRecovered(g)
              \/ Add(g)
        \/ \E r \in Readers : Load(r) \/ Respond(r)

Spec == Init /\ [][Next]_vars

-----------------------------------------------------------------------------
(* Properties                                                              *)

\* Counters and snapshots are natural numbers, and every addition is one to a
\* counter that snapshotAt loads.
TypeOK ==
    /\ counter \in [Counters -> Nat]
    /\ \A g \in Recorders : \A n \in DOMAIN adds[g] :
          adds[g][n].counter \in Counters /\ adds[g][n].by \in Nat
    /\ loads \in [Readers -> 0..Len(SnapshotOrder)]
    /\ snapshot \in [Readers -> [Counters -> Nat]]
    /\ recorded \in [Counters -> Nat]
    /\ calls \in 0..MaxCalls

\* The counters of the classifications, added up
SumOfParts(s) == s["applied"] + s["duplicatesSkipped"] + s["duplicateStatus"]
                 + s["outOfOrder"] + s["invalidTransitions"]

\* What "consistent-enough" (metrics.go:119) comes to: in every response the
\* parts account for all of processed but at most one event per recording
\* goroutine, the one between its two additions, however long the loads take
\* and whatever is recorded meanwhile (metrics.go:77-102, 124-152).
PartsAccountForProcessed ==
    \A r \in Readers :
        loads[r] = Len(SnapshotOrder) =>
            snapshot[r]["processed"] <= SumOfParts(snapshot[r]) + Cardinality(Recorders)

\* The units that the running Record calls have yet to add to f
Outstanding(f) == UNION {{g} \X (1..Amount(adds[g], f)) : g \in Recorders}

\* No addition is lost to one made at the same time, and none is made twice: at every
\* moment each counter and what the running Record calls have yet to add to it
\* make up all that was recorded since the start (metrics.go:78-117).
NoAdditionLost ==
    \A f \in Counters : counter[f] + Cardinality(Outstanding(f)) = recorded[f]
=============================================================================
