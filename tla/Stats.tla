------------------------------- MODULE Stats -------------------------------
(***************************************************************************)
(* GET /stats beside the workers and the reclaimer: the handler asks Redis *)
(* for the group's lag, the length of the stream and the number of pending *)
(* entries one after the other, while entries are published, read and      *)
(* acknowledged between the questions.                                     *)
(*                                                                         *)
(* What Collector models, the counters of the response, is left out here;  *)
(* so is the wording of queue_error.                                       *)
(***************************************************************************)
EXTENDS StreamDelivery, FiniteSets

CONSTANT MaxErrors   \* bound: failed questions of one request

ASSUME ErrorAssumption == MaxErrors \in Nat

VARIABLE request   \* the handler's locals

statsVars == <<vars, request>>

\* seen: the entries that were on the stream when the request came in
NoRequest == [at |-> "idle", seen |-> 0, queueDepth |-> 0, streamLength |-> 0,
              pendingDepth |-> 0, errors |-> 0]

StatsInit == Init /\ request = NoRequest

\* Mutant: the pending entries are counted before the lag is asked for.
FollowingPendingFirst ==
    [get |-> "pendingDepth", pendingDepth |-> "queueDepth",
     queueDepth |-> "streamLength", streamLength |-> "reply"]

\* Mutant: the length is asked for before the lag.
FollowingLengthFirst ==
    [get |-> "streamLength", streamLength |-> "queueDepth",
     queueDepth |-> "pendingDepth", pendingDepth |-> "reply"]

\* The order of the handler's questions.
Following == [get |-> "queueDepth", queueDepth |-> "streamLength",
              streamLength |-> "pendingDepth", pendingDepth |-> "reply"]

\* The listener is open until Shutdown closes it.
Get ==
    /\ run = "up"
    /\ request.at = "idle"
    /\ request' = [NoRequest EXCEPT !.at = Following["get"], !.seen = Len(stream)]
    /\ UNCHANGED vars

\* The handler is at a question, and its locals become r.
Ask(at, r) == request.at = at /\ request' = r /\ UNCHANGED vars

\* Mutant: the error is dropped.
AskFailsSilently(at, question) ==
    Ask(at, [request EXCEPT !.at = Following[question]])

\* The depth stays 0 and queue_error names the question.
AskFails(at, question) ==
    /\ request.errors < MaxErrors
    /\ Ask(at, [request EXCEPT !.at = Following[question], !.errors = @ + 1])

\* QueueDepth: XINFO GROUPS knows the lag of the group.
QueueDepth == Ask("queueDepth", [request EXCEPT !.at = Following["queueDepth"],
                                 !.queueDepth = Len(stream) - delivered])

\* Mutant: consumerGroupLag takes the -1 that stands for an unknown lag.
LagUnknownTaken == Ask("queueDepth", [request EXCEPT !.at = Following["queueDepth"],
                                      !.queueDepth = -1])

\* XINFO GROUPS fails, or consumerGroupLag finds no lag Redis could determine.
LagUnknown == Ask("queueDepth", [request EXCEPT !.at = "fallback"])

\* QueueDepth falls back to XLEN.
QueueDepthFallback == Ask("fallback", [request EXCEPT !.at = Following["queueDepth"],
                                       !.queueDepth = Len(stream)])

QueueDepthFails == AskFails("fallback", "queueDepth")

StreamLength == Ask("streamLength", [request EXCEPT !.at = Following["streamLength"],
                                     !.streamLength = Len(stream)])

StreamLengthFails == AskFails("streamLength", "streamLength")

\* XPENDING
PendingCount == Ask("pendingDepth", [request EXCEPT !.at = Following["pendingDepth"],
                                     !.pendingDepth = Cardinality(pel)])

PendingCountFails == AskFails("pendingDepth", "pendingDepth")

\* The response is written.
Encode == Ask("reply", NoRequest)

NewStatsHandler == \/ Get
                   \/ QueueDepth \/ LagUnknown \/ QueueDepthFallback \/ QueueDepthFails
                   \/ StreamLength \/ StreamLengthFails
                   \/ PendingCount \/ PendingCountFails \/ Encode

\* A handler goes down with the process.
ServiceStep == /\ Next
               /\ request' = IF run' = "down" THEN NoRequest ELSE request

StatsNext == NewStatsHandler \/ ServiceStep

StatsSpec == StatsInit /\ [][StatsNext]_statsVars

-----------------------------------------------------------------------------
(* Properties                                                              *)

\* The depths of a response are counts of entries.
StatsTypeOK ==
    /\ request.at \in {"idle", "queueDepth", "fallback", "streamLength", "pendingDepth",
                       "reply"}
    /\ {request.seen, request.queueDepth, request.streamLength, request.pendingDepth,
        request.errors} \subseteq Nat

\* docs/RUNBOOK.md:98-102: "A completed run should eventually show queue_depth=0
\* pending_depth=0".  A response that shows it, without queue_error, is right:
\* everything published before the request was delivered, is in the database
\* and is off the pending list, although the two depths were read at different
\* times (metrics.go:173-203, redis_stream.go:234-287).
DrainedMeansDone ==
    request.at = "reply" /\ request.errors = 0
        /\ request.queueDepth = 0 /\ request.pendingDepth = 0 =>
            \A i \in 1..request.seen : Acknowledged(i)

\* The backlog of a response is part of the stream it reports the length of,
\* whichever way the backlog was found out (metrics.go:173-191).
BacklogWithinStream ==
    request.at = "reply" /\ request.errors = 0 => request.queueDepth <= request.streamLength
=============================================================================
