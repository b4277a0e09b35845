---------------------------- MODULE StatsProofs ----------------------------
(***************************************************************************)
(* What GET /stats reports, for every pool, stream, number of faults and   *)
(* number of failed questions.                                             *)
(*                                                                         *)
(* The three depths are read at three moments.  The argument is that what  *)
(* a question has established stays true until the reply: the stream and   *)
(* the group's position only grow, and XREADGROUP puts on the pending list *)
(* only what lies behind that position (Onward).  StatsInv records, for    *)
(* each place of the handler, what the answers so far have established.    *)
(***************************************************************************)
EXTENDS Stats, StreamDeliveryProofs, FiniteSetTheorems

Places == {"idle", "queueDepth", "fallback", "streamLength", "pendingDepth", "reply"}

Requests == [at : Places, seen : Nat, queueDepth : Nat, streamLength : Nat,
             pendingDepth : Nat, errors : Nat]

\* The group exists while the process runs.
GroupEnsured == run # "down" => delivered # NoGroup

\* Every question was asked of an existing group and a stream that has not
\* become shorter.
Situated == request.at # "idle" => delivered # NoGroup /\ request.seen <= Len(stream)

\* Once the backlog is known it lies within the stream, and once the length is
\* known too, within the reported length.
BacklogKnown ==
    /\ request.at \in {"streamLength", "pendingDepth", "reply"} /\ request.errors = 0 =>
          request.queueDepth <= Len(stream)
    /\ request.at \in {"pendingDepth", "reply"} /\ request.errors = 0 =>
          request.queueDepth <= request.streamLength

\* An empty backlog means that the entries the request saw have been delivered.
BacklogEmpty ==
    request.at \in {"streamLength", "pendingDepth", "reply"} /\ request.errors = 0
        /\ request.queueDepth = 0 => request.seen <= delivered

HandlerInv == Situated /\ BacklogKnown /\ BacklogEmpty /\ DrainedMeansDone

StatsInv == DeliveryInv /\ request \in Requests /\ GroupEnsured /\ HandlerInv

-----------------------------------------------------------------------------

\* Redis and the database only move on: entries keep their positions, the
\* group's position does not go back, only entries behind it become pending
\* and no event leaves the database.
Onward ==
    /\ Len(stream) <= Len(stream')
    /\ \A i \in 1..Len(stream) : stream'[i] = stream[i]
    /\ delivered <= delivered'
    /\ \A i \in pel' : i \in pel \/ delivered < i
    /\ durable \subseteq durable'

\* The types of what the questions are about.
LEMMA StoreTypes ==
    ASSUME DeliveryInv
    PROVE  /\ Len(stream) \in Nat
           /\ delivered \in Int /\ delivered <= Len(stream)
           /\ delivered # NoGroup => delivered \in Nat
           /\ pel \subseteq 1..delivered
BY LenProperties DEF DeliveryInv, TypeOK, NoGroup

\* XREADGROUP, which alone serves the group further.
LEMMA DeliverOnward ==
    ASSUME DeliveryInv, NEW n \in Nat, Deliver(n), durable' = durable
    PROVE  Onward
BY StoreTypes DEF Onward, Deliver

\* No step of the service, of a producer or of Redis takes anything back.
LEMMA NextOnward == DeliveryInv /\ [Next]_vars => Onward
<1> SUFFICES ASSUME DeliveryInv, [Next]_vars PROVE Onward
    OBVIOUS
<1>0. /\ Len(stream) \in Nat
      /\ delivered \in Int /\ delivered <= Len(stream)
      /\ delivered # NoGroup => delivered \in Nat
    BY StoreTypes
<1>1. ASSUME UNCHANGED <<stream, delivered>>, pel' \subseteq pel, durable \subseteq durable'
      PROVE  Onward
    BY <1>0, <1>1 DEF Onward
<1>2. ASSUME NEW m \in Messages, Publish(m) \/ PublishForeign(m) PROVE Onward
  <2>1. XAdd(m) /\ stream \in Seq(Messages)
      BY <1>2 DEF Publish, PublishForeign, DeliveryInv, TypeOK
  <2>2. Len(stream') = Len(stream) + 1 /\ \A i \in 1..Len(stream) : stream'[i] = stream[i]
      BY <2>1, AppendProperties DEF XAdd
  <2> QED BY <1>0, <2>1, <2>2 DEF XAdd, Onward
<1>3. ASSUME NEW i \in pel, Age(i) PROVE Onward
    BY <1>1, <1>3 DEF Age
<1>4. CASE Start \/ StartFails
  <2>1. delivered' = delivered \/ (delivered = NoGroup /\ delivered' = 0)
      BY <1>4 DEF Start, StartFails, EnsureGroup
  <2>2. UNCHANGED <<stream, pel, durable>>
      BY <1>4 DEF Start, StartFails
  <2> QED BY <1>0, <2>1, <2>2 DEF Onward, NoGroup
<1>5. CASE Cancel \/ Exit \/ Crash \/ UNCHANGED vars
    BY <1>1, <1>5 DEF Cancel, Exit, Crash, vars, redis
<1>6. ASSUME NEW c \in Consumers, HandleStep(c) \/ Stop(c) \/ SkipAck(c) PROVE Onward
  <2>1. UNCHANGED <<stream, delivered>> /\ pel' \subseteq pel /\ durable \subseteq durable'
      BY <1>6 DEF HandleStep, Process, ProcessSucceeds, ProcessFails, ProcessReturnsError,
                  Ack, AckFails, Stop, SkipAck, redis
  <2> QED BY <1>1, <2>1
<1>7. ASSUME NEW w \in Workers, CallReadGroup(w) \/ ReadGroupFails(w) PROVE Onward
    BY <1>1, <1>7 DEF CallReadGroup, ReadGroupFails, redis
<1>8. ASSUME NEW w \in Workers, ReadGroup(w) \/ ReadGroupLost(w) PROVE Onward
  <2>1. phase[w] = "reading" /\ w \in Consumers
      BY <1>8 DEF ReadGroup, ReadGroupLost, Consumers
  <2>2. delivered # NoGroup
      BY <2>1 DEF DeliveryInv, TypeOK
  <2>3. PICK n : n = Lesser(ReadCount, Len(stream) - delivered)
      OBVIOUS
  <2>4. n \in Nat
      BY <1>0, <2>2, <2>3, CountAssumption DEF Lesser
  <2>5. Deliver(n) /\ durable' = durable
      BY <1>8, <2>3 DEF ReadGroup, ReadGroupLost
  <2> QED BY <2>4, <2>5, DeliverOnward
<1>9. CASE ReclaimerStep
  <2>1. UNCHANGED <<stream, delivered, pel, durable>>
      BY <1>9 DEF ReclaimerStep, Tick, ClaimPending, ClaimPendingLost, ClaimPendingFails,
                  XAutoClaim, redis
  <2> QED BY <1>1, <2>1
<1> QED BY <1>2, <1>3, <1>4, <1>5, <1>6, <1>7, <1>8, <1>9 DEF Next, WorkerStep, Consumers

\* run() ensures the group before it starts anything, and the group stays.
LEMMA NextGroupEnsured ==
    ASSUME DeliveryInv, GroupEnsured, [Next]_vars
    PROVE  GroupEnsured' /\ (delivered # NoGroup => delivered' # NoGroup)
<1>1. delivered # NoGroup => delivered' # NoGroup
    BY NextOnward, StoreTypes DEF Onward, NoGroup
<1>2. run' # "down" => Start \/ run # "down"
    BY DEF Next, Publish, PublishForeign, XAdd, Age, StartFails, Cancel, Exit, Crash,
           HandleStep, Process, ProcessSucceeds, ProcessFails, ProcessReturnsError, Ack,
           AckFails, Stop, WorkerStep, CallReadGroup, ReadGroup, ReadGroupLost, ReadGroupFails,
           SkipAck, ReclaimerStep, Tick, ClaimPending, ClaimPendingLost, ClaimPendingFails, vars
<1>3. Start => delivered' # NoGroup
    BY DEF Start, EnsureGroup, NoGroup
<1> QED BY <1>1, <1>2, <1>3 DEF GroupEnsured

-----------------------------------------------------------------------------
(* The handler between its questions                                       *)

\* What an entry's acknowledgement established is not taken back.
LEMMA AcknowledgedStays ==
    ASSUME DeliveryInv, DeliveryInv', Onward, NEW i \in Nat \ {0}, Acknowledged(i)
    PROVE  Acknowledged(i)'
<1>1. i <= delivered /\ i \notin pel /\ stream[i].id \in durable
    BY DEF Acknowledged
<1>2. i \in 1..Len(stream)
    BY <1>1, StoreTypes
<1>3. stream'[i].id \in durable' /\ i \notin pel'
    BY <1>1, <1>2, StoreTypes DEF Onward
<1>4. i <= delivered'
  <2>1. delivered' \in Int
      BY LenProperties DEF DeliveryInv, TypeOK, NoGroup
  <2> QED BY <1>1, <2>1, StoreTypes DEF Onward
<1> QED BY <1>3, <1>4 DEF Acknowledged

\* While the service goes on, the answers the handler has stay right.
LEMMA WaitingHandler ==
    ASSUME StatsInv, DeliveryInv', Onward, delivered # NoGroup => delivered' # NoGroup,
           request' = request
    PROVE  HandlerInv'
<1>0. /\ request \in Requests /\ DeliveryInv
      /\ Situated /\ BacklogKnown /\ BacklogEmpty /\ DrainedMeansDone
    BY DEF StatsInv, HandlerInv
<1>1. /\ Len(stream) \in Nat /\ Len(stream') \in Nat /\ Len(stream) <= Len(stream')
      /\ delivered \in Int /\ delivered' \in Int /\ delivered <= delivered'
    BY <1>0, LenProperties DEF Onward, DeliveryInv, TypeOK, NoGroup
<1>2. request.seen \in Nat /\ request.queueDepth \in Nat
    BY <1>0 DEF Requests
<1>3. Situated'
    BY <1>0, <1>1, <1>2 DEF Situated
<1>4. BacklogKnown'
    BY <1>0, <1>1, <1>2 DEF BacklogKnown
<1>5. BacklogEmpty'
    BY <1>0, <1>1, <1>2 DEF BacklogEmpty
<1>6. DrainedMeansDone'
  <2> SUFFICES ASSUME request.at = "reply", request.errors = 0, request.queueDepth = 0,
                      request.pendingDepth = 0, NEW i \in 1..request.seen
               PROVE  Acknowledged(i)'
      BY DEF DrainedMeansDone
  <2>1. Acknowledged(i)
      BY <1>0 DEF DrainedMeansDone
  <2>2. i \in Nat \ {0}
      BY <1>2
  <2> QED BY <1>0, <2>1, <2>2, AcknowledgedStays
<1> QED BY <1>3, <1>4, <1>5, <1>6 DEF HandlerInv

\* A handler that is not serving a request has nothing to keep.
LEMMA IdleHandler == request = NoRequest => HandlerInv /\ request \in Requests
BY DEF NoRequest, HandlerInv, Situated, BacklogKnown, BacklogEmpty, DrainedMeansDone, Requests,
       Places

\* The service's steps.
LEMMA ServiceStats ==
    ASSUME StatsInv, ServiceStep
    PROVE  StatsInv'
<1>1. DeliveryInv' /\ Onward /\ GroupEnsured' /\ (delivered # NoGroup => delivered' # NoGroup)
    BY NextDelivery, NextOnward, NextGroupEnsured DEF StatsInv, ServiceStep
<1>2. CASE request' = NoRequest
  <2>1. (request = NoRequest => HandlerInv /\ request \in Requests)'
      BY IdleHandler, PTL
  <2> QED BY <1>1, <1>2, <2>1 DEF StatsInv
<1>3. CASE request' = request
    BY <1>1, <1>3, WaitingHandler DEF StatsInv
<1> QED BY <1>2, <1>3 DEF ServiceStep

\* No pending entry means an empty pending list.
LEMMA NothingPending ==
    ASSUME DeliveryInv
    PROVE  Cardinality(pel) \in Nat /\ (Cardinality(pel) = 0 => pel = {})
<1>1. 1..delivered \in SUBSET Int /\ pel \subseteq 1..delivered
    BY StoreTypes
<1>2. IsFiniteSet(1..delivered)
    BY StoreTypes, FS_Interval
<1>3. IsFiniteSet(pel)
    BY <1>1, <1>2, FS_Subset
<1> QED BY <1>3, FS_CardinalityType, FS_EmptySet

\* The stores stay as they are while a question is answered.
LEMMA AskedStores ==
    ASSUME StatsInv, UNCHANGED vars
    PROVE  DeliveryInv' /\ GroupEnsured' /\ UNCHANGED <<stream, delivered, pel, durable, run>>
<1>1. UNCHANGED <<stream, delivered, pel, durable, run>>
    BY DEF vars, redis
<1> QED BY <1>1, NextDelivery DEF StatsInv, GroupEnsured

\* What follows a question.
LEMMA Order ==
    /\ Following["get"] = "queueDepth"
    /\ Following["queueDepth"] = "streamLength"
    /\ Following["streamLength"] = "pendingDepth"
    /\ Following["pendingDepth"] = "reply"
BY DEF Following

\* A failed question leaves its mark on the response.
Failed(r, next) == [r EXCEPT !.at = next, !.errors = @ + 1]

\* The rest of the response is as it was.
LEMMA OneMoreError ==
    ASSUME NEW r \in Requests, NEW next \in Places
    PROVE  /\ Failed(r, next) \in Requests /\ Failed(r, next).at = next
           /\ Failed(r, next).seen = r.seen /\ Failed(r, next).errors # 0
<1>1. r.errors \in Nat
    BY DEF Requests
<1>2. PICK n \in Nat : n = r.errors + 1 /\ n # 0
    BY <1>1
<1>3. Failed(r, next) = [r EXCEPT !.at = next, !.errors = n]
    BY <1>2 DEF Failed, Requests
<1> QED BY <1>2, <1>3 DEF Requests

\* The handler's own steps.
LEMMA HandlerStats ==
    ASSUME StatsInv, NewStatsHandler
    PROVE  StatsInv'
<1>0. /\ request \in Requests /\ DeliveryInv /\ GroupEnsured
      /\ Situated /\ BacklogKnown /\ BacklogEmpty /\ DrainedMeansDone
    BY DEF StatsInv, HandlerInv
<1>1. UNCHANGED vars
    BY DEF NewStatsHandler, Get, QueueDepth, LagUnknown, QueueDepthFallback, QueueDepthFails,
           StreamLength, StreamLengthFails, PendingCount, PendingCountFails, Encode, AskFails, Ask
<1>2. DeliveryInv' /\ GroupEnsured' /\ UNCHANGED <<stream, delivered, pel, durable, run>>
    BY <1>1, AskedStores
<1>3. /\ Len(stream) \in Nat
      /\ delivered \in Int /\ delivered <= Len(stream)
      /\ delivered # NoGroup => delivered \in Nat
    BY <1>0, StoreTypes
<1>4. SUFFICES request' \in Requests /\ HandlerInv'
    BY <1>2 DEF StatsInv
<1> USE Order
\* Before the lag is known the reply is not yet there to be right or wrong.
<1>5. CASE Get
  <2>1. /\ request'.at = "queueDepth" /\ request'.seen = Len(stream)
        /\ request' \in Requests
      BY <1>3, <1>5 DEF Get, NoRequest, Requests, Places
  <2>2. delivered # NoGroup
      BY <1>0, <1>5 DEF Get, GroupEnsured
  <2> QED BY <1>2, <1>3, <2>1, <2>2
          DEF HandlerInv, Situated, BacklogKnown, BacklogEmpty, DrainedMeansDone
<1>6. CASE LagUnknown
  <2>1. /\ request'.at = "fallback" /\ request'.seen = request.seen /\ request' \in Requests
        /\ request.at # "idle"
      BY <1>0, <1>6 DEF LagUnknown, Ask, Requests, Places
  <2> QED BY <1>0, <1>2, <2>1
          DEF HandlerInv, Situated, BacklogKnown, BacklogEmpty, DrainedMeansDone
\* The lag, or the length of the stream in its place.
<1>7. CASE QueueDepth \/ QueueDepthFallback \/ QueueDepthFails
  <2>1. request.at \in {"queueDepth", "fallback"}
      BY <1>7 DEF QueueDepth, QueueDepthFallback, QueueDepthFails, AskFails, Ask
  <2>2. /\ delivered \in Nat /\ delivered # NoGroup
        /\ request.seen \in Nat /\ request.seen <= Len(stream)
      BY <1>0, <1>3, <2>1 DEF Situated, Requests
  <2>3. ASSUME NEW d \in {Len(stream) - delivered, Len(stream)},
               request' = [request EXCEPT !.at = "streamLength", !.queueDepth = d]
        PROVE  request' \in Requests /\ HandlerInv'
    <3>1. d \in Nat /\ d <= Len(stream) /\ (d = 0 => request.seen <= delivered)
        BY <1>3, <2>2, <2>3
    <3>2. /\ request'.at = "streamLength" /\ request'.seen = request.seen
          /\ request'.queueDepth = d /\ request' \in Requests
        BY <1>0, <2>3, <3>1 DEF Requests, Places
    <3> QED BY <1>2, <2>2, <3>1, <3>2
            DEF HandlerInv, Situated, BacklogKnown, BacklogEmpty, DrainedMeansDone
  <2>4. CASE QueueDepthFails
    <3>1. request' = Failed(request, "streamLength")
        BY <2>4 DEF QueueDepthFails, AskFails, Ask, Failed
    <3>2. /\ request'.at = "streamLength" /\ request'.seen = request.seen
          /\ request'.errors # 0 /\ request' \in Requests
        BY <1>0, <3>1, OneMoreError DEF Places
    <3> QED BY <1>2, <2>2, <3>2
            DEF HandlerInv, Situated, BacklogKnown, BacklogEmpty, DrainedMeansDone
  <2> QED BY <1>7, <2>3, <2>4 DEF QueueDepth, QueueDepthFallback, Ask
<1>8. CASE StreamLength
  <2>1. /\ request' = [request EXCEPT !.at = "pendingDepth", !.streamLength = Len(stream)]
        /\ request.at = "streamLength"
      BY <1>8 DEF StreamLength, Ask
  <2>2. /\ request'.at = "pendingDepth" /\ request'.seen = request.seen
        /\ request'.queueDepth = request.queueDepth /\ request'.errors = request.errors
        /\ request'.streamLength = Len(stream) /\ request' \in Requests
      BY <1>0, <1>3, <2>1 DEF Requests, Places
  <2> QED BY <1>0, <1>2, <2>1, <2>2
          DEF HandlerInv, Situated, BacklogKnown, BacklogEmpty, DrainedMeansDone
<1>9. CASE PendingCount
  <2>1. /\ request' = [request EXCEPT !.at = "reply", !.pendingDepth = Cardinality(pel)]
        /\ request.at = "pendingDepth"
      BY <1>9 DEF PendingCount, Ask
  <2>2. /\ request'.at = "reply" /\ request'.seen = request.seen
        /\ request'.queueDepth = request.queueDepth /\ request'.errors = request.errors
        /\ request'.streamLength = request.streamLength
        /\ request'.pendingDepth = Cardinality(pel) /\ request' \in Requests
      BY <1>0, <2>1, NothingPending DEF Requests, Places
  <2>3. Situated' /\ BacklogKnown' /\ BacklogEmpty'
      BY <1>0, <1>2, <2>1, <2>2 DEF Situated, BacklogKnown, BacklogEmpty
  <2>4. DrainedMeansDone'
    <3> SUFFICES ASSUME request.errors = 0, request.queueDepth = 0,
                        Cardinality(pel) = 0, NEW i \in 1..request.seen
                 PROVE  Acknowledged(i)
        BY <1>2, <2>2 DEF DrainedMeansDone, Acknowledged
    <3>1. pel = {}
        BY <1>0, NothingPending
    <3>2. i \in 1..delivered
        BY <1>0, <1>3, <2>1 DEF BacklogEmpty, Requests
    <3> QED BY <1>0, <1>3, <3>1, <3>2 DEF DeliveryInv, NothingLost, Acknowledged
  <2> QED BY <2>2, <2>3, <2>4 DEF HandlerInv
\* A question that failed leaves its depth 0, but queue_error says so.
<1>10. CASE StreamLengthFails \/ PendingCountFails
  <2>1. PICK next \in {"pendingDepth", "reply"} :
            request' = Failed(request, next)
      BY <1>10 DEF StreamLengthFails, PendingCountFails, AskFails, Ask, Failed
  <2>2. /\ request'.at = next /\ request'.seen = request.seen
        /\ request'.errors # 0 /\ request' \in Requests
      BY <1>0, <2>1, OneMoreError DEF Places
  <2>3. request.at # "idle"
      BY <1>10 DEF StreamLengthFails, PendingCountFails, AskFails, Ask
  <2> QED BY <1>0, <1>2, <2>2, <2>3
          DEF HandlerInv, Situated, BacklogKnown, BacklogEmpty, DrainedMeansDone
<1>11. CASE Encode
  <2>1. (request = NoRequest => HandlerInv /\ request \in Requests)'
      BY IdleHandler, PTL
  <2> QED BY <1>11, <2>1 DEF Encode, Ask
<1> QED BY <1>5, <1>6, <1>7, <1>8, <1>9, <1>10, <1>11 DEF NewStatsHandler

\* StatsInv is inductive.
LEMMA StatsInvariant == StatsSpec => []StatsInv
<1>1. StatsInit => StatsInv
    BY InitDelivery, IdleHandler DEF StatsInit, StatsInv, Init, GroupEnsured
<1>2. StatsInv /\ [StatsNext]_statsVars => StatsInv'
  <2> SUFFICES ASSUME StatsInv, [StatsNext]_statsVars PROVE StatsInv'
      OBVIOUS
  <2>1. CASE UNCHANGED statsVars
    <3>1. UNCHANGED vars /\ request' = request
        BY <2>1 DEF statsVars
    <3>2. DeliveryInv' /\ Onward /\ GroupEnsured'
        BY <3>1, NextDelivery, NextOnward, AskedStores DEF StatsInv
    <3>3. delivered' = delivered
        BY <3>1, AskedStores
    <3> QED BY <3>1, <3>2, <3>3, WaitingHandler DEF StatsInv
  <2> QED BY <2>1, HandlerStats, ServiceStats DEF StatsNext
<1> QED BY <1>1, <1>2, PTL DEF StatsSpec

\* The depths of a response are counts of entries: the lag never goes below
\* zero and an unknown lag is never reported (metrics.go:173-203,
\* redis_stream.go:234-287).
THEOREM StatsTypeCorrect == StatsSpec => []StatsTypeOK
<1>1. StatsInv => StatsTypeOK
    BY DEF StatsInv, StatsTypeOK, Requests, Places
<1> QED BY <1>1, StatsInvariant, PTL

\* The backlog of a response without queue_error never exceeds the length of
\* the stream it reports, although the two are read at different moments and
\* the backlog in one of two ways (metrics.go:173-191).
THEOREM StatsBacklogWithinStream == StatsSpec => []BacklogWithinStream
<1>1. StatsInv => BacklogWithinStream
    BY DEF StatsInv, HandlerInv, BacklogKnown, BacklogWithinStream
<1> QED BY <1>1, StatsInvariant, PTL

\* A response that shows an empty backlog and an empty pending list, without
\* queue_error, is right: every entry published before the request is delivered,
\* in the database and acknowledged (metrics.go:173-203, docs/RUNBOOK.md:98-102).
THEOREM StatsDrainedMeansDone == StatsSpec => []DrainedMeansDone
<1>1. StatsInv => DrainedMeansDone
    BY DEF StatsInv, HandlerInv
<1> QED BY <1>1, StatsInvariant, PTL
=============================================================================
