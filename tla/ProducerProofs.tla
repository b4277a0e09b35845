--------------------------- MODULE ProducerProofs ---------------------------
(***************************************************************************)
(* The producer's summary and its labels, for every configuration.         *)
(*                                                                         *)
(* The counters go up while events are buffered, so they are compared with *)
(* the log: what is on the stream followed by what the running flush has   *)
(* still to publish.  Books says that the log holds what the counters say  *)
(* and, with the events still to be emitted, every number handed out.      *)
(* Plan says how far the loops over the scenarios have come.  LabelInv     *)
(* says that the labels along the log are right and that the events still  *)
(* to be emitted will be, whatever their order has met by then.            *)
(***************************************************************************)
EXTENDS Producer, SequenceTheorems, FiniteSetTheorems, TLAPS

Counters == {"total", "unique", "duplicate", "outOfOrder", "invalid"}

\* The log and its length
Logged == Len(stream) - sent + Len(batch)
Log    == [n \in 1..Logged |-> IF n <= Len(stream) THEN stream[n]
                               ELSE batch[n - Len(stream) + sent]]

\* A run is over when it has a result.
Ended == stage = "done" <=> result # ""

\* Nothing was made before the configuration was accepted.
Fresh ==
    stage = "validate" =>
        /\ index = 0 /\ script = <<>> /\ due = <<>> /\ duplicatesRemaining = 0
        /\ orderSequence = 0 /\ eventSequence = 0 /\ summary = NoCounts
        /\ batch = <<>> /\ sent = 0 /\ stream = <<>>

\* Every unique event gets its duplicate as long as duplicates are wanted.
Paired ==
    /\ summary.total = summary.unique + summary.duplicate
    /\ duplicatesRemaining # 0 => summary.duplicate + Len(due) = summary.unique
    /\ due # <<>> => duplicatesRemaining # 0
    /\ summary.unique + Len(script) = eventSequence

\* Only the first event of an out-of-order scenario is flagged, only the last
\* one of an invalid scenario, and none of the others.
FirstFlagged == \A k \in 2..Len(script) : script[k].flag = ""
LastFlagged  == \A k \in 1..Len(script) :
                    script[k].flag = IF k = Len(script) THEN "invalid" ELSE ""
NoneFlagged  == \A k \in 1..Len(script) : script[k].flag = ""

\* How far generate has come: the number of events made and of flagged ones.
Plan ==
    /\ validate(config)
    /\ summary.duplicate + duplicatesRemaining = config.duplicates
    /\ stage = "outOfOrder" =>
          /\ index <= config.outOfOrder
          /\ eventSequence = outOfOrderScenarioSize(index)
          /\ FirstFlagged
          /\ script # <<>> => script[1].flag \in {"", "outOfOrder"}
          /\ summary.outOfOrder =
                IF script # <<>> /\ script[1].flag = "outOfOrder" THEN index - 1 ELSE index
          /\ summary.invalid = 0
    /\ stage = "invalid" =>
          /\ index <= config.invalid
          /\ eventSequence = outOfOrderScenarioSize(config.outOfOrder) + 4 * index
          /\ LastFlagged
          /\ summary.outOfOrder = config.outOfOrder
          /\ summary.invalid = IF script = <<>> THEN index ELSE index - 1
    /\ stage \in {"normal", "flush"} =>
          /\ eventSequence <= uniqueTarget(config)
          /\ NoneFlagged
          /\ summary.outOfOrder = config.outOfOrder
          /\ summary.invalid = config.invalid

\* generate has returned.
Returned ==
    /\ script = <<>> /\ due = <<>>
    /\ summary.unique = uniqueTarget(config)

\* The positions of a log with a flag
FlaggedIn(log, flag) == {n \in 1..Len(log) : log[n].flag = flag}

\* The log holds what the counters say.
Counted(log, counts) ==
    /\ counts.total = Len(log)
    /\ \A flag \in {"duplicate", "outOfOrder", "invalid"} :
          /\ IsFiniteSet(FlaggedIn(log, flag))
          /\ counts[flag] = Cardinality(FlaggedIn(log, flag))

\* The numbers handed out to events are those met in the log and in the script.
Numbered(log, s, last) ==
    /\ \A n \in 1..Len(log) : log[n].id \in 1..last
    /\ \A k \in 1..Len(s) : s[k].id \in 1..last
    /\ \A x \in 1..last : \/ \E n \in 1..Len(log) : log[n].id = x
                         \/ \E k \in 1..Len(s) : s[k].id = x

\* and so are the numbers of the orders.
Ordered(log, s, last) ==
    /\ \A n \in 1..Len(log) : log[n].order \in 1..last
    /\ \A k \in 1..Len(s) : s[k].order \in 1..last
    /\ \A x \in 1..last : \/ \E n \in 1..Len(log) : log[n].order = x
                         \/ \E k \in 1..Len(s) : s[k].order = x

\* The duplicate to be emitted repeats an event of the log.
Repeats(log, d) ==
    d # <<>> => /\ d[1].flag = "duplicate"
                /\ \E n \in 1..Len(log) : log[n].id = d[1].id /\ log[n].order = d[1].order

Books ==
    /\ Counted(Log, summary)
    /\ Numbered(Log, script, eventSequence)
    /\ Ordered(Log, script, orderSequence)
    /\ Repeats(Log, due)

\* An event yet to be emitted is not flagged as a duplicate.
Unflagged == \A k \in 1..Len(script) : script[k].flag \in {"", "outOfOrder", "invalid"}

ProducerInv ==
    /\ TypeOK /\ Ended /\ Fresh /\ Paired /\ Unflagged
    /\ stage \notin {"validate", "done"} => Plan
    /\ stage = "flush" => Returned /\ summary.total = config.total
    /\ result \in {"ok", "short"} => script = <<>> /\ due = <<>>
    /\ result # "failed" => Books
    /\ SummaryIsTrue /\ ShortOfDuplicatesOnly

-----------------------------------------------------------------------------
(* Types                                                                   *)

\* The five counters, and what counting does to them
LEMMA CounterNames == DOMAIN NoCounts = Counters
BY DEF NoCounts, Counters

\* All counters start at zero.
LEMMA NothingCounted ==
    /\ \A f \in Counters : NoCounts[f] = 0
    /\ NoCounts \in [Counters -> Nat]
<1>1. \A f \in Counters : NoCounts[f] = 0
    BY DEF NoCounts, Counters
<1>2. NoCounts = [f \in DOMAIN NoCounts |-> NoCounts[f]]
    BY DEF NoCounts
<1> QED BY <1>1, <1>2, CounterNames

\* Counting adds one to the counters named and nothing to the others.
LEMMA BumpAdds ==
    ASSUME summary \in [Counters -> Nat], NEW names
    PROVE  /\ Bump(names) \in [Counters -> Nat]
           /\ \A f \in Counters : Bump(names)[f] = IF f \in names THEN summary[f] + 1
                                                   ELSE summary[f]
BY DEF Bump

\* e is an event of order o with number i and this flag.
IsEvent(e, o, i, flag) ==
    e \in GeneratedEvent /\ e.order = o /\ e.id = i /\ e.flag = flag

\* The statuses and the flags the scenarios use
LEMMA Labels ==
    /\ "CREATED" \in Status /\ "PAID" \in Status /\ "SHIPPED" \in Status
    /\ "CANCELLED" \in Status
    /\ "" \in Flags /\ "outOfOrder" \in Flags /\ "invalid" \in Flags
    /\ "duplicate" \in Flags
BY DEF Status, Flags

\* The scenarios are made of events.
LEMMA EventType ==
    ASSUME NEW o \in Nat, NEW i \in Nat, NEW s \in Status, NEW flag \in Flags
    PROVE  IsEvent(Event(o, i, s, flag), o, i, flag)
BY DEF Event, GeneratedEvent, IsEvent

\* The events a scenario makes for order o from number i on
IsScenario(s, o, i) ==
    /\ s \in Seq(GeneratedEvent) /\ s # <<>>
    /\ \A k \in 1..Len(s) : /\ s[k].order = o /\ s[k].flag # "duplicate"
                            /\ s[k].id \in i..(i + Len(s) - 1)
    /\ \A x \in i..(i + Len(s) - 1) : \E k \in 1..Len(s) : s[k].id = x

\* Tuples are sequences.
LEMMA Single ==
    ASSUME NEW S, NEW a \in S, NEW s, s = <<a>>
    PROVE  Len(s) = 1 /\ s[1] = a /\ s \in Seq(S) /\ s # <<>>
OBVIOUS

\* Tuples are sequences.
LEMMA Pair ==
    ASSUME NEW S, NEW a \in S, NEW b \in S, NEW s, s = <<a, b>>
    PROVE  Len(s) = 2 /\ s[1] = a /\ s[2] = b /\ s \in Seq(S) /\ s # <<>>
OBVIOUS

\* Tuples are sequences.
LEMMA Triple ==
    ASSUME NEW S, NEW a \in S, NEW b \in S, NEW c \in S, NEW s, s = <<a, b, c>>
    PROVE  Len(s) = 3 /\ s[1] = a /\ s[2] = b /\ s[3] = c /\ s \in Seq(S) /\ s # <<>>
OBVIOUS

\* Tuples are sequences.
LEMMA Quadruple ==
    ASSUME NEW S, NEW a \in S, NEW b \in S, NEW c \in S, NEW d \in S, NEW s,
           s = <<a, b, c, d>>
    PROVE  /\ Len(s) = 4 /\ s[1] = a /\ s[2] = b /\ s[3] = c /\ s[4] = d
           /\ s \in Seq(S) /\ s # <<>>
OBVIOUS

\* paid before created
LEMMA PaidBeforeCreated ==
    ASSUME NEW o \in Nat, NEW i \in Nat, NEW s, s = paidBeforeCreated(o, i)
    PROVE  /\ IsScenario(s, o, i) /\ Len(s) = 2
           /\ s[1].flag = "outOfOrder" /\ s[2].flag = ""
<1>0. PICK j \in Nat : j = i + 1
    OBVIOUS
<1>1. PICK e1 : e1 = Event(o, j, "PAID", "outOfOrder") /\ IsEvent(e1, o, j, "outOfOrder")
    BY EventType, Labels
<1>2. PICK e2 : e2 = Event(o, i, "CREATED", "") /\ IsEvent(e2, o, i, "")
    BY EventType, Labels
<1>3. s = <<e1, e2>>
    BY <1>0, <1>1, <1>2 DEF paidBeforeCreated
<1>t. e1 \in GeneratedEvent /\ e2 \in GeneratedEvent
    BY <1>1, <1>2 DEF IsEvent
<1>4. Len(s) = 2 /\ s[1] = e1 /\ s[2] = e2 /\ s \in Seq(GeneratedEvent) /\ s # <<>>
    BY ONLY <1>3, <1>t, Pair
<1>5. \A k \in 1..2 : s[k] = e1 \/ s[k] = e2
    BY <1>4
<1>6. i..(i + 2 - 1) = {i, j}
    BY <1>0
<1>7. \A x \in {i, j} : \E k \in 1..2 : s[k].id = x
  <2>1. 1 \in 1..2 /\ 2 \in 1..2
      OBVIOUS
  <2> QED BY <1>1, <1>2, <1>4, <2>1 DEF IsEvent
<1>8. \A k \in 1..2 : s[k].order = o /\ s[k].flag # "duplicate" /\ s[k].id \in {i, j}
    BY <1>1, <1>2, <1>5 DEF IsEvent
<1> QED BY <1>1, <1>2, <1>4, <1>6, <1>7, <1>8 DEF IsEvent, IsScenario

\* shipped before paid
LEMMA ShippedBeforePaid ==
    ASSUME NEW o \in Nat, NEW i \in Nat, NEW s, s = shippedBeforePaid(o, i)
    PROVE  /\ IsScenario(s, o, i) /\ Len(s) = 3
           /\ s[1].flag = "outOfOrder" /\ s[2].flag = "" /\ s[3].flag = ""
<1>0. PICK j \in Nat, l \in Nat : j = i + 1 /\ l = i + 2
    OBVIOUS
<1>1. PICK e1 : e1 = Event(o, l, "SHIPPED", "outOfOrder") /\ IsEvent(e1, o, l, "outOfOrder")
    BY EventType, Labels
<1>2. PICK e2 : e2 = Event(o, i, "CREATED", "") /\ IsEvent(e2, o, i, "")
    BY EventType, Labels
<1>3. PICK e3 : e3 = Event(o, j, "PAID", "") /\ IsEvent(e3, o, j, "")
    BY EventType, Labels
<1>4. s = <<e1, e2, e3>>
    BY <1>0, <1>1, <1>2, <1>3 DEF shippedBeforePaid
<1>t. e1 \in GeneratedEvent /\ e2 \in GeneratedEvent /\ e3 \in GeneratedEvent
    BY <1>1, <1>2, <1>3 DEF IsEvent
<1>5. /\ Len(s) = 3 /\ s[1] = e1 /\ s[2] = e2 /\ s[3] = e3
      /\ s \in Seq(GeneratedEvent) /\ s # <<>>
    BY ONLY <1>4, <1>t, Triple
<1>6. \A k \in 1..3 : s[k] = e1 \/ s[k] = e2 \/ s[k] = e3
    BY <1>5
<1>7. i..(i + 3 - 1) = {i, j, l}
    BY <1>0
<1>8. \A x \in {i, j, l} : \E k \in 1..3 : s[k].id = x
  <2>1. 1 \in 1..3 /\ 2 \in 1..3 /\ 3 \in 1..3
      OBVIOUS
  <2> QED BY <1>1, <1>2, <1>3, <1>5, <2>1 DEF IsEvent
<1>9. \A k \in 1..3 : s[k].order = o /\ s[k].flag # "duplicate" /\ s[k].id \in {i, j, l}
    BY <1>1, <1>2, <1>3, <1>6 DEF IsEvent
<1>10. s[1].flag = "outOfOrder" /\ s[2].flag = "" /\ s[3].flag = ""
    BY <1>1, <1>2, <1>3, <1>5 DEF IsEvent
<1>11. IsScenario(s, o, i)
    BY ONLY <1>5, <1>7, <1>8, <1>9 DEF IsScenario
<1> QED BY <1>5, <1>10, <1>11

\* cancelled after shipped
LEMMA CancelledAfterShipped ==
    ASSUME NEW o \in Nat, NEW i \in Nat, NEW s, s = cancelledAfterShipped(o, i)
    PROVE  /\ IsScenario(s, o, i) /\ Len(s) = 4
           /\ s[1].flag = "" /\ s[2].flag = "" /\ s[3].flag = "" /\ s[4].flag = "invalid"
<1>0. PICK j \in Nat, l \in Nat, m \in Nat : j = i + 1 /\ l = i + 2 /\ m = i + 3
    OBVIOUS
<1>1. PICK e1 : e1 = Event(o, i, "CREATED", "") /\ IsEvent(e1, o, i, "")
    BY EventType, Labels
<1>2. PICK e2 : e2 = Event(o, j, "PAID", "") /\ IsEvent(e2, o, j, "")
    BY EventType, Labels
<1>3. PICK e3 : e3 = Event(o, l, "SHIPPED", "") /\ IsEvent(e3, o, l, "")
    BY EventType, Labels
<1>4. PICK e4 : e4 = Event(o, m, "CANCELLED", "invalid") /\ IsEvent(e4, o, m, "invalid")
    BY EventType, Labels
<1>5. s = <<e1, e2, e3, e4>>
    BY <1>0, <1>1, <1>2, <1>3, <1>4 DEF cancelledAfterShipped
<1>t. /\ e1 \in GeneratedEvent /\ e2 \in GeneratedEvent
      /\ e3 \in GeneratedEvent /\ e4 \in GeneratedEvent
    BY <1>1, <1>2, <1>3, <1>4 DEF IsEvent
<1>6. /\ Len(s) = 4 /\ s[1] = e1 /\ s[2] = e2 /\ s[3] = e3 /\ s[4] = e4
      /\ s \in Seq(GeneratedEvent) /\ s # <<>>
    BY ONLY <1>5, <1>t, Quadruple
<1>7. \A k \in 1..4 : s[k] = e1 \/ s[k] = e2 \/ s[k] = e3 \/ s[k] = e4
    BY <1>6
<1>8. i..(i + 4 - 1) = {i, j, l, m}
    BY <1>0
<1>9. \A x \in {i, j, l, m} : \E k \in 1..4 : s[k].id = x
  <2>1. 1 \in 1..4 /\ 2 \in 1..4 /\ 3 \in 1..4 /\ 4 \in 1..4
      OBVIOUS
  <2> QED BY <1>1, <1>2, <1>3, <1>4, <1>6, <2>1 DEF IsEvent
<1>10. \A k \in 1..4 : /\ s[k].order = o /\ s[k].flag # "duplicate"
                       /\ s[k].id \in {i, j, l, m}
    BY <1>1, <1>2, <1>3, <1>4, <1>7 DEF IsEvent
<1>11. s[1].flag = "" /\ s[2].flag = "" /\ s[3].flag = "" /\ s[4].flag = "invalid"
    BY <1>1, <1>2, <1>3, <1>4, <1>6 DEF IsEvent
<1>12. IsScenario(s, o, i)
    BY ONLY <1>6, <1>8, <1>9, <1>10 DEF IsScenario
<1> QED BY <1>6, <1>11, <1>12

\* A lifecycle is a sequence of statuses.
LEMMA Lifecycles ==
    \A lifecycle \in lifecycles : lifecycle \in Seq(Status) /\ lifecycle # <<>>
<1>1. <<"CREATED">> \in Seq(Status) /\ <<"CREATED">> # <<>>
    BY Labels, Single
<1>2. <<"CREATED", "PAID">> \in Seq(Status) /\ <<"CREATED", "PAID">> # <<>>
    BY Labels, Pair
<1>3. <<"CREATED", "CANCELLED">> \in Seq(Status) /\ <<"CREATED", "CANCELLED">> # <<>>
    BY Labels, Pair
<1>4. /\ <<"CREATED", "PAID", "SHIPPED">> \in Seq(Status)
      /\ <<"CREATED", "PAID", "SHIPPED">> # <<>>
  <2>1. PICK a \in Status, b \in Status, c \in Status :
            a = "CREATED" /\ b = "PAID" /\ c = "SHIPPED"
      BY Labels
  <2>2. <<a, b, c>> \in Seq(Status) /\ <<a, b, c>> # <<>>
      BY Triple
  <2> QED BY <2>1, <2>2
<1>5. /\ <<"CREATED", "PAID", "CANCELLED">> \in Seq(Status)
      /\ <<"CREATED", "PAID", "CANCELLED">> # <<>>
  <2>1. PICK a \in Status, b \in Status, c \in Status :
            a = "CREATED" /\ b = "PAID" /\ c = "CANCELLED"
      BY Labels
  <2>2. <<a, b, c>> \in Seq(Status) /\ <<a, b, c>> # <<>>
      BY Triple
  <2> QED BY <2>1, <2>2
<1> QED BY <1>1, <1>2, <1>3, <1>4, <1>5, Zenon DEF lifecycles

\* A scenario of at most n events without a flag
IsLifecycle(s, o, i, n) ==
    IsScenario(s, o, i) /\ Len(s) <= n /\ \A k \in 1..Len(s) : s[k].flag = ""

\* a lifecycle, cut off after count events
LEMMA InLifecycleOrder ==
    ASSUME NEW o \in Nat, NEW i \in Nat, NEW lifecycle \in lifecycles,
           NEW count \in Nat \ {0}, NEW s, s = inLifecycleOrder(o, i, lifecycle, count)
    PROVE  IsLifecycle(s, o, i, count)
<1>1. lifecycle \in Seq(Status) /\ Len(lifecycle) \in Nat /\ Len(lifecycle) # 0
    BY Lifecycles, LenProperties, EmptySeq
<1>2. PICK n : n = IF Len(lifecycle) > count THEN count ELSE Len(lifecycle)
    OBVIOUS
<1>3. n \in Nat \ {0} /\ n <= count /\ n <= Len(lifecycle)
    BY <1>1, <1>2
<1>4. s = [k \in 1..n |-> Event(o, i + k - 1, lifecycle[k], "")]
    BY <1>2 DEF inLifecycleOrder
<1>5. \A k \in 1..n : /\ s[k] \in GeneratedEvent /\ s[k].order = o
                      /\ s[k].id = i + k - 1 /\ s[k].flag = ""
  <2> SUFFICES ASSUME NEW k \in 1..n
               PROVE  /\ s[k] \in GeneratedEvent /\ s[k].order = o
                      /\ s[k].id = i + k - 1 /\ s[k].flag = ""
      OBVIOUS
  <2>1. PICK j \in Nat : j = i + k - 1
      BY <1>3
  <2>2. lifecycle[k] \in Status
      BY <1>1, <1>3, ElementOfSeq
  <2>3. IsEvent(Event(o, j, lifecycle[k], ""), o, j, "")
      BY <2>1, <2>2, EventType, Labels
  <2>4. s[k] = Event(o, j, lifecycle[k], "")
      BY <1>4, <2>1
  <2> QED BY <2>1, <2>3, <2>4 DEF IsEvent
<1>6. DOMAIN s = 1..n /\ s \in [1..n -> GeneratedEvent]
    BY <1>4, <1>5
<1>7. s \in Seq(GeneratedEvent) /\ Len(s) = n
    BY <1>3, <1>6, SeqDef, LenProperties
<1>8. s # <<>>
    BY <1>3, <1>7
<1>9. \A x \in i..(i + n - 1) : \E k \in 1..n : s[k].id = x
  <2> SUFFICES ASSUME NEW x \in i..(i + n - 1) PROVE \E k \in 1..n : s[k].id = x
      OBVIOUS
  <2>1. PICK k \in 1..n : k = x - i + 1
      BY <1>3
  <2>2. i + k - 1 = x
      BY <2>1
  <2> QED BY <1>5, <2>1, <2>2
<1>10. \A k \in 1..n : s[k].id \in i..(i + n - 1)
  <2> SUFFICES ASSUME NEW k \in 1..n PROVE s[k].id \in i..(i + n - 1)
      OBVIOUS
  <2>1. i + k - 1 \in i..(i + n - 1)
      BY <1>3
  <2> QED BY <1>5, <2>1
<1> QED BY <1>3, <1>5, <1>7, <1>8, <1>9, <1>10 DEF IsScenario, IsLifecycle

-----------------------------------------------------------------------------
(* The log                                                                 *)

\* The log is a sequence of events.
LEMMA LogType ==
    ASSUME TypeOK
    PROVE  Log \in Seq(GeneratedEvent) /\ Len(Log) = Logged /\ Logged \in Nat
<1>1. /\ stream \in Seq(GeneratedEvent) /\ batch \in Seq(GeneratedEvent)
      /\ Len(stream) \in Nat /\ Len(batch) \in Nat /\ sent \in 0..Len(batch)
    BY LenProperties DEF TypeOK
<1>2. Logged \in Nat
    BY <1>1 DEF Logged
<1>3. \A n \in 1..Logged : Log[n] \in GeneratedEvent
  <2> SUFFICES ASSUME NEW n \in 1..Logged PROVE Log[n] \in GeneratedEvent
      OBVIOUS
  <2>1. CASE n <= Len(stream)
    <3>1. n \in 1..Len(stream)
        BY <2>1, <1>1, <1>2
    <3>2. Log[n] = stream[n]
        BY <2>1 DEF Log
    <3> QED BY <1>1, <3>1, <3>2, ElementOfSeq
  <2>2. CASE ~(n <= Len(stream))
    <3>1. n - Len(stream) + sent \in 1..Len(batch)
        BY <2>2, <1>1, <1>2 DEF Logged
    <3>2. Log[n] = batch[n - Len(stream) + sent]
        BY <2>2 DEF Log
    <3> QED BY <1>1, <3>1, <3>2, ElementOfSeq
  <2> QED BY <2>1, <2>2
<1>4. Log \in [1..Logged -> GeneratedEvent] /\ DOMAIN Log = 1..Logged
    BY <1>3 DEF Log
<1> QED BY <1>2, <1>4, SeqDef, LenProperties

\* Two sequences of the same length are equal when their elements are.
LEMMA SameElements ==
    ASSUME NEW S, NEW s \in Seq(S), NEW t \in Seq(S), Len(s) = Len(t),
           \A n \in 1..Len(s) : s[n] = t[n]
    PROVE  s = t
BY SeqEqual

\* Publishing moves an event from the batch to the stream: the log stays.
LEMMA LogPublished ==
    ASSUME TypeOK, TypeOK', sent < Len(batch), stream' = Append(stream, batch[sent + 1]),
           sent' = sent + 1, batch' = batch
    PROVE  Log' = Log
<1>0. /\ stream \in Seq(GeneratedEvent) /\ batch \in Seq(GeneratedEvent)
      /\ Len(stream) \in Nat /\ Len(batch) \in Nat /\ sent \in 0..Len(batch)
    BY LenProperties DEF TypeOK
<1>1. /\ stream \in Seq(GeneratedEvent) /\ batch \in Seq(GeneratedEvent)
      /\ Len(stream) \in Nat /\ Len(batch) \in Nat /\ sent \in Nat
      /\ batch[sent + 1] \in GeneratedEvent
  <2>1. sent \in Nat /\ sent + 1 \in 1..Len(batch)
      BY <1>0
  <2> QED BY <1>0, <2>1, ElementOfSeq
<1>2. /\ Len(stream') = Len(stream) + 1
      /\ \A n \in 1..Len(stream) : stream'[n] = stream[n]
      /\ stream'[Len(stream) + 1] = batch[sent + 1]
    BY <1>1, AppendProperties
<1>3. Logged' = Logged
    BY <1>1, <1>2 DEF Logged
<1>4. Log \in Seq(GeneratedEvent) /\ Len(Log) = Logged /\ Logged \in Nat
    BY LogType
<1>5. Log' \in Seq(GeneratedEvent) /\ Len(Log') = Logged
  <2>1. (Log \in Seq(GeneratedEvent) /\ Len(Log) = Logged)'
      BY LogType, PTL
  <2> QED BY <1>3, <2>1
<1>6. ASSUME NEW n \in 1..Logged PROVE Log'[n] = Log[n]
  <2>1. Log'[n] = IF n <= Len(stream) + 1 THEN stream'[n]
                  ELSE batch[n - (Len(stream) + 1) + (sent + 1)]
      BY <1>2, <1>3 DEF Log
  <2>2. Log[n] = IF n <= Len(stream) THEN stream[n] ELSE batch[n - Len(stream) + sent]
      BY DEF Log
  <2>3. CASE n <= Len(stream)
      BY <1>1, <1>2, <1>4, <2>1, <2>2, <2>3
  <2>4. CASE n = Len(stream) + 1
    <3>1. n - Len(stream) + sent = sent + 1
        BY <1>1, <2>4
    <3> QED BY <1>1, <1>2, <2>1, <2>2, <2>4, <3>1
  <2>5. CASE n > Len(stream) + 1
    <3>1. n - Len(stream) + sent = n - (Len(stream) + 1) + (sent + 1)
        BY <1>1, <1>4
    <3> QED BY <1>1, <2>1, <2>2, <2>5, <3>1
  <2> QED BY <1>1, <1>4, <2>3, <2>4, <2>5
<1> QED BY <1>4, <1>5, <1>6, SameElements

\* When a flush has published its batch, the log is the stream.
LEMMA LogFlushed ==
    ASSUME TypeOK, sent = Len(batch)
    PROVE  Log = stream
<1>1. stream \in Seq(GeneratedEvent) /\ Len(stream) \in Nat /\ Len(batch) \in Nat
    BY LenProperties DEF TypeOK
<1>2. Logged = Len(stream)
    BY <1>1 DEF Logged
<1>3. Log \in Seq(GeneratedEvent) /\ Len(Log) = Len(stream)
    BY <1>2, LogType
<1>4. \A n \in 1..Len(stream) : Log[n] = stream[n]
    BY <1>1, <1>2 DEF Log
<1> QED BY <1>1, <1>3, <1>4, SameElements

\* Emptying the batch does not change the log.
LEMMA LogEmptied ==
    ASSUME TypeOK, TypeOK', sent = Len(batch), stream' = stream, batch' = <<>>, sent' = 0
    PROVE  Log' = Log
<1>1. Log = stream
    BY LogFlushed
<1>2. sent' = Len(batch')
    OBVIOUS
<1>3. (TypeOK /\ sent = Len(batch) => Log = stream)'
    BY LogFlushed, PTL
<1> QED BY <1>1, <1>2, <1>3

\* Buffering an event appends it to the log.
LEMMA LogAppended ==
    ASSUME TypeOK, TypeOK', NEW e \in GeneratedEvent, batch' = Append(batch, e),
           stream' = stream, sent' = sent
    PROVE  Log' = Append(Log, e)
<1>1. /\ stream \in Seq(GeneratedEvent) /\ batch \in Seq(GeneratedEvent)
      /\ Len(stream) \in Nat /\ Len(batch) \in Nat /\ sent \in 0..Len(batch)
    BY LenProperties DEF TypeOK
<1>2. /\ Len(batch') = Len(batch) + 1
      /\ \A n \in 1..Len(batch) : batch'[n] = batch[n]
      /\ batch'[Len(batch) + 1] = e
    BY <1>1, AppendProperties
<1>3. Logged' = Logged + 1
    BY <1>1, <1>2 DEF Logged
<1>4. Log \in Seq(GeneratedEvent) /\ Len(Log) = Logged /\ Logged \in Nat
    BY LogType
<1>5. Log' \in Seq(GeneratedEvent) /\ Len(Log') = Logged + 1
  <2>1. (Log \in Seq(GeneratedEvent) /\ Len(Log) = Logged)'
      BY LogType, PTL
  <2> QED BY <1>3, <2>1
<1>6. /\ Append(Log, e) \in Seq(GeneratedEvent) /\ Len(Append(Log, e)) = Logged + 1
      /\ \A n \in 1..Logged : Append(Log, e)[n] = Log[n]
      /\ Append(Log, e)[Logged + 1] = e
    BY <1>4, AppendProperties
<1>7. ASSUME NEW n \in 1..(Logged + 1) PROVE Log'[n] = Append(Log, e)[n]
  <2>1. Log'[n] = IF n <= Len(stream) THEN stream[n] ELSE batch'[n - Len(stream) + sent]
      BY <1>3 DEF Log
  <2>2. CASE n \in 1..Logged
    <3>1. Log[n] = IF n <= Len(stream) THEN stream[n] ELSE batch[n - Len(stream) + sent]
        BY <2>2 DEF Log
    <3>2. ~(n <= Len(stream)) => n - Len(stream) + sent \in 1..Len(batch)
        BY <1>1, <2>2 DEF Logged
    <3> QED BY <1>2, <1>6, <2>1, <2>2, <3>1, <3>2
  <2>3. CASE n = Logged + 1
    <3>1. ~(n <= Len(stream)) /\ n - Len(stream) + sent = Len(batch) + 1
        BY <1>1, <2>3 DEF Logged
    <3> QED BY <1>2, <1>6, <2>1, <2>3, <3>1
  <2> QED BY <1>4, <2>2, <2>3
<1> QED BY <1>5, <1>6, <1>7, SameElements

-----------------------------------------------------------------------------
(* The books                                                               *)

\* A log is one event longer: what that does to the positions with a flag.
LEMMA OneMore ==
    ASSUME NEW log \in Seq(GeneratedEvent), NEW e \in GeneratedEvent, NEW flag,
           IsFiniteSet(FlaggedIn(log, flag))
    PROVE  LET longer == Append(log, e)
           IN  /\ IsFiniteSet(FlaggedIn(longer, flag))
               /\ Cardinality(FlaggedIn(longer, flag)) =
                     Cardinality(FlaggedIn(log, flag)) + (IF e.flag = flag THEN 1 ELSE 0)
<1> DEFINE longer == Append(log, e)
<1>1. Len(log) \in Nat
    BY LenProperties
<1>2. /\ Len(longer) = Len(log) + 1 /\ longer[Len(log) + 1] = e
      /\ \A n \in 1..Len(log) : longer[n] = log[n]
    BY AppendProperties
<1> HIDE DEF longer
<1>3. Len(log) + 1 \notin FlaggedIn(log, flag)
    BY <1>1 DEF FlaggedIn
<1>4. CASE e.flag = flag
  <2>1. FlaggedIn(longer, flag) = FlaggedIn(log, flag) \cup {Len(log) + 1}
      BY <1>1, <1>2, <1>4 DEF FlaggedIn
  <2>2. /\ IsFiniteSet(FlaggedIn(log, flag) \cup {Len(log) + 1})
        /\ Cardinality(FlaggedIn(log, flag) \cup {Len(log) + 1}) =
              Cardinality(FlaggedIn(log, flag)) + 1
      BY <1>3, FS_AddElement
  <2> QED BY <1>4, <2>1, <2>2 DEF longer
<1>5. CASE e.flag # flag
  <2>1. FlaggedIn(longer, flag) = FlaggedIn(log, flag)
      BY <1>1, <1>2, <1>5 DEF FlaggedIn
  <2>2. Cardinality(FlaggedIn(log, flag)) \in Nat
      BY FS_CardinalityType
  <2> QED BY <1>5, <2>1, <2>2 DEF longer
<1> QED BY <1>4, <1>5

\* The counters named for an event keep the log counted.
LEMMA StillCounted ==
    ASSUME NEW log \in Seq(GeneratedEvent), NEW e \in GeneratedEvent,
           NEW counts \in [Counters -> Nat], NEW more \in [Counters -> Nat], NEW names,
           \A f \in Counters : more[f] = IF f \in names THEN counts[f] + 1 ELSE counts[f],
           "total" \in names,
           \A flag \in {"duplicate", "outOfOrder", "invalid"} : flag \in names <=> e.flag = flag,
           Counted(log, counts)
    PROVE  Counted(Append(log, e), more)
<1>1. Len(log) \in Nat /\ Len(Append(log, e)) = Len(log) + 1
    BY LenProperties, AppendProperties
<1>2. more["total"] = Len(Append(log, e))
    BY <1>1 DEF Counted, Counters
<1>3. ASSUME NEW flag \in {"duplicate", "outOfOrder", "invalid"}
      PROVE  /\ IsFiniteSet(FlaggedIn(Append(log, e), flag))
             /\ more[flag] = Cardinality(FlaggedIn(Append(log, e), flag))
  <2>1. flag \in Counters
      BY DEF Counters
  <2>2. /\ IsFiniteSet(FlaggedIn(log, flag)) /\ counts[flag] = Cardinality(FlaggedIn(log, flag))
        /\ counts[flag] \in Nat
      BY <2>1 DEF Counted
  <2>3. /\ IsFiniteSet(FlaggedIn(Append(log, e), flag))
        /\ Cardinality(FlaggedIn(Append(log, e), flag)) =
              Cardinality(FlaggedIn(log, flag)) + (IF e.flag = flag THEN 1 ELSE 0)
      BY <2>2, OneMore
  <2>4. more[flag] = IF e.flag = flag THEN counts[flag] + 1 ELSE counts[flag]
      BY <2>1
  <2> QED BY <2>2, <2>3, <2>4
<1> QED BY <1>2, <1>3 DEF Counted

\* An event moves from the script to the log.
LEMMA StillNumbered ==
    ASSUME NEW log \in Seq(GeneratedEvent), NEW s \in Seq(GeneratedEvent), s # <<>>,
           NEW last, NEW orders, Numbered(log, s, last), Ordered(log, s, orders)
    PROVE  /\ Numbered(Append(log, Head(s)), Tail(s), last)
           /\ Ordered(Append(log, Head(s)), Tail(s), orders)
<1> DEFINE longer == Append(log, Head(s))
           rest   == Tail(s)
<1>1. Len(log) \in Nat /\ Len(s) \in Nat /\ Len(s) # 0 /\ 1 \in 1..Len(s) /\ Head(s) = s[1]
    BY LenProperties, EmptySeq, HeadTailProperties
<1>2. Head(s) \in GeneratedEvent
    BY HeadTailProperties
<1>3. /\ Len(longer) = Len(log) + 1 /\ longer[Len(log) + 1] = s[1]
      /\ \A n \in 1..Len(log) : longer[n] = log[n]
    BY <1>1, <1>2, AppendProperties
<1>4. Len(rest) = Len(s) - 1 /\ \A k \in 1..Len(rest) : rest[k] = s[k + 1]
    BY HeadTailProperties
<1> HIDE DEF longer, rest
<1>5. \A n \in 1..Len(longer) : longer[n] = s[1] \/ \E m \in 1..Len(log) : longer[n] = log[m]
    BY <1>1, <1>3
<1>6. \A k \in 1..Len(rest) : \E m \in 1..Len(s) : rest[k] = s[m]
  <2> SUFFICES ASSUME NEW k \in 1..Len(rest) PROVE \E m \in 1..Len(s) : rest[k] = s[m]
      OBVIOUS
  <2>1. k + 1 \in 1..Len(s)
      BY <1>1, <1>4
  <2> QED BY <1>4, <2>1
<1>7. \A n \in 1..Len(log) : n \in 1..Len(longer) /\ longer[n] = log[n]
    BY <1>1, <1>3
<1>8. \A m \in 1..Len(s) : \/ \E n \in 1..Len(longer) : longer[n] = s[m]
                           \/ \E k \in 1..Len(rest) : rest[k] = s[m]
  <2> SUFFICES ASSUME NEW m \in 1..Len(s)
               PROVE  \/ \E n \in 1..Len(longer) : longer[n] = s[m]
                      \/ \E k \in 1..Len(rest) : rest[k] = s[m]
      OBVIOUS
  <2>1. CASE m = 1
    <3>1. Len(log) + 1 \in 1..Len(longer)
        BY <1>1, <1>3
    <3> QED BY <1>3, <2>1, <3>1
  <2>2. CASE m # 1
    <3>1. PICK k \in 1..Len(rest) : k + 1 = m
      <4>1. m - 1 \in 1..Len(rest) /\ (m - 1) + 1 = m
          BY <1>1, <1>4, <2>2
      <4> QED BY <4>1
    <3> QED BY <1>4, <3>1
  <2> QED BY <2>1, <2>2
<1>9. Numbered(longer, rest, last)
  <2>1. \A n \in 1..Len(longer) : longer[n].id \in 1..last
      BY <1>1, <1>5 DEF Numbered
  <2>2. \A k \in 1..Len(rest) : rest[k].id \in 1..last
      BY <1>6 DEF Numbered
  <2>3. ASSUME NEW x \in 1..last
        PROVE  \/ \E n \in 1..Len(longer) : longer[n].id = x
               \/ \E k \in 1..Len(rest) : rest[k].id = x
    <3>1. CASE \E n \in 1..Len(log) : log[n].id = x
        BY <1>7, <3>1
    <3>2. CASE \E m \in 1..Len(s) : s[m].id = x
      <4>1. PICK m \in 1..Len(s) : s[m].id = x
          BY <3>2
      <4> QED BY <1>8, <4>1
    <3> QED BY <3>1, <3>2 DEF Numbered
  <2> QED BY <2>1, <2>2, <2>3 DEF Numbered
<1>10. Ordered(longer, rest, orders)
  <2>1. \A n \in 1..Len(longer) : longer[n].order \in 1..orders
      BY <1>1, <1>5 DEF Ordered
  <2>2. \A k \in 1..Len(rest) : rest[k].order \in 1..orders
      BY <1>6 DEF Ordered
  <2>3. ASSUME NEW x \in 1..orders
        PROVE  \/ \E n \in 1..Len(longer) : longer[n].order = x
               \/ \E k \in 1..Len(rest) : rest[k].order = x
    <3>1. CASE \E n \in 1..Len(log) : log[n].order = x
        BY <1>7, <3>1
    <3>2. CASE \E m \in 1..Len(s) : s[m].order = x
      <4>1. PICK m \in 1..Len(s) : s[m].order = x
          BY <3>2
      <4> QED BY <1>8, <4>1
    <3> QED BY <3>1, <3>2 DEF Ordered
  <2> QED BY <2>1, <2>2, <2>3 DEF Ordered
<1> QED BY <1>9, <1>10 DEF longer, rest

\* A duplicate uses no new number.
LEMMA NumberedAgain ==
    ASSUME NEW log \in Seq(GeneratedEvent), NEW e \in GeneratedEvent, NEW s,
           \E n \in 1..Len(log) : log[n].id = e.id /\ log[n].order = e.order,
           NEW last, NEW orders, Numbered(log, s, last), Ordered(log, s, orders)
    PROVE  Numbered(Append(log, e), s, last) /\ Ordered(Append(log, e), s, orders)
<1> DEFINE longer == Append(log, e)
<1>1. Len(log) \in Nat
    BY LenProperties
<1>2. /\ Len(longer) = Len(log) + 1 /\ longer[Len(log) + 1] = e
      /\ \A n \in 1..Len(log) : longer[n] = log[n]
    BY AppendProperties
<1> HIDE DEF longer
<1>3. \A n \in 1..Len(longer) : \E m \in 1..Len(log) : /\ longer[n].id = log[m].id
                                                       /\ longer[n].order = log[m].order
  <2> SUFFICES ASSUME NEW n \in 1..Len(longer)
               PROVE  \E m \in 1..Len(log) : /\ longer[n].id = log[m].id
                                             /\ longer[n].order = log[m].order
      OBVIOUS
  <2>1. CASE n = Len(log) + 1
      BY <1>2, <2>1
  <2>2. CASE n \in 1..Len(log)
      BY <1>2, <2>2
  <2> QED BY <1>1, <1>2, <2>1, <2>2
<1>4. \A n \in 1..Len(log) : n \in 1..Len(longer) /\ longer[n] = log[n]
    BY <1>1, <1>2
<1>5. Numbered(longer, s, last)
  <2>1. \A n \in 1..Len(longer) : longer[n].id \in 1..last
      BY <1>3 DEF Numbered
  <2>2. \A k \in 1..Len(s) : s[k].id \in 1..last
      BY <1>3 DEF Numbered
  <2>3. ASSUME NEW x \in 1..last
        PROVE  \/ \E n \in 1..Len(longer) : longer[n].id = x
               \/ \E k \in 1..Len(s) : s[k].id = x
      BY <1>4 DEF Numbered
  <2> QED BY <2>1, <2>2, <2>3 DEF Numbered
<1>6. Ordered(longer, s, orders)
  <2>1. \A n \in 1..Len(longer) : longer[n].order \in 1..orders
      BY <1>3 DEF Ordered
  <2>2. \A k \in 1..Len(s) : s[k].order \in 1..orders
      BY <1>3 DEF Ordered
  <2>3. ASSUME NEW x \in 1..orders
        PROVE  \/ \E n \in 1..Len(longer) : longer[n].order = x
               \/ \E k \in 1..Len(s) : s[k].order = x
      BY <1>4 DEF Ordered
  <2> QED BY <2>1, <2>2, <2>3 DEF Ordered
<1> QED BY <1>5, <1>6 DEF longer

\* The events of the next order take the next numbers.
LEMMA NumberedOn ==
    ASSUME NEW log \in Seq(GeneratedEvent), NEW s, NEW last \in Nat, NEW orders \in Nat,
           IsScenario(s, orders + 1, last + 1),
           Numbered(log, <<>>, last), Ordered(log, <<>>, orders)
    PROVE  Numbered(log, s, last + Len(s)) /\ Ordered(log, s, orders + 1)
<1>1. Len(log) \in Nat /\ Len(s) \in Nat /\ 1 \in 1..Len(s)
    BY LenProperties, EmptySeq DEF IsScenario
<1>2. Len(<<>>) = 0 /\ 1..0 = {}
    OBVIOUS
<1>3. Numbered(log, s, last + Len(s))
  <2>1. \A n \in 1..Len(log) : log[n].id \in 1..(last + Len(s))
      BY <1>1 DEF Numbered
  <2>2. \A k \in 1..Len(s) : s[k].id \in 1..(last + Len(s))
      BY <1>1 DEF IsScenario
  <2>3. ASSUME NEW x \in 1..(last + Len(s))
        PROVE  \/ \E n \in 1..Len(log) : log[n].id = x
               \/ \E k \in 1..Len(s) : s[k].id = x
    <3>1. CASE x \in 1..last
        BY <1>2, <3>1 DEF Numbered
    <3>2. CASE x \in (last + 1)..(last + 1 + Len(s) - 1)
        BY <3>2 DEF IsScenario
    <3> QED BY <1>1, <3>1, <3>2
  <2> QED BY <2>1, <2>2, <2>3 DEF Numbered
<1>4. Ordered(log, s, orders + 1)
  <2>1. \A n \in 1..Len(log) : log[n].order \in 1..(orders + 1)
      BY <1>1 DEF Ordered
  <2>2. \A k \in 1..Len(s) : s[k].order \in 1..(orders + 1)
      BY <1>1 DEF IsScenario
  <2>3. ASSUME NEW x \in 1..(orders + 1)
        PROVE  \/ \E n \in 1..Len(log) : log[n].order = x
               \/ \E k \in 1..Len(s) : s[k].order = x
    <3>1. CASE x \in 1..orders
        BY <1>2, <3>1 DEF Ordered
    <3>2. CASE x = orders + 1
        BY <1>1, <3>2 DEF IsScenario
    <3> QED BY <3>1, <3>2
  <2> QED BY <2>1, <2>2, <2>3 DEF Ordered
<1> QED BY <1>3, <1>4

-----------------------------------------------------------------------------
(* The plan                                                                *)

\* What a configuration that validate accepts looks like.
LEMMA Accepted ==
    ASSUME NEW c \in producerConfig, validate(c)
    PROVE  /\ c.total \in Nat \ {0} /\ c.batchSize \in Nat \ {0}
           /\ c.duplicates \in Nat /\ c.outOfOrder \in Nat /\ c.invalid \in Nat
           /\ uniqueTarget(c) = c.total - c.duplicates /\ uniqueTarget(c) \in Int
           /\ outOfOrderScenarioSize(c.outOfOrder) + 4 * c.invalid <= uniqueTarget(c)
<1>1. /\ c.total \in Int /\ c.batchSize \in Int /\ c.duplicates \in Int
      /\ c.outOfOrder \in Int /\ c.invalid \in Int
    BY DEF producerConfig
<1>2. /\ c.total > 0 /\ c.batchSize > 0
      /\ {c.duplicates, c.outOfOrder, c.invalid} \subseteq 0..c.total
      /\ outOfOrderScenarioSize(c.outOfOrder) + 4 * c.invalid <= uniqueTarget(c)
    BY DEF validate
<1>3. c.duplicates \in 0..c.total /\ c.outOfOrder \in 0..c.total /\ c.invalid \in 0..c.total
    BY <1>2
<1> QED BY <1>1, <1>2, <1>3 DEF uniqueTarget

\* The size of the next out-of-order scenario
LEMMA ScenarioSizes ==
    ASSUME NEW i \in Nat
    PROVE  /\ outOfOrderScenarioSize(0) = 0
           /\ outOfOrderScenarioSize(i) \in Nat
           /\ i % 2 = 0 => outOfOrderScenarioSize(i + 1) = outOfOrderScenarioSize(i) + 2
           /\ i % 2 # 0 => outOfOrderScenarioSize(i + 1) = outOfOrderScenarioSize(i) + 3
BY DEF outOfOrderScenarioSize

\* The configuration is one of those the producer may be started with.
LEMMA Configured == ASSUME TypeOK PROVE config \in producerConfig
BY ConfigAssumption DEF TypeOK

\* The books depend on the log and on what generate keeps.
LEMMA BooksStay ==
    ASSUME Books, Log' = Log,
           UNCHANGED <<script, due, summary, eventSequence, orderSequence>>
    PROVE  Books'
BY DEF Books

\* Nothing of the log has changed.
LEMMA LogStays ==
    ASSUME UNCHANGED <<stream, batch, sent>>
    PROVE  Log' = Log
<1>1. Logged' = Logged
    BY DEF Logged
<1> QED BY <1>1 DEF Log

\* The initial states
LEMMA InitInv == Init => ProducerInv
<1> SUFFICES ASSUME Init PROVE ProducerInv
    OBVIOUS
<1>1. /\ config \in Configs /\ stage = "validate" /\ index = 0 /\ script = <<>>
      /\ due = <<>> /\ duplicatesRemaining = 0 /\ orderSequence = 0 /\ eventSequence = 0
      /\ summary = NoCounts /\ batch = <<>> /\ sent = 0 /\ stream = <<>> /\ result = ""
    BY DEF Init
<1>7. <<>> \in Seq(GeneratedEvent) /\ Len(<<>>) = 0 /\ 1..0 = {}
    OBVIOUS
<1>8. /\ script \in Seq(GeneratedEvent) /\ due \in Seq(GeneratedEvent)
      /\ batch \in Seq(GeneratedEvent) /\ stream \in Seq(GeneratedEvent)
    BY <1>1, <1>7
<1>9. Len(script) = 0 /\ Len(due) = 0 /\ Len(batch) = 0 /\ Len(stream) = 0
    BY <1>1, <1>8, EmptySeq
<1>10. /\ config \in Configs /\ stage = "validate" /\ result = ""
      /\ index \in Nat /\ duplicatesRemaining \in Nat
      /\ orderSequence \in Nat /\ eventSequence \in Nat
    BY <1>1
<1>2. TypeOK
  <2>1. summary \in [DOMAIN NoCounts -> Nat]
      BY <1>1, NothingCounted, CounterNames
  <2>2. Len(due) <= 1
      BY <1>9
  <2>3. sent = 0 /\ Len(batch) = 0
      BY <1>1, <1>9
  <2>4. sent \in 0..Len(batch)
      BY ONLY <2>3
  <2> QED BY ONLY <1>10, <1>8, <2>1, <2>2, <2>4 DEF TypeOK
<1>3. Ended /\ Fresh
    BY <1>1 DEF Ended, Fresh
<1>4. Paired /\ Unflagged
  <2>1. /\ summary.total = 0 /\ summary.unique = 0 /\ summary.duplicate = 0
      BY <1>1, NothingCounted DEF Counters
  <2>2. due = <<>>
      BY <1>1
  <2>3. duplicatesRemaining = 0 /\ eventSequence = 0 /\ Len(script) = 0
      BY <1>1, <1>9
  <2>4. Paired
      BY ONLY <2>1, <2>2, <2>3 DEF Paired
  <2>6. 1..Len(script) = {}
      BY ONLY <2>3
  <2>5. Unflagged
      BY ONLY <2>6 DEF Unflagged
  <2> QED BY <2>4, <2>5
<1>5. Log \in Seq(GeneratedEvent) /\ Len(Log) = 0
  <2>4. sent = 0
      BY <1>1
  <2>5. Len(stream) = 0
      BY <1>9
  <2>6. Len(batch) = 0
      BY <1>9
  <2>1. Logged = 0
      BY ONLY <2>4, <2>5, <2>6 DEF Logged
  <2> QED BY <1>2, <2>1, LogType
<1>6. Books
  <2>0. 1..Len(Log) = {}
      BY <1>5
  <2>1. \A flag : FlaggedIn(Log, flag) = {}
      BY <2>0 DEF FlaggedIn
  <2>2. Counted(Log, summary)
    <3>1. IsFiniteSet({}) /\ Cardinality({}) = 0
        BY FS_EmptySet
    <3>2. \A flag \in {"duplicate", "outOfOrder", "invalid", "total"} : summary[flag] = 0
        BY <1>1, NothingCounted DEF Counters
    <3> QED BY <1>5, <2>1, <3>1, <3>2 DEF Counted
  <2>3. Numbered(Log, script, eventSequence)
      BY <1>1, <1>7, <2>0 DEF Numbered
  <2>4. Ordered(Log, script, orderSequence)
      BY <1>1, <1>7, <2>0 DEF Ordered
  <2> QED BY <1>1, <2>2, <2>3, <2>4 DEF Books, Repeats
<1> QED BY <1>1, <1>2, <1>3, <1>4, <1>6 DEF ProducerInv, SummaryIsTrue, ShortOfDuplicatesOnly

\* The run fails, and the stream is at most one event longer.
LEMMA FailKeeps ==
    ASSUME ProducerInv, NEW why \in {"refused", "failed"}, Fail(why), stage # "done",
           stream' \in Seq(GeneratedEvent), why = "refused" => stream' = stream
    PROVE  ProducerInv'
<1>1. TypeOK /\ Paired /\ Unflagged
    BY DEF ProducerInv
<1>2. TypeOK'
    BY <1>1 DEF TypeOK, Fail, generator
<1>3. Ended' /\ Fresh'
    BY DEF Ended, Fresh, Fail
<1>4. Paired' /\ Unflagged'
    BY <1>1 DEF Paired, Unflagged, Fail, generator
<1>5. (stage \notin {"validate", "done"} => Plan)' /\ (stage # "flush")'
    BY DEF Fail
<1>6. result' = why /\ result' \notin {"ok", "short"}
    BY DEF Fail
<1>7. (result # "failed" => Books)'
  <2> SUFFICES ASSUME why = "refused" PROVE Books'
      BY <1>6
  <2>1. result # "failed"
      BY DEF ProducerInv, Ended
  <2>2. Books
      BY <2>1 DEF ProducerInv
  <2>3. UNCHANGED <<stream, batch, sent>>
      BY DEF Fail
  <2>4. Log' = Log
      BY <2>3, LogStays
  <2> QED BY <2>2, <2>4, BooksStay DEF Fail, generator
<1>8. SummaryIsTrue' /\ ShortOfDuplicatesOnly'
    BY DEF Fail, SummaryIsTrue, ShortOfDuplicatesOnly
<1> QED BY <1>2, <1>3, <1>4, <1>5, <1>6, <1>7, <1>8 DEF ProducerInv, Fail

\* The configuration is accepted.
LEMMA GenerateKeeps == ASSUME ProducerInv, Generate PROVE ProducerInv'
<1>1. /\ TypeOK /\ Ended /\ Fresh /\ Paired /\ Unflagged /\ Books
      /\ stage = "validate" /\ result = ""
    BY DEF ProducerInv, Generate, Ended
<1>2. config \in producerConfig /\ config.duplicates \in Nat /\ validate(config)
    BY <1>1, Configured, Accepted DEF Generate
<1>3. TypeOK'
    BY <1>1, <1>2 DEF TypeOK, Generate
<1>4. Ended' /\ Fresh' /\ Unflagged'
    BY <1>1 DEF Ended, Fresh, Unflagged, Generate
<1>z. /\ summary.total = 0 /\ summary.unique = 0 /\ summary.duplicate = 0
      /\ summary.outOfOrder = 0 /\ summary.invalid = 0
    BY <1>1, NothingCounted DEF Counters, Fresh
<1>f. script = <<>> /\ due = <<>> /\ eventSequence = 0 /\ index = 0
    BY <1>1 DEF Fresh
<1>g. /\ UNCHANGED <<config, script, due, eventSequence, index, summary>>
      /\ duplicatesRemaining' = config.duplicates /\ stage' = "outOfOrder"
    BY DEF Generate
<1>5. Paired'
    BY <1>z, <1>f, <1>g DEF Paired
<1>6. Plan'
  <2>1. outOfOrderScenarioSize(0) = 0 /\ config.outOfOrder \in Nat
      BY <1>2, Accepted, ScenarioSizes
  <2> QED BY <1>2, <1>z, <1>f, <1>g, <2>1 DEF Plan, FirstFlagged
<1>7. Books'
    BY <1>1, LogStays, BooksStay DEF Generate
<1> QED BY <1>1, <1>3, <1>4, <1>5, <1>6, <1>7
        DEF ProducerInv, SummaryIsTrue, ShortOfDuplicatesOnly, Generate

\* What the invariant says of a running generate
LEMMA Running ==
    ASSUME ProducerInv, stage \notin {"validate", "done"}
    PROVE  /\ TypeOK /\ Ended /\ Paired /\ Unflagged /\ Plan /\ Books /\ result = ""
           /\ stage = "flush" => Returned /\ summary.total = config.total
<1>1. TypeOK /\ Ended /\ result = ""
    BY DEF ProducerInv, Ended
<1> QED BY <1>1 DEF ProducerInv

\* What the invariant asks of a state in which generate goes on
LEMMA GoesOn ==
    ASSUME TypeOK, Ended, Paired, Unflagged, Plan, Books, stage \notin {"validate", "done"},
           stage = "flush" => Returned /\ summary.total = config.total
    PROVE  ProducerInv
<1>1. result = ""
    BY DEF TypeOK, Ended
<1> QED BY <1>1 DEF ProducerInv, Fresh, SummaryIsTrue, ShortOfDuplicatesOnly

\* An order is begun.
LEMMA BeginKeeps ==
    ASSUME ProducerInv, stage \in {"outOfOrder", "invalid", "normal"}, NEW s, BeginOrder(s),
           IsScenario(s, orderSequence + 1, eventSequence + 1), Plan'
    PROVE  ProducerInv'
<1>1. TypeOK /\ Ended /\ Paired /\ Unflagged /\ Plan /\ Books /\ result = ""
    BY Running
<1>0. script = <<>> /\ due = <<>>
    BY DEF BeginOrder, OrderEmitted
<1>2. /\ script' = s /\ index' = index + 1
      /\ orderSequence' = orderSequence + 1 /\ eventSequence' = eventSequence + Len(s)
      /\ UNCHANGED <<config, stage, due, duplicatesRemaining, summary, batch, sent,
                     stream, result>>
    BY DEF BeginOrder
<1>3. s \in Seq(GeneratedEvent) /\ Len(s) \in Nat
    BY LenProperties DEF IsScenario
<1>4. index \in Nat /\ orderSequence \in Nat /\ eventSequence \in Nat
    BY <1>1 DEF TypeOK
<1>5. TypeOK'
  <2>1. index' \in Nat /\ orderSequence' \in Nat /\ eventSequence' \in Nat
      BY <1>2, <1>3, <1>4
  <2>2. script' \in Seq(GeneratedEvent)
      BY <1>2, <1>3
  <2>3. UNCHANGED <<config, stage, due, duplicatesRemaining, summary, batch, sent,
                    stream, result>>
      BY <1>2
  <2> QED BY ONLY <1>1, <2>1, <2>2, <2>3 DEF TypeOK
<1>6. Ended'
    BY <1>1, <1>2 DEF Ended
<1>7. Paired'
  <2>1. summary.unique \in Nat
      BY <1>1, CounterNames DEF TypeOK, Counters
  <2>2. Len(script) = 0
      BY <1>0
  <2>4. summary.unique + Len(script) = eventSequence
      BY <1>1 DEF Paired
  <2>3. summary.unique = eventSequence
      BY ONLY <2>1, <2>2, <2>4
  <2> QED BY <1>1, <1>2, <1>3, <2>1, <2>3 DEF Paired
<1>8. Unflagged'
  <2>1. \A k \in 1..Len(s) : s[k] \in GeneratedEvent
      BY <1>3, ElementOfSeq
  <2>2. \A k \in 1..Len(s) : s[k].flag \in Flags
      BY <2>1 DEF GeneratedEvent
  <2> QED BY <1>2, <2>2 DEF Unflagged, Flags, IsScenario
<1>9. Books'
  <2>1. Log' = Log /\ Log \in Seq(GeneratedEvent)
      BY <1>1, <1>2, LogStays, LogType
  <2>2. Numbered(Log, <<>>, eventSequence) /\ Ordered(Log, <<>>, orderSequence)
      BY <1>0, <1>1 DEF Books
  <2>3. /\ Numbered(Log, s, eventSequence + Len(s))
        /\ Ordered(Log, s, orderSequence + 1)
      BY <1>4, <2>1, <2>2, NumberedOn
  <2> QED BY <1>1, <1>2, <2>1, <2>3 DEF Books
<1> QED
  <2>1. stage' \notin {"validate", "done"} /\ stage' # "flush"
      BY <1>2
  <2>2. (/\ TypeOK /\ Ended /\ Paired /\ Unflagged /\ Plan /\ Books
         /\ stage \notin {"validate", "done"}
         /\ stage = "flush" => Returned /\ summary.total = config.total
         => ProducerInv)'
      BY GoesOn, PTL
  <2> QED BY <1>5, <1>6, <1>7, <1>8, <1>9, <2>1, <2>2

\* generate's numbers, and the script of an order that was emitted
LEMMA Between ==
    ASSUME ProducerInv, stage \notin {"validate", "done"}, OrderEmitted
    PROVE  /\ index \in Nat /\ orderSequence \in Nat /\ eventSequence \in Nat
           /\ \A f \in Counters : summary[f] \in Nat
           /\ summary.unique = eventSequence /\ duplicatesRemaining \in Nat
           /\ config \in producerConfig /\ validate(config)
           /\ summary.duplicate + duplicatesRemaining = config.duplicates
           /\ duplicatesRemaining # 0 => summary.duplicate = summary.unique
           /\ summary.total = summary.unique + summary.duplicate
<1>1. TypeOK /\ Paired /\ Plan
    BY Running
<1>2. Len(script) = 0 /\ Len(due) = 0
    BY DEF OrderEmitted
<1>3. /\ index \in Nat /\ orderSequence \in Nat /\ eventSequence \in Nat
      /\ duplicatesRemaining \in Nat
    BY <1>1 DEF TypeOK
<1>4. \A f \in Counters : summary[f] \in Nat
    BY <1>1, CounterNames DEF TypeOK
<1>5. summary.unique \in Nat /\ summary.duplicate \in Nat
    BY <1>4 DEF Counters
<1>6. /\ summary.unique + Len(script) = eventSequence
      /\ duplicatesRemaining # 0 => summary.duplicate + Len(due) = summary.unique
      /\ summary.total = summary.unique + summary.duplicate
    BY <1>1 DEF Paired
<1>7. config \in producerConfig
    BY <1>1, Configured
<1>8. validate(config) /\ summary.duplicate + duplicatesRemaining = config.duplicates
    BY <1>1 DEF Plan
<1>9. /\ summary.unique = eventSequence
      /\ duplicatesRemaining # 0 => summary.duplicate = summary.unique
    BY ONLY <1>2, <1>3, <1>5, <1>6
<1> QED BY <1>3, <1>4, <1>6, <1>7, <1>8, <1>9

\* The next order and the next event have a number.
LEMMA NextNumbers ==
    ASSUME ProducerInv
    PROVE  \E o \in Nat, i \in Nat : o = orderSequence + 1 /\ i = eventSequence + 1
<1>1. orderSequence \in Nat /\ eventSequence \in Nat
    BY DEF ProducerInv, TypeOK
<1>2. orderSequence + 1 \in Nat /\ eventSequence + 1 \in Nat
    BY <1>1
<1> QED BY <1>2

\* generateOutOfOrder
LEMMA OutOfOrderKeeps == ASSUME ProducerInv, generateOutOfOrder PROVE ProducerInv'
<1>1. stage = "outOfOrder" /\ index < config.outOfOrder
    BY DEF generateOutOfOrder
<1>2. PICK o \in Nat, i \in Nat : o = orderSequence + 1 /\ i = eventSequence + 1
    BY NextNumbers
<1>3. PICK s : s = IF index % 2 = 0 THEN paidBeforeCreated(o, i) ELSE shippedBeforePaid(o, i)
    OBVIOUS
<1>4. BeginOrder(s)
    BY <1>2, <1>3 DEF generateOutOfOrder
<1>5. /\ index \in Nat /\ config \in producerConfig /\ validate(config)
      /\ summary.duplicate + duplicatesRemaining = config.duplicates
    BY <1>1, <1>4, Between DEF BeginOrder
<1>6. config.outOfOrder \in Nat
    BY <1>5, Accepted
<1>7. /\ IsScenario(s, o, i) /\ Len(s) = IF index % 2 = 0 THEN 2 ELSE 3
      /\ s[1].flag = "outOfOrder" /\ \A k \in 2..Len(s) : s[k].flag = ""
  <2>1. CASE index % 2 = 0
    <3>1. /\ IsScenario(s, o, i) /\ Len(s) = 2 /\ s[1].flag = "outOfOrder" /\ s[2].flag = ""
        BY <1>3, <2>1, PaidBeforeCreated
    <3>2. \A k \in 2..2 : k = 2
        OBVIOUS
    <3> QED BY <2>1, <3>1, <3>2
  <2>2. CASE index % 2 # 0
    <3>1. /\ IsScenario(s, o, i) /\ Len(s) = 3 /\ s[1].flag = "outOfOrder"
          /\ s[2].flag = "" /\ s[3].flag = ""
        BY <1>3, <2>2, ShippedBeforePaid
    <3>2. \A k \in 2..3 : k = 2 \/ k = 3
        OBVIOUS
    <3> QED BY <2>2, <3>1, <3>2
  <2> QED BY <2>1, <2>2
<1>8. /\ script' = s /\ index' = index + 1 /\ stage' = "outOfOrder"
      /\ eventSequence' = eventSequence + Len(s)
      /\ UNCHANGED <<config, duplicatesRemaining, summary>>
    BY <1>1, <1>4 DEF BeginOrder
<1>9. script = <<>>
    BY <1>4 DEF BeginOrder, OrderEmitted
<1>10. /\ eventSequence = outOfOrderScenarioSize(index)
       /\ summary.outOfOrder = index /\ summary.invalid = 0
    BY <1>1, <1>9, Running DEF Plan
<1>11. eventSequence' = outOfOrderScenarioSize(index + 1)
    BY <1>5, <1>7, <1>8, <1>10, ScenarioSizes
<1>12. s # <<>>
    BY <1>7 DEF IsScenario
<1>13. index + 1 <= config.outOfOrder /\ (index + 1) - 1 = index
    BY <1>1, <1>5, <1>6
<1>14. FirstFlagged'
    BY <1>7, <1>8 DEF FirstFlagged
<1>15. Plan'
    BY <1>5, <1>7, <1>8, <1>10, <1>11, <1>12, <1>13, <1>14 DEF Plan
<1> QED BY <1>1, <1>2, <1>4, <1>7, <1>15, BeginKeeps

\* generateInvalid
LEMMA InvalidKeeps == ASSUME ProducerInv, generateInvalid PROVE ProducerInv'
<1>1. stage = "invalid" /\ index < config.invalid
    BY DEF generateInvalid
<1>2. PICK o \in Nat, i \in Nat : o = orderSequence + 1 /\ i = eventSequence + 1
    BY NextNumbers
<1>3. PICK s : s = cancelledAfterShipped(o, i)
    OBVIOUS
<1>4. BeginOrder(s)
    BY <1>2, <1>3 DEF generateInvalid
<1>5. /\ index \in Nat /\ config \in producerConfig /\ validate(config)
      /\ summary.duplicate + duplicatesRemaining = config.duplicates
    BY <1>1, <1>4, Between DEF BeginOrder
<1>6. config.outOfOrder \in Nat /\ config.invalid \in Nat
    BY <1>5, Accepted
<1>7. /\ IsScenario(s, o, i) /\ Len(s) = 4
      /\ s[1].flag = "" /\ s[2].flag = "" /\ s[3].flag = "" /\ s[4].flag = "invalid"
    BY <1>3, CancelledAfterShipped
<1>8. /\ script' = s /\ index' = index + 1 /\ stage' = "invalid"
      /\ eventSequence' = eventSequence + Len(s)
      /\ UNCHANGED <<config, duplicatesRemaining, summary>>
    BY <1>1, <1>4 DEF BeginOrder
<1>9. script = <<>>
    BY <1>4 DEF BeginOrder, OrderEmitted
<1>10. /\ eventSequence = outOfOrderScenarioSize(config.outOfOrder) + 4 * index
       /\ summary.outOfOrder = config.outOfOrder /\ summary.invalid = index
    BY <1>1, <1>9, Running DEF Plan
<1>11. eventSequence' = outOfOrderScenarioSize(config.outOfOrder) + 4 * (index + 1)
  <2>1. outOfOrderScenarioSize(config.outOfOrder) \in Nat
      BY <1>6, ScenarioSizes
  <2>2. PICK size \in Nat : size = outOfOrderScenarioSize(config.outOfOrder)
      BY <2>1
  <2>3. eventSequence' = size + 4 * index + 4
      BY <1>7, <1>8, <1>10, <2>2
  <2>4. size + 4 * index + 4 = size + 4 * (index + 1)
      BY <1>5
  <2> QED BY <2>2, <2>3, <2>4
<1>12. s # <<>>
    BY <1>7 DEF IsScenario
<1>13. index + 1 <= config.invalid /\ (index + 1) - 1 = index
    BY <1>1, <1>5, <1>6
<1>14. LastFlagged'
  <2>1. \A k \in 1..4 : k = 1 \/ k = 2 \/ k = 3 \/ k = 4
      OBVIOUS
  <2>2. \A k \in 1..Len(s) : s[k].flag = IF k = Len(s) THEN "invalid" ELSE ""
      BY <1>7, <2>1
  <2> QED BY <1>8, <2>2 DEF LastFlagged
<1>15. Plan'
    BY <1>5, <1>8, <1>10, <1>11, <1>12, <1>13, <1>14 DEF Plan
<1> QED BY <1>1, <1>2, <1>4, <1>7, <1>15, BeginKeeps

\* generateNormal
LEMMA NormalKeeps == ASSUME ProducerInv, generateNormal PROVE ProducerInv'
<1>1. stage = "normal" /\ uniqueTarget(config) > summary.unique
    BY DEF generateNormal
<1>2. PICK o \in Nat, i \in Nat : o = orderSequence + 1 /\ i = eventSequence + 1
    BY NextNumbers
<1>3. PICK lifecycle \in lifecycles :
         BeginOrder(inLifecycleOrder(o, i, lifecycle, uniqueTarget(config) - summary.unique))
    BY <1>2 DEF generateNormal
<1>4. PICK count : count = uniqueTarget(config) - summary.unique
    OBVIOUS
<1>5. PICK s : s = inLifecycleOrder(o, i, lifecycle, count)
    OBVIOUS
<1>6. BeginOrder(s)
    BY <1>3, <1>4, <1>5
<1>7. /\ config \in producerConfig /\ validate(config) /\ eventSequence \in Nat
      /\ summary.duplicate + duplicatesRemaining = config.duplicates
      /\ summary.unique = eventSequence
    BY <1>1, <1>6, Between DEF BeginOrder
<1>8. uniqueTarget(config) \in Int
    BY <1>7, Accepted
<1>9. count \in Nat \ {0} /\ eventSequence + count = uniqueTarget(config)
    BY <1>1, <1>4, <1>7, <1>8
<1>10. IsScenario(s, o, i) /\ Len(s) <= count /\ \A k \in 1..Len(s) : s[k].flag = ""
  <2>1. PICK n \in Nat \ {0} : n = count
      BY <1>9
  <2>2. s = inLifecycleOrder(o, i, lifecycle, n)
      BY <1>5, <2>1
  <2>3. IsLifecycle(s, o, i, n)
      BY <2>2, InLifecycleOrder
  <2> QED BY <2>1, <2>3 DEF IsLifecycle
<1>11. /\ script' = s /\ stage' = "normal" /\ eventSequence' = eventSequence + Len(s)
       /\ UNCHANGED <<config, duplicatesRemaining, summary>>
    BY <1>1, <1>6 DEF BeginOrder
<1>12. Len(s) \in Nat
    BY <1>10, LenProperties DEF IsScenario
<1>13. eventSequence' <= uniqueTarget(config)
  <2>1. eventSequence' = eventSequence + Len(s) /\ Len(s) <= count
      BY <1>10, <1>11
  <2>2. eventSequence \in Nat
      BY <1>7
  <2> QED BY ONLY <1>8, <1>9, <1>12, <2>1, <2>2
<1>14. NoneFlagged'
    BY <1>10, <1>11 DEF NoneFlagged
<1>15. summary.outOfOrder = config.outOfOrder /\ summary.invalid = config.invalid
    BY <1>1, Running DEF Plan
<1>16. Plan'
    BY <1>7, <1>11, <1>13, <1>14, <1>15 DEF Plan
<1> QED BY <1>1, <1>2, <1>6, <1>10, <1>16, BeginKeeps

\* What the invariant asks of the next state when generate goes on
LEMMA GoesOnNext ==
    ASSUME TypeOK', Ended', Paired', Unflagged', Plan', Books', stage' \notin {"validate", "done"},
           stage' = "flush" => Returned' /\ (summary.total = config.total)'
    PROVE  ProducerInv'
<1>1. (/\ TypeOK /\ Ended /\ Paired /\ Unflagged /\ Plan /\ Books
       /\ stage \notin {"validate", "done"}
       /\ stage = "flush" => Returned /\ summary.total = config.total
       => ProducerInv)'
    BY GoesOn, PTL
<1> QED BY <1>1

\* A loop over scenarios ends.
LEMMA LoopKeeps ==
    ASSUME ProducerInv, NEW from \in {"outOfOrder", "invalid"}, NEW count,
           NEW to \in {"invalid", "normal"}, LoopEnds(from, count, to), Plan'
    PROVE  ProducerInv'
<1>1. stage \notin {"validate", "done"} /\ stage' = to
    BY DEF LoopEnds
<1>2. TypeOK /\ Ended /\ Paired /\ Unflagged /\ Books /\ result = ""
    BY <1>1, Running
<1>3. TypeOK'
    BY <1>1, <1>2 DEF TypeOK, LoopEnds
<1>4. Ended' /\ Paired' /\ Unflagged'
    BY <1>1, <1>2 DEF Ended, Paired, Unflagged, LoopEnds
<1>5. Books'
  <2>1. Log' = Log
      BY LogStays DEF LoopEnds
  <2> QED BY <1>2, <2>1, BooksStay DEF LoopEnds
<1> QED BY <1>1, <1>3, <1>4, <1>5, GoesOnNext

\* The loop over the out-of-order scenarios ends.
LEMMA OutOfOrderEnds ==
    ASSUME ProducerInv, LoopEnds("outOfOrder", config.outOfOrder, "invalid")
    PROVE  ProducerInv'
<1>1. PICK count : count = config.outOfOrder
    OBVIOUS
<1>2. LoopEnds("outOfOrder", count, "invalid")
    BY <1>1
<1>3. stage = "outOfOrder" /\ OrderEmitted /\ index >= count
    BY <1>2 DEF LoopEnds
<1>4. /\ index \in Nat /\ config \in producerConfig /\ validate(config)
      /\ summary.duplicate + duplicatesRemaining = config.duplicates
    BY <1>3, Between
<1>5. count \in Nat /\ config.invalid \in Nat
    BY <1>1, <1>4, Accepted
<1>6. Plan /\ script = <<>>
    BY <1>3, Running DEF OrderEmitted
<1>7. index <= count /\ eventSequence = outOfOrderScenarioSize(index)
    BY <1>1, <1>3, <1>6 DEF Plan
<1>8. index = count
    BY <1>3, <1>4, <1>5, <1>7
<1>9. summary.outOfOrder = count /\ summary.invalid = 0
    BY <1>3, <1>6, <1>8 DEF Plan
<1>10. /\ stage' = "invalid" /\ index' = 0
       /\ UNCHANGED <<config, script, duplicatesRemaining, eventSequence, summary>>
    BY <1>2 DEF LoopEnds
<1>11. eventSequence = outOfOrderScenarioSize(count) + 4 * 0
  <2>1. outOfOrderScenarioSize(count) \in Nat
      BY <1>5, ScenarioSizes
  <2> QED BY <1>7, <1>8, <2>1
<1>12. LastFlagged'
  <2>1. 1..Len(<<>>) = {}
      OBVIOUS
  <2> QED BY <1>6, <1>10, <2>1 DEF LastFlagged
<1>13. Plan'
    BY <1>1, <1>4, <1>5, <1>6, <1>9, <1>10, <1>11, <1>12 DEF Plan
<1> QED BY <1>2, <1>13, LoopKeeps

\* The loop over the invalid scenarios ends.
LEMMA InvalidEnds ==
    ASSUME ProducerInv, LoopEnds("invalid", config.invalid, "normal")
    PROVE  ProducerInv'
<1>1. PICK count : count = config.invalid
    OBVIOUS
<1>2. LoopEnds("invalid", count, "normal")
    BY <1>1
<1>3. stage = "invalid" /\ OrderEmitted /\ index >= count
    BY <1>2 DEF LoopEnds
<1>4. /\ index \in Nat /\ config \in producerConfig /\ validate(config)
      /\ summary.duplicate + duplicatesRemaining = config.duplicates
    BY <1>3, Between
<1>5. /\ count \in Nat
      /\ outOfOrderScenarioSize(config.outOfOrder) + 4 * count <= uniqueTarget(config)
    BY <1>1, <1>4, Accepted
<1>6. Plan /\ script = <<>>
    BY <1>3, Running DEF OrderEmitted
<1>7. /\ index <= count
      /\ eventSequence = outOfOrderScenarioSize(config.outOfOrder) + 4 * index
    BY <1>1, <1>3, <1>6 DEF Plan
<1>8. index = count
    BY <1>3, <1>4, <1>5, <1>7
<1>9. summary.outOfOrder = config.outOfOrder /\ summary.invalid = count
    BY <1>3, <1>6, <1>8 DEF Plan
<1>10. /\ stage' = "normal" /\ index' = 0
       /\ UNCHANGED <<config, script, duplicatesRemaining, eventSequence, summary>>
    BY <1>2 DEF LoopEnds
<1>11. NoneFlagged'
  <2>1. 1..Len(<<>>) = {}
      OBVIOUS
  <2> QED BY <1>6, <1>10, <2>1 DEF NoneFlagged
<1>12. eventSequence <= uniqueTarget(config)
    BY <1>5, <1>7, <1>8
<1>13. Plan'
    BY <1>1, <1>4, <1>9, <1>10, <1>11, <1>12 DEF Plan
<1> QED BY <1>2, <1>13, LoopKeeps

\* generate returns, satisfied or not.
LEMMA ReturnKeeps == ASSUME ProducerInv, GenerateReturns PROVE ProducerInv'
<1>1. stage = "normal" /\ OrderEmitted /\ uniqueTarget(config) <= summary.unique
    BY DEF GenerateReturns
<1>2. /\ script = <<>> /\ due = <<>> /\ Plan /\ Books /\ TypeOK /\ Ended
      /\ Paired /\ Unflagged /\ result = ""
    BY <1>1, Running DEF OrderEmitted
<1>3. /\ summary.unique = eventSequence /\ eventSequence \in Nat
      /\ summary.duplicate \in Nat /\ duplicatesRemaining \in Nat
      /\ config \in producerConfig /\ validate(config)
      /\ summary.duplicate + duplicatesRemaining = config.duplicates
      /\ duplicatesRemaining # 0 => summary.duplicate = summary.unique
      /\ summary.total = summary.unique + summary.duplicate
    BY <1>1, Between DEF Counters
<1>4. /\ config.total \in Nat /\ config.duplicates \in Nat /\ uniqueTarget(config) \in Int
      /\ uniqueTarget(config) = config.total - config.duplicates
    BY <1>3, Accepted
<1>5. eventSequence <= uniqueTarget(config)
    BY <1>1, <1>2 DEF Plan
<1>6. summary.unique = uniqueTarget(config)
    BY <1>1, <1>3, <1>4, <1>5
<1>7. UNCHANGED <<config, script, due, duplicatesRemaining, eventSequence, orderSequence,
                  summary, batch, sent, stream, index>>
    BY DEF GenerateReturns, Fail, generator
<1>8. Paired' /\ Unflagged'
    BY <1>2, <1>7 DEF Paired, Unflagged
<1>9. Books'
  <2>1. Log' = Log
      BY <1>7, LogStays
  <2> QED BY <1>2, <1>7, <2>1, BooksStay
<1>10. CASE stage' = "done" /\ result' = "short" /\ summary.total # config.total
  <2>1. TypeOK'
      BY <1>2, <1>7, <1>10 DEF TypeOK
  <2>2. duplicatesRemaining # 0
      BY <1>3, <1>4, <1>6, <1>10
  <2>3. config.duplicates > uniqueTarget(config) /\ summary.duplicate = uniqueTarget(config)
      BY <1>3, <1>4, <1>6, <2>2
  <2>4. ShortOfDuplicatesOnly'
      BY <1>6, <1>7, <2>3 DEF ShortOfDuplicatesOnly
  <2> QED BY <1>2, <1>7, <1>8, <1>9, <1>10, <2>1, <2>4
          DEF ProducerInv, Ended, Fresh, SummaryIsTrue
<1>11. CASE stage' = "flush" /\ result' = result /\ summary.total = config.total
  <2>1. TypeOK' /\ Ended'
      BY <1>2, <1>7, <1>11 DEF TypeOK, Ended
  <2>2. NoneFlagged'
    <3>1. 1..Len(<<>>) = {}
        OBVIOUS
    <3> QED BY <1>2, <1>7, <3>1 DEF NoneFlagged
  <2>3. summary.outOfOrder = config.outOfOrder /\ summary.invalid = config.invalid
      BY <1>1, <1>2 DEF Plan
  <2>4. Plan'
      BY <1>3, <1>5, <1>7, <1>11, <2>2, <2>3 DEF Plan
  <2>5. Returned'
      BY <1>2, <1>6, <1>7 DEF Returned
  <2> QED BY <1>7, <1>8, <1>9, <1>11, <2>1, <2>4, <2>5, GoesOnNext
<1> QED BY <1>10, <1>11 DEF GenerateReturns, Fail

\* An event is buffered while something is left to emit: the run is not over,
\* or it has failed.
LEMMA EmittedKeeps ==
    ASSUME ProducerInv, script # <<>> \/ due # <<>>, UNCHANGED <<stage, result>>,
           TypeOK', Paired', Unflagged',
           stage \notin {"validate", "done", "flush"} => Plan',
           Books => Books'
    PROVE  ProducerInv'
<1>1. stage # "validate" /\ stage # "flush" /\ result \notin {"ok", "short"}
    BY DEF ProducerInv, Fresh, Returned
<1>2. Ended' /\ Fresh'
    BY <1>1 DEF ProducerInv, Ended, Fresh
<1>3. (stage \notin {"validate", "done"} => Plan)'
    BY <1>1
<1>4. (result # "failed" => Books)'
    BY DEF ProducerInv
<1>5. SummaryIsTrue' /\ ShortOfDuplicatesOnly'
    BY <1>1 DEF SummaryIsTrue, ShortOfDuplicatesOnly
<1>6. stage' # "flush" /\ result' \notin {"ok", "short"}
    BY <1>1
<1> QED BY <1>2, <1>3, <1>4, <1>5, <1>6 DEF ProducerInv

\* The counters a unique event adds to
LEMMA UniqueCounts ==
    ASSUME NEW flag \in {"", "outOfOrder", "invalid"}
    PROVE  /\ "total" \in Counts(flag) /\ "unique" \in Counts(flag)
           /\ \A f \in {"duplicate", "outOfOrder", "invalid"} : f \in Counts(flag) <=> flag = f
BY DEF Counts

\* What emitUnique does to the script and the counters
Taken(e) ==
    /\ e = script[1] /\ e \in GeneratedEvent /\ e.flag \in {"", "outOfOrder", "invalid"}
    /\ script \in Seq(GeneratedEvent) /\ script' \in Seq(GeneratedEvent)
    /\ Len(script) \in Nat \ {0} /\ Len(script') = Len(script) - 1
    /\ \A k \in 1..Len(script') : script'[k] = script[k + 1]

CountedUnique(e) ==
    /\ summary \in [Counters -> Nat] /\ summary' \in [Counters -> Nat]
    /\ \A f \in Counters : summary'[f] = IF f \in Counts(e.flag) THEN summary[f] + 1
                                         ELSE summary[f]

\* emitUnique takes the first event of the script and counts it.
LEMMA UniqueTaken ==
    ASSUME TypeOK, Unflagged, emitUnique
    PROVE  \E e \in GeneratedEvent : e = Head(script) /\ Taken(e) /\ CountedUnique(e)
<1>1. script \in Seq(GeneratedEvent) /\ script # <<>>
    BY DEF TypeOK, emitUnique
<1>2. /\ Head(script) \in GeneratedEvent /\ Tail(script) \in Seq(GeneratedEvent)
      /\ Len(Tail(script)) = Len(script) - 1
      /\ \A k \in 1..Len(Tail(script)) : Tail(script)[k] = script[k + 1]
      /\ Head(script) = script[1]
    BY <1>1, HeadTailProperties
<1>3. PICK e \in GeneratedEvent : e = Head(script)
    BY <1>2
<1>4. Len(script) \in Nat \ {0}
    BY <1>1, LenProperties, EmptySeq
<1>5. 1 \in 1..Len(script)
    BY <1>4
<1>6. e.flag \in {"", "outOfOrder", "invalid"}
    BY <1>2, <1>3, <1>5 DEF Unflagged
<1>7. script' = Tail(script)
    BY DEF emitUnique
<1>8. Taken(e)
    BY <1>1, <1>2, <1>3, <1>4, <1>6, <1>7 DEF Taken
<1>9. CountedUnique(e)
  <2>1. summary \in [Counters -> Nat]
      BY CounterNames DEF TypeOK
  <2>2. summary' = Bump(Counts(e.flag))
      BY <1>3 DEF emitUnique
  <2>3. PICK names : names = Counts(e.flag)
      OBVIOUS
  <2>4. /\ Bump(names) \in [Counters -> Nat]
        /\ \A f \in Counters : Bump(names)[f] = IF f \in names THEN summary[f] + 1
                                                ELSE summary[f]
      BY <2>1, BumpAdds
  <2> QED BY <2>1, <2>2, <2>3, <2>4 DEF CountedUnique
<1> QED BY <1>3, <1>8, <1>9

\* What counting a unique event does to each counter
LEMMA UniqueCounters ==
    ASSUME NEW e, CountedUnique(e), e.flag \in {"", "outOfOrder", "invalid"}
    PROVE  /\ summary.total' = summary.total + 1 /\ summary.unique' = summary.unique + 1
           /\ summary.duplicate' = summary.duplicate
           /\ summary.outOfOrder' = IF e.flag = "outOfOrder" THEN summary.outOfOrder + 1
                                    ELSE summary.outOfOrder
           /\ summary.invalid' = IF e.flag = "invalid" THEN summary.invalid + 1
                                 ELSE summary.invalid
<1>1. PICK flag \in {"", "outOfOrder", "invalid"} : flag = e.flag
    OBVIOUS
<1>2. /\ "total" \in Counts(flag) /\ "unique" \in Counts(flag)
      /\ \A f \in {"duplicate", "outOfOrder", "invalid"} : f \in Counts(flag) <=> flag = f
    BY UniqueCounts
<1>3. \A f \in Counters : summary'[f] = IF f \in Counts(flag) THEN summary[f] + 1
                                        ELSE summary[f]
    BY <1>1 DEF CountedUnique
<1> QED BY <1>1, <1>2, <1>3 DEF Counters

\* emitUnique goes on with the plan.
LEMMA UniquePlan ==
    ASSUME TypeOK, Plan, stage \notin {"validate", "done", "flush"}, NEW e, Taken(e),
           CountedUnique(e), UNCHANGED <<config, stage, index, duplicatesRemaining, eventSequence>>
    PROVE  Plan'
<1>1. /\ summary.duplicate' = summary.duplicate
      /\ summary.outOfOrder' = IF e.flag = "outOfOrder" THEN summary.outOfOrder + 1
                               ELSE summary.outOfOrder
      /\ summary.invalid' = IF e.flag = "invalid" THEN summary.invalid + 1
                            ELSE summary.invalid
    BY UniqueCounters DEF Taken
<1>2. summary.outOfOrder \in Nat /\ summary.invalid \in Nat /\ index \in Nat
    BY DEF TypeOK, CountedUnique, Counters
<1>3. /\ Len(script) \in Nat \ {0} /\ Len(script') = Len(script) - 1 /\ e = script[1]
      /\ \A k \in 1..Len(script') : script'[k] = script[k + 1]
      /\ e.flag \in {"", "outOfOrder", "invalid"}
    BY DEF Taken
<1>4. script # <<>> /\ script' \in Seq(GeneratedEvent)
    BY EmptySeq DEF Taken
<1>9. Len(script) \in Nat \ {0} /\ Len(script') = Len(script) - 1
    BY <1>3
<1>10. 1 \in 1..Len(script)
    BY ONLY <1>9
<1>11. ASSUME NEW k \in 1..Len(script')
       PROVE  /\ k + 1 \in 1..Len(script) /\ k + 1 \in 2..Len(script)
              /\ (k = Len(script') <=> k + 1 = Len(script))
    BY ONLY <1>9
<1>12. \A k \in 2..Len(script') : k \in 1..Len(script')
    BY ONLY <1>9
<1>13. /\ script' # <<>> => 1 \in 1..Len(script')
       /\ script' = <<>> <=> Len(script) = 1
  <2>1. script' = <<>> <=> Len(script') = 0
      BY <1>4, EmptySeq
  <2>2. /\ Len(script') # 0 => 1 \in 1..Len(script')
        /\ Len(script') = 0 <=> Len(script) = 1
      BY ONLY <1>9
  <2> QED BY <2>1, <2>2
<1>5. validate(config) /\ summary.duplicate + duplicatesRemaining = config.duplicates
    BY DEF Plan
<1>6. CASE stage = "outOfOrder"
  <2>1. /\ index <= config.outOfOrder /\ eventSequence = outOfOrderScenarioSize(index)
        /\ FirstFlagged /\ script[1].flag \in {"", "outOfOrder"} /\ summary.invalid = 0
        /\ summary.outOfOrder = IF script[1].flag = "outOfOrder" THEN index - 1 ELSE index
      BY <1>4, <1>6 DEF Plan
  <2>2. \A k \in 1..Len(script') : script'[k].flag = ""
    <3> SUFFICES ASSUME NEW k \in 1..Len(script') PROVE script'[k].flag = ""
        OBVIOUS
    <3>1. k + 1 \in 2..Len(script)
        BY <1>11
    <3> QED BY <1>3, <2>1, <3>1 DEF FirstFlagged
  <2>3. FirstFlagged'
      BY <1>12, <2>2 DEF FirstFlagged
  <2>4. script' # <<>> => script'[1].flag = ""
      BY <1>13, <2>2
  <2>7. summary.outOfOrder = IF e.flag = "outOfOrder" THEN index - 1 ELSE index
      BY <1>3, <2>1
  <2>5. summary.outOfOrder' = index
      BY ONLY <1>1, <1>2, <2>7
  <2>6. summary.invalid' = 0
      BY <1>1, <1>3, <2>1
  <2> QED BY <1>1, <1>5, <1>6, <2>1, <2>3, <2>4, <2>5, <2>6 DEF Plan
<1>7. CASE stage = "invalid"
  <2>1. /\ index <= config.invalid
        /\ eventSequence = outOfOrderScenarioSize(config.outOfOrder) + 4 * index
        /\ LastFlagged /\ summary.outOfOrder = config.outOfOrder
        /\ summary.invalid = index - 1
      BY <1>4, <1>7 DEF Plan
  <2>2. LastFlagged'
    <3> SUFFICES ASSUME NEW k \in 1..Len(script')
                 PROVE  script'[k].flag = IF k = Len(script') THEN "invalid" ELSE ""
        BY DEF LastFlagged
    <3>1. k + 1 \in 1..Len(script) /\ (k = Len(script') <=> k + 1 = Len(script))
        BY <1>11
    <3> QED BY <1>3, <2>1, <3>1 DEF LastFlagged
  <2>3. e.flag = IF Len(script) = 1 THEN "invalid" ELSE ""
      BY <1>3, <1>10, <2>1 DEF LastFlagged
  <2>4. e.flag = IF script' = <<>> THEN "invalid" ELSE ""
      BY <1>13, <2>3
  <2>7. summary.invalid = index - 1
      BY <2>1
  <2>8. summary.invalid' = IF e.flag = "invalid" THEN index ELSE index - 1
      BY ONLY <1>1, <1>2, <2>7
  <2>5. summary.invalid' = IF script' = <<>> THEN index ELSE index - 1
      BY <2>4, <2>8
  <2>6. summary.outOfOrder' = config.outOfOrder
      BY <1>1, <2>1, <2>3
  <2> QED BY <1>1, <1>5, <1>7, <2>1, <2>2, <2>5, <2>6 DEF Plan
<1>8. CASE stage = "normal"
  <2>1. /\ eventSequence <= uniqueTarget(config) /\ NoneFlagged
        /\ summary.outOfOrder = config.outOfOrder /\ summary.invalid = config.invalid
      BY <1>8 DEF Plan
  <2>2. NoneFlagged'
    <3> SUFFICES ASSUME NEW k \in 1..Len(script') PROVE script'[k].flag = ""
        BY DEF NoneFlagged
    <3>1. k + 1 \in 1..Len(script)
        BY <1>11
    <3> QED BY <1>3, <2>1, <3>1 DEF NoneFlagged
  <2>3. e.flag = ""
      BY <1>3, <1>10, <2>1 DEF NoneFlagged
  <2>4. summary.outOfOrder' = config.outOfOrder /\ summary.invalid' = config.invalid
      BY <1>1, <2>1, <2>3
  <2> QED BY <1>1, <1>5, <1>8, <2>1, <2>2, <2>4 DEF Plan
<1> QED BY <1>6, <1>7, <1>8 DEF TypeOK

\* A duplicate is the event with another flag.
LEMMA DuplicateOf ==
    ASSUME NEW e \in GeneratedEvent, NEW d, d = [e EXCEPT !.flag = "duplicate"]
    PROVE  d \in GeneratedEvent /\ d.flag = "duplicate" /\ d.id = e.id /\ d.order = e.order
BY Labels DEF GeneratedEvent

\* emitUnique
LEMMA UniqueKeeps == ASSUME ProducerInv, emitUnique PROVE ProducerInv'
<1>1. TypeOK /\ Paired /\ Unflagged
    BY DEF ProducerInv
<1>2. PICK e \in GeneratedEvent : e = Head(script) /\ Taken(e) /\ CountedUnique(e)
    BY <1>1, UniqueTaken
<1>3. PICK d : d = [e EXCEPT !.flag = "duplicate"]
    OBVIOUS
<1>4. d \in GeneratedEvent /\ d.flag = "duplicate" /\ d.id = e.id /\ d.order = e.order
    BY <1>3, DuplicateOf
<1>5. /\ script # <<>> /\ due = <<>> /\ batch' = Append(batch, e)
      /\ script' = Tail(script)
      /\ due' = IF duplicatesRemaining = 0 THEN <<>> ELSE <<d>>
      /\ UNCHANGED <<config, stage, index, orderSequence, eventSequence,
                     duplicatesRemaining, sent, stream, result>>
    BY <1>2, <1>3 DEF emitUnique, emit
<1>6. /\ due' \in Seq(GeneratedEvent) /\ Len(due') = (IF duplicatesRemaining = 0 THEN 0 ELSE 1)
      /\ due' # <<>> => duplicatesRemaining # 0 /\ due'[1] = d
  <2>1. CASE duplicatesRemaining = 0
    <3>1. due' = <<>>
        BY <1>5, <2>1
    <3> QED BY <2>1, <3>1
  <2>2. CASE duplicatesRemaining # 0
    <3>1. due' = <<d>>
        BY <1>5, <2>2
    <3> QED BY <1>4, <2>2, <3>1, Single
  <2> QED BY <2>1, <2>2
<1>7. TypeOK'
  <2>1. batch \in Seq(GeneratedEvent) /\ Len(batch) \in Nat /\ sent \in 0..Len(batch)
      BY <1>1, LenProperties DEF TypeOK
  <2>2. batch' \in Seq(GeneratedEvent) /\ Len(batch') = Len(batch) + 1
      BY <1>5, <2>1, AppendProperties
  <2>3. sent' \in 0..Len(batch')
      BY <1>5, <2>1, <2>2
  <2>4. summary' \in [DOMAIN NoCounts -> Nat]
      BY <1>2, CounterNames DEF CountedUnique
  <2>5. script' \in Seq(GeneratedEvent)
      BY <1>2 DEF Taken
  <2>6. Len(due') <= 1
      BY <1>6
  <2>7. UNCHANGED <<config, stage, index, orderSequence, eventSequence,
                    duplicatesRemaining, stream, result>>
      BY <1>5
  <2> QED BY ONLY <1>1, <1>6, <2>2, <2>3, <2>4, <2>5, <2>6, <2>7 DEF TypeOK
<1>8. Paired'
  <2>1. /\ summary.total' = summary.total + 1 /\ summary.unique' = summary.unique + 1
        /\ summary.duplicate' = summary.duplicate
      BY <1>2, UniqueCounters DEF Taken
  <2>2. summary.total \in Nat /\ summary.unique \in Nat /\ summary.duplicate \in Nat
      BY <1>2 DEF CountedUnique, Counters
  <2>3. /\ summary.total = summary.unique + summary.duplicate
        /\ duplicatesRemaining # 0 => summary.duplicate + Len(due) = summary.unique
        /\ summary.unique + Len(script) = eventSequence
      BY <1>1 DEF Paired
  <2>4. Len(due) = 0
      BY <1>5
  <2>5. Len(script) \in Nat /\ Len(script') = Len(script) - 1
      BY <1>2 DEF Taken
  <2>6. eventSequence' = eventSequence /\ duplicatesRemaining' = duplicatesRemaining
      BY <1>5
  <2>8. summary.total' = summary.unique' + summary.duplicate'
      BY ONLY <2>1, <2>2, <2>3
  <2>9. duplicatesRemaining # 0 => summary.duplicate' + 1 = summary.unique'
      BY ONLY <2>1, <2>2, <2>3, <2>4
  <2>7. summary.unique' + Len(script') = eventSequence
      BY ONLY <2>1, <2>2, <2>3, <2>5
  <2> QED BY <1>6, <2>6, <2>7, <2>8, <2>9 DEF Paired
<1>9. Unflagged'
  <2> SUFFICES ASSUME NEW k \in 1..Len(script')
               PROVE  script'[k].flag \in {"", "outOfOrder", "invalid"}
      BY DEF Unflagged
  <2>1. Len(script) \in Nat /\ Len(script') = Len(script) - 1 /\ script'[k] = script[k + 1]
      BY <1>2 DEF Taken
  <2>2. k + 1 \in 1..Len(script)
      BY <2>1
  <2> QED BY <1>1, <2>1, <2>2 DEF Unflagged
<1>10. stage \notin {"validate", "done", "flush"} => Plan'
  <2>1. stage \notin {"validate", "done", "flush"} => Plan
      BY DEF ProducerInv
  <2> QED BY <1>1, <1>2, <1>5, <2>1, UniquePlan
<1>11. ASSUME Books PROVE Books'
  <2>1. Log \in Seq(GeneratedEvent) /\ Len(Log) \in Nat
      BY <1>1, LogType
  <2>2. Log' = Append(Log, e)
      BY <1>1, <1>5, <1>7, LogAppended
  <2>3. Counted(Log', summary')
    <3>1. /\ "total" \in Counts(e.flag)
          /\ \A f \in {"duplicate", "outOfOrder", "invalid"} :
                f \in Counts(e.flag) <=> e.flag = f
        BY <1>2, UniqueCounts DEF Taken
    <3>0. PICK log \in Seq(GeneratedEvent) : log = Log
        BY <2>1
    <3>2. PICK counts, more, names :
             counts = summary /\ more = summary' /\ names = Counts(e.flag)
        OBVIOUS
    <3>3. Counted(log, counts)
        BY <1>11, <3>0, <3>2 DEF Books
    <3>4. /\ counts \in [Counters -> Nat] /\ more \in [Counters -> Nat]
          /\ \A f \in Counters : more[f] = IF f \in names THEN counts[f] + 1 ELSE counts[f]
        BY <1>2, <3>2 DEF CountedUnique
    <3>6. /\ "total" \in names
          /\ \A f \in {"duplicate", "outOfOrder", "invalid"} : f \in names <=> e.flag = f
        BY <3>1, <3>2
    <3>5. Counted(Append(log, e), more)
        BY ONLY <3>3, <3>4, <3>6, StillCounted
    <3> QED BY <2>2, <3>0, <3>2, <3>5
  <2>4. Numbered(Log', script', eventSequence') /\ Ordered(Log', script', orderSequence')
    <3>1. Numbered(Log, script, eventSequence) /\ Ordered(Log, script, orderSequence)
        BY <1>11 DEF Books
    <3>2. script \in Seq(GeneratedEvent)
        BY <1>1 DEF TypeOK
    <3>3. /\ Numbered(Append(Log, Head(script)), Tail(script), eventSequence)
          /\ Ordered(Append(Log, Head(script)), Tail(script), orderSequence)
        BY <1>5, <2>1, <3>1, <3>2, StillNumbered
    <3> QED BY <1>2, <1>5, <2>2, <3>3
  <2>5. Repeats(Log', due')
    <3>1. Len(Log') = Len(Log) + 1 /\ Log'[Len(Log) + 1] = e
        BY <2>1, <2>2, AppendProperties
    <3>2. Len(Log) + 1 \in 1..Len(Log')
        BY <2>1, <3>1
    <3> QED BY <1>4, <1>6, <3>1, <3>2 DEF Repeats
  <2> QED BY <2>3, <2>4, <2>5 DEF Books
<1> QED BY <1>5, <1>7, <1>8, <1>9, <1>10, <1>11, EmittedKeeps

\* emitDuplicate
LEMMA DuplicateKeeps == ASSUME ProducerInv, emitDuplicate PROVE ProducerInv'
<1>1. TypeOK /\ Paired /\ Unflagged
    BY DEF ProducerInv
<1>2. /\ due # <<>> /\ due' = <<>> /\ batch' = Append(batch, due[1])
      /\ duplicatesRemaining' = duplicatesRemaining - 1
      /\ summary' = Bump({"total", "duplicate"})
      /\ UNCHANGED <<config, stage, index, orderSequence, eventSequence, script,
                     sent, stream, result>>
    BY DEF emitDuplicate, emit
<1>3. due \in Seq(GeneratedEvent) /\ Len(due) \in Nat /\ Len(due) = 1
  <2>1. due \in Seq(GeneratedEvent) /\ Len(due) <= 1
      BY <1>1 DEF TypeOK
  <2>2. Len(due) \in Nat /\ Len(due) # 0
      BY <1>2, <2>1, LenProperties, EmptySeq
  <2> QED BY <2>1, <2>2
<1>4. PICK e \in GeneratedEvent : e = due[1]
  <2>1. 1 \in 1..Len(due)
      BY <1>3
  <2> QED BY <1>3, <2>1, ElementOfSeq
<1>5. PICK names : names = {"total", "duplicate"}
    OBVIOUS
<1>6. /\ summary \in [Counters -> Nat] /\ summary' \in [Counters -> Nat]
      /\ \A f \in Counters : summary'[f] = IF f \in names THEN summary[f] + 1 ELSE summary[f]
  <2>1. summary \in [Counters -> Nat]
      BY <1>1, CounterNames DEF TypeOK
  <2>2. /\ Bump(names) \in [Counters -> Nat]
        /\ \A f \in Counters : Bump(names)[f] = IF f \in names THEN summary[f] + 1
                                                ELSE summary[f]
      BY <2>1, BumpAdds
  <2>3. summary' = Bump(names)
      BY <1>2, <1>5
  <2> QED BY <2>1, <2>2, <2>3
<1>7. /\ summary.total' = summary.total + 1 /\ summary.unique' = summary.unique
      /\ summary.duplicate' = summary.duplicate + 1
      /\ summary.outOfOrder' = summary.outOfOrder /\ summary.invalid' = summary.invalid
    BY <1>5, <1>6 DEF Counters
<1>8. /\ summary.total \in Nat /\ summary.unique \in Nat /\ summary.duplicate \in Nat
    BY <1>6 DEF Counters
<1>9. duplicatesRemaining \in Nat /\ duplicatesRemaining # 0
    BY <1>1, <1>2 DEF TypeOK, Paired
<1>10. Len(due') = 0 /\ due' \in Seq(GeneratedEvent)
    BY <1>2
<1>11. TypeOK'
  <2>1. batch \in Seq(GeneratedEvent) /\ Len(batch) \in Nat /\ sent \in 0..Len(batch)
      BY <1>1, LenProperties DEF TypeOK
  <2>2. batch' \in Seq(GeneratedEvent) /\ Len(batch') = Len(batch) + 1
      BY <1>2, <1>4, <2>1, AppendProperties
  <2>3. sent' \in 0..Len(batch')
      BY <1>2, <2>1, <2>2
  <2>4. summary' \in [DOMAIN NoCounts -> Nat]
      BY <1>6, CounterNames
  <2>5. duplicatesRemaining' \in Nat
      BY <1>2, <1>9
  <2>6. Len(due') <= 1
      BY ONLY <1>10
  <2>7. UNCHANGED <<config, stage, index, orderSequence, eventSequence, script,
                    stream, result>>
      BY <1>2
  <2> QED BY ONLY <1>1, <1>10, <2>2, <2>3, <2>4, <2>5, <2>6, <2>7 DEF TypeOK
<1>12. Paired'
  <2>1. /\ summary.total = summary.unique + summary.duplicate
        /\ summary.duplicate + Len(due) = summary.unique
        /\ summary.unique + Len(script) = eventSequence
      BY <1>1, <1>9 DEF Paired
  <2>2. summary.total' = summary.unique' + summary.duplicate'
      BY ONLY <1>7, <1>8, <2>1
  <2>3. summary.duplicate' + Len(due') = summary.unique'
      BY ONLY <1>3, <1>7, <1>8, <1>10, <2>1
  <2>4. UNCHANGED <<eventSequence, script>> /\ due' = <<>>
      BY <1>2
  <2> QED BY <1>7, <2>1, <2>2, <2>3, <2>4 DEF Paired
<1>13. Unflagged'
    BY <1>1, <1>2 DEF Unflagged
<1>14. ASSUME stage \notin {"validate", "done", "flush"} PROVE Plan'
  <2>1. Plan
      BY <1>14 DEF ProducerInv
  <2>2. config \in producerConfig /\ config.duplicates \in Nat
      BY <1>1, <2>1, Configured, Accepted DEF Plan
  <2>3. summary.duplicate + duplicatesRemaining = config.duplicates
      BY <2>1 DEF Plan
  <2>4. duplicatesRemaining' = duplicatesRemaining - 1
      BY <1>2
  <2>5. summary.duplicate' + duplicatesRemaining' = config.duplicates
      BY ONLY <1>7, <1>8, <1>9, <2>2, <2>3, <2>4
  <2>6. UNCHANGED <<config, stage, index, eventSequence, script>>
      BY <1>2
  <2> QED BY ONLY <1>7, <1>14, <2>1, <2>5, <2>6 DEF Plan, FirstFlagged, LastFlagged, NoneFlagged
<1>15. ASSUME Books PROVE Books'
  <2>1. Log \in Seq(GeneratedEvent)
      BY <1>1, LogType
  <2>2. Log' = Append(Log, e)
    <3>1. batch' = Append(batch, e) /\ stream' = stream /\ sent' = sent
        BY <1>2, <1>4
    <3> QED BY <1>1, <1>11, <3>1, LogAppended
  <2>3. /\ e.flag = "duplicate"
        /\ \E n \in 1..Len(Log) : Log[n].id = e.id /\ Log[n].order = e.order
      BY <1>2, <1>4, <1>15 DEF Books, Repeats
  <2>4. Counted(Log', summary')
    <3>0. PICK log \in Seq(GeneratedEvent) : log = Log
        BY <2>1
    <3>1. PICK counts, more : counts = summary /\ more = summary'
        OBVIOUS
    <3>2. Counted(log, counts)
        BY <1>15, <3>0, <3>1 DEF Books
    <3>3. /\ counts \in [Counters -> Nat] /\ more \in [Counters -> Nat]
          /\ \A f \in Counters : more[f] = IF f \in names THEN counts[f] + 1 ELSE counts[f]
        BY <1>6, <3>1
    <3>4. /\ "total" \in names
          /\ \A f \in {"duplicate", "outOfOrder", "invalid"} : f \in names <=> e.flag = f
        BY <1>5, <2>3
    <3>5. Counted(Append(log, e), more)
        BY ONLY <3>2, <3>3, <3>4, StillCounted
    <3> QED BY <2>2, <3>0, <3>1, <3>5
  <2>5. Numbered(Log', script', eventSequence') /\ Ordered(Log', script', orderSequence')
    <3>1. Numbered(Log, script, eventSequence) /\ Ordered(Log, script, orderSequence)
        BY <1>15 DEF Books
    <3>2. /\ Numbered(Append(Log, e), script, eventSequence)
          /\ Ordered(Append(Log, e), script, orderSequence)
        BY <2>1, <2>3, <3>1, NumberedAgain
    <3> QED BY <1>2, <2>2, <3>2
  <2> QED BY <1>2, <2>4, <2>5 DEF Books, Repeats
<1> QED BY <1>2, <1>11, <1>12, <1>13, <1>14, <1>15, EmittedKeeps

\* Publish
LEMMA PublishKeeps == ASSUME ProducerInv, Publish PROVE ProducerInv'
<1>1. /\ stage # "done" /\ sent < Len(batch) /\ stream' = Append(stream, batch[sent + 1])
      /\ sent' = sent + 1
      /\ UNCHANGED <<config, stage, index, script, due, duplicatesRemaining, orderSequence,
                     eventSequence, summary, batch, result>>
    BY DEF Publish, generator
<1>2. TypeOK /\ Ended /\ Fresh /\ Paired /\ Unflagged /\ result = "" /\ Books
    BY <1>1 DEF ProducerInv, Ended
<1>3. /\ batch \in Seq(GeneratedEvent) /\ stream \in Seq(GeneratedEvent)
      /\ Len(batch) \in Nat /\ sent \in 0..Len(batch)
    BY <1>2, LenProperties DEF TypeOK
<1>4. stage # "validate"
  <2> SUFFICES ASSUME stage = "validate" PROVE FALSE
      OBVIOUS
  <2>1. Len(batch) = 0
      BY <1>2 DEF Fresh
  <2> QED BY <1>1, <1>3, <2>1
<1>5. TypeOK'
  <2>1. sent + 1 \in 1..Len(batch) /\ sent + 1 \in 0..Len(batch)
      BY <1>1, <1>3
  <2>2. stream' \in Seq(GeneratedEvent)
      BY <1>1, <1>3, <2>1, ElementOfSeq, AppendProperties
  <2>3. sent' \in 0..Len(batch')
      BY <1>1, <2>1
  <2>4. UNCHANGED <<config, stage, index, script, due, duplicatesRemaining, orderSequence,
                    eventSequence, summary, batch, result>>
      BY <1>1
  <2> QED BY ONLY <1>2, <2>2, <2>3, <2>4 DEF TypeOK
<1>6. Log' = Log
    BY <1>1, <1>2, <1>5, LogPublished
<1>7. Books'
    BY <1>1, <1>2, <1>6, BooksStay
<1>8. Plan /\ (stage = "flush" => Returned /\ summary.total = config.total)
    BY <1>1, <1>4, Running
<1>9. Ended' /\ Paired' /\ Unflagged'
    BY <1>1, <1>2 DEF Ended, Paired, Unflagged
<1>10. Plan'
    BY <1>1, <1>8 DEF Plan, FirstFlagged, LastFlagged, NoneFlagged
<1>11. stage' = "flush" => Returned' /\ (summary.total = config.total)'
    BY <1>1, <1>8 DEF Returned
<1> QED BY <1>1, <1>4, <1>5, <1>7, <1>9, <1>10, <1>11, GoesOnNext

\* PublishFails
LEMMA PublishFailsKeeps == ASSUME ProducerInv, PublishFails PROVE ProducerInv'
<1>1. /\ stage # "done" /\ sent < Len(batch) /\ Fail("failed")
      /\ stream' \in {stream, Append(stream, batch[sent + 1])}
    BY DEF PublishFails
<1>2. /\ batch \in Seq(GeneratedEvent) /\ stream \in Seq(GeneratedEvent)
      /\ Len(batch) \in Nat /\ sent \in 0..Len(batch)
    BY LenProperties DEF ProducerInv, TypeOK
<1>3. sent + 1 \in 1..Len(batch)
    BY <1>1, <1>2
<1>4. stream' \in Seq(GeneratedEvent)
    BY <1>1, <1>2, <1>3, ElementOfSeq, AppendProperties
<1> QED BY <1>1, <1>4, FailKeeps

\* Numbers 1 to last are as many as last.
LEMMA NumbersCounted ==
    ASSUME NEW last \in Nat, NEW S, S = 1..last
    PROVE  Cardinality(S) = last
<1>1. Cardinality(1..last) = IF 1 > last THEN 0 ELSE last - 1 + 1
    BY FS_Interval
<1> QED BY <1>1

\* The summary of a run whose log is the stream
LEMMA TrueSummary ==
    ASSUME TypeOK, Paired, Plan, Returned, Books, Log = stream, stage = "flush",
           summary.total = config.total
    PROVE  /\ Len(stream) = config.total
           /\ summary.unique = Cardinality({stream[n].id : n \in 1..Len(stream)})
           /\ orderSequence  = Cardinality({stream[n].order : n \in 1..Len(stream)})
           /\ \A flag \in {"duplicate", "outOfOrder", "invalid"} :
                  summary[flag] = Cardinality(Positions(flag))
           /\ summary.duplicate  = config.duplicates
           /\ summary.outOfOrder = config.outOfOrder
           /\ summary.invalid    = config.invalid
<1>1. /\ Counted(stream, summary) /\ Numbered(stream, script, eventSequence)
      /\ Ordered(stream, script, orderSequence)
    BY DEF Books
<1>2. script = <<>> /\ summary.unique = uniqueTarget(config)
    BY DEF Returned
<1>3. 1..Len(script) = {} /\ Len(script) = 0
  <2>1. Len(script) = 0
      BY <1>2
  <2> QED BY ONLY <2>1
<1>4. orderSequence \in Nat /\ eventSequence \in Nat
    BY DEF TypeOK
<1>5. summary.unique \in Nat /\ summary.duplicate \in Nat
    BY CounterNames DEF TypeOK, Counters
<1>6. summary.unique = eventSequence
  <2>1. summary.unique + Len(script) = eventSequence
      BY DEF Paired
  <2> QED BY ONLY <1>3, <1>5, <2>1
<1>7. {stream[n].id : n \in 1..Len(stream)} = 1..eventSequence
  <2>1. /\ \A n \in 1..Len(stream) : stream[n].id \in 1..eventSequence
        /\ \A x \in 1..eventSequence : \E n \in 1..Len(stream) : stream[n].id = x
      BY <1>1, <1>3 DEF Numbered
  <2> QED BY ONLY <2>1
<1>8. {stream[n].order : n \in 1..Len(stream)} = 1..orderSequence
  <2>1. /\ \A n \in 1..Len(stream) : stream[n].order \in 1..orderSequence
        /\ \A x \in 1..orderSequence : \E n \in 1..Len(stream) : stream[n].order = x
      BY <1>1, <1>3 DEF Ordered
  <2> QED BY ONLY <2>1
<1>9. /\ summary.unique = Cardinality({stream[n].id : n \in 1..Len(stream)})
      /\ orderSequence  = Cardinality({stream[n].order : n \in 1..Len(stream)})
    BY <1>4, <1>6, <1>7, <1>8, NumbersCounted
<1>10. /\ Len(stream) = config.total
       /\ \A flag \in {"duplicate", "outOfOrder", "invalid"} :
              summary[flag] = Cardinality(Positions(flag))
    BY <1>1 DEF Counted, FlaggedIn, Positions
<1>11. config \in producerConfig /\ validate(config)
    BY Configured DEF Plan
<1>12. /\ config.total \in Nat /\ config.duplicates \in Nat
       /\ uniqueTarget(config) = config.total - config.duplicates
    BY <1>11, Accepted
<1>13. summary.duplicate = config.duplicates
  <2>1. summary.total = summary.unique + summary.duplicate
      BY DEF Paired
  <2> QED BY ONLY <1>2, <1>5, <1>12, <2>1, summary.total = config.total
<1>14. summary.outOfOrder = config.outOfOrder /\ summary.invalid = config.invalid
    BY DEF Plan
<1> QED BY <1>9, <1>10, <1>13, <1>14

\* FlushEnds
LEMMA FlushKeeps == ASSUME ProducerInv, FlushEnds PROVE ProducerInv'
<1>1. /\ stage # "done" /\ sent = Len(batch) /\ batch' = <<>> /\ sent' = 0
      /\ UNCHANGED <<config, index, script, due, duplicatesRemaining, orderSequence,
                     eventSequence, summary, stream>>
      /\ IF stage = "flush" THEN stage' = "done" /\ result' = "ok" ELSE UNCHANGED <<stage, result>>
    BY DEF FlushEnds, generator
<1>2. TypeOK /\ Ended /\ Fresh /\ Paired /\ Unflagged /\ result = "" /\ Books
    BY <1>1 DEF ProducerInv, Ended
<1>3. TypeOK'
  <2>1. Len(batch') = 0 /\ batch' \in Seq(GeneratedEvent) /\ sent' = 0
      BY <1>1
  <2>2. sent' \in 0..Len(batch')
      BY ONLY <2>1
  <2>3. /\ stage' \in {"validate", "outOfOrder", "invalid", "normal", "flush", "done"}
        /\ result' \in {"", "ok", "refused", "failed", "short"}
      BY <1>1, <1>2 DEF TypeOK
  <2>4. UNCHANGED <<config, index, script, due, duplicatesRemaining, orderSequence,
                    eventSequence, summary, stream>> /\ batch' \in Seq(GeneratedEvent)
      BY <1>1, <2>1
  <2> QED BY ONLY <1>2, <2>2, <2>3, <2>4 DEF TypeOK
<1>4. Log' = Log /\ Log = stream
    BY <1>1, <1>2, <1>3, LogEmptied, LogFlushed
<1>5. Books'
    BY <1>1, <1>2, <1>4, BooksStay
<1>6. Paired' /\ Unflagged'
    BY <1>1, <1>2 DEF Paired, Unflagged
<1>7. CASE stage = "validate"
  <2>1. Ended' /\ Fresh'
      BY <1>1, <1>2, <1>7 DEF Ended, Fresh
  <2> QED BY <1>1, <1>2, <1>3, <1>5, <1>6, <1>7, <2>1
          DEF ProducerInv, SummaryIsTrue, ShortOfDuplicatesOnly
<1>8. CASE stage \notin {"validate", "flush"}
  <2>1. Plan
      BY <1>1, <1>8, Running
  <2>2. Plan' /\ Ended'
      BY <1>1, <1>2, <1>8, <2>1 DEF Plan, FirstFlagged, LastFlagged, NoneFlagged, Ended
  <2>3. stage' \notin {"validate", "done", "flush"}
      BY <1>1, <1>8
  <2> QED BY <1>3, <1>5, <1>6, <2>2, <2>3, GoesOnNext
<1>9. CASE stage = "flush"
  <2>1. Plan /\ Returned /\ summary.total = config.total
      BY <1>9, Running
  <2>2. /\ Len(stream) = config.total
        /\ summary.unique = Cardinality({stream[n].id : n \in 1..Len(stream)})
        /\ orderSequence  = Cardinality({stream[n].order : n \in 1..Len(stream)})
        /\ \A flag \in {"duplicate", "outOfOrder", "invalid"} :
               summary[flag] = Cardinality(Positions(flag))
        /\ summary.duplicate  = config.duplicates
        /\ summary.outOfOrder = config.outOfOrder
        /\ summary.invalid    = config.invalid
      BY <1>2, <1>4, <1>9, <2>1, TrueSummary
  <2>3. SummaryIsTrue'
      BY <1>1, <2>1, <2>2 DEF SummaryIsTrue, Positions
  <2>4. stage' = "done" /\ result' = "ok"
      BY <1>1, <1>9
  <2>5. Ended' /\ Fresh' /\ ShortOfDuplicatesOnly'
      BY <2>4 DEF Ended, Fresh, ShortOfDuplicatesOnly
  <2>6. script' = <<>> /\ due' = <<>>
      BY <1>1, <2>1 DEF Returned
  <2> QED BY <1>3, <1>5, <1>6, <2>3, <2>4, <2>5, <2>6 DEF ProducerInv
<1> QED BY <1>7, <1>8, <1>9

\* Stuttering
LEMMA StutterKeeps == ASSUME ProducerInv, UNCHANGED vars PROVE ProducerInv'
<1>1. UNCHANGED <<config, stage, index, script, due, duplicatesRemaining, orderSequence,
                  eventSequence, summary, batch, sent, stream, result>>
    BY DEF vars, generator
<1>2. Log' = Log
    BY <1>1, LogStays
<1>3. (result # "failed" => Books)'
    BY <1>1, <1>2, BooksStay DEF ProducerInv
<1>4. /\ TypeOK' /\ Ended' /\ Fresh' /\ Paired' /\ Unflagged'
    BY <1>1 DEF ProducerInv, TypeOK, Ended, Fresh, Paired, Unflagged
<1>5. (stage \notin {"validate", "done"} => Plan)'
    BY <1>1 DEF ProducerInv, Plan, FirstFlagged, LastFlagged, NoneFlagged
<1>6. SummaryIsTrue' /\ ShortOfDuplicatesOnly'
    BY <1>1 DEF ProducerInv, SummaryIsTrue, ShortOfDuplicatesOnly, Positions
<1> QED BY <1>1, <1>3, <1>4, <1>5, <1>6 DEF ProducerInv, Returned

\* Every step of the producer preserves the invariant.
LEMMA StepKeeps == ASSUME ProducerInv, [Next]_vars PROVE ProducerInv'
<1>1. CASE Refuse
  <2>1. stream' = stream /\ stream \in Seq(GeneratedEvent) /\ stage # "done" /\ Fail("refused")
      BY <1>1 DEF Refuse, ProducerInv, TypeOK
  <2> QED BY <2>1, FailKeeps
<1>2. CASE EnsureGroupFails
  <2>1. stream' = stream /\ stream \in Seq(GeneratedEvent) /\ stage # "done" /\ Fail("failed")
      BY <1>2 DEF EnsureGroupFails, ProducerInv, TypeOK
  <2> QED BY <2>1, FailKeeps
<1>3. CASE Generate
    BY <1>3, GenerateKeeps
<1>4. CASE generateOutOfOrder
    BY <1>4, OutOfOrderKeeps
<1>5. CASE LoopEnds("outOfOrder", config.outOfOrder, "invalid")
    BY <1>5, OutOfOrderEnds
<1>6. CASE generateInvalid
    BY <1>6, InvalidKeeps
<1>7. CASE LoopEnds("invalid", config.invalid, "normal")
    BY <1>7, InvalidEnds
<1>8. CASE generateNormal
    BY <1>8, NormalKeeps
<1>9. CASE GenerateReturns
    BY <1>9, ReturnKeeps
<1>10. CASE emitUnique
    BY <1>10, UniqueKeeps
<1>11. CASE emitDuplicate
    BY <1>11, DuplicateKeeps
<1>12. CASE Publish
    BY <1>12, PublishKeeps
<1>13. CASE PublishFails
    BY <1>13, PublishFailsKeeps
<1>14. CASE FlushEnds
    BY <1>14, FlushKeeps
<1>15. CASE UNCHANGED vars
    BY <1>15, StutterKeeps
<1> QED BY <1>1, <1>2, <1>3, <1>4, <1>5, <1>6, <1>7, <1>8, <1>9, <1>10, <1>11, <1>12,
           <1>13, <1>14, <1>15 DEF Next

-----------------------------------------------------------------------------

\* The invariant holds throughout.
LEMMA ProducerAlways == Spec => []ProducerInv
<1>1. ProducerInv /\ [Next]_vars => ProducerInv'
    BY StepKeeps
<1> QED BY InitInv, <1>1, PTL DEF Spec

\* The generator's counters, its buffers and the stream keep their types for
\* every configuration, and a flush never runs past its batch.
THEOREM ProducerTypeCorrect == Spec => []TypeOK
<1>1. ProducerInv => TypeOK
    BY DEF ProducerInv
<1> QED BY ProducerAlways, <1>1, PTL

\* A run that reports success has put on the stream, through all its batches,
\* exactly what its ratios ask for, and its summary says so: whatever the
\* configuration, the batch size and the lifecycles chosen.
THEOREM ProducerSummaryIsTrue == Spec => []SummaryIsTrue
<1>1. ProducerInv => SummaryIsTrue
    BY DEF ProducerInv
<1> QED BY ProducerAlways, <1>1, PTL

\* generate gives up for one reason only, for every configuration that validate
\* accepts: more duplicates were asked for than unique events can carry.
THEOREM ProducerShortOfDuplicatesOnly == Spec => []ShortOfDuplicatesOnly
<1>1. ProducerInv => ShortOfDuplicatesOnly
    BY DEF ProducerInv
<1> QED BY ProducerAlways, <1>1, PTL

-----------------------------------------------------------------------------
(* Labels                                                                  *)


\* The statuses order o has met in the first n events of a log
Met(log, n, o) == {log[m].status : m \in {k \in 1..n : log[k].order = o}}

\* The flag of e is what the state machine makes of e once its order has met S.
Right(e, S) ==
    /\ e.flag = "outOfOrder" => EvaluateTransition(Reached(S), e.status) = "OUT_OF_ORDER"
    /\ e.flag = "invalid"    => EvaluateTransition(Reached(S), e.status) = "INVALID_TRANSITION"
    /\ e.flag = ""           => EvaluateTransition(Reached(S), e.status) = "APPLIED"

\* One of the first n events of the log is e, sent for the first time.
Repeated(log, n, e) ==
    \E m \in 1..n : /\ log[m].flag # "duplicate"
                    /\ log[m].id = e.id
                    /\ log[m].order = e.order
                    /\ log[m].status = e.status

\* The n-th event of a log is labelled correctly, and so are all of them.
RightAt(log, n) ==
    IF log[n].flag = "duplicate" THEN Repeated(log, n - 1, log[n])
    ELSE Right(log[n], Met(log, n - 1, log[n].order))

Labelled(log) == \A n \in 1..Len(log) : RightAt(log, n)

\* The statuses in front of the k-th event of s
Ahead(s, k) == {s[j].status : j \in 1..(k - 1)}

\* The events of s are labelled correctly for an order that has met S, when they
\* are emitted one after the other.
Fits(S, s) == \A k \in 1..Len(s) : Right(s[k], S \cup Ahead(s, k))

\* The script continues the log, and so does the duplicate.
Continues(log, s, d, o) ==
    /\ \A k \in 1..Len(s) : s[k].order = o
    /\ Fits(Met(log, Len(log), o), s)
    /\ d # <<>> => Repeated(log, Len(log), d[1])

LabelInv ==
    /\ Labelled(stream)
    /\ result # "failed" => Labelled(Log) /\ Continues(Log, script, due, orderSequence)

-----------------------------------------------------------------------------
(* Where an order is                                                       *)

\* A path of transitions through S ends in s.
Leads(path, s) ==
    /\ \A k \in DOMAIN path :
          <<IF k = 1 THEN NoStatus ELSE path[k - 1], path[k]>> \in AppliedPairs
    /\ s = IF path = <<>> THEN NoStatus ELSE path[Len(path)]

Attained(S, s) == \E path \in UNION {[1..k -> S] : k \in 0..3} : Leads(path, s)

\* The order has come to a stop at s.
Stops(S, s) == /\ s \in S \cup {NoStatus}
               /\ Attained(S, s)
               /\ \A t \in S : <<s, t>> \notin AppliedPairs

\* Where an order is, if it can have come to a stop at one status only
LEMMA OnlyStop ==
    ASSUME NEW S, NEW s, Stops(S, s), \A t \in S \cup {NoStatus} : Stops(S, t) => t = s
    PROVE  Reached(S) = s
<1>1. Reached(S) = CHOOSE t \in S \cup {NoStatus} :
                       Attained(S, t) /\ \A u \in S : <<t, u>> \notin AppliedPairs
    BY DEF Reached, Attained, Leads
<1>2. \E t \in S \cup {NoStatus} :
                       Attained(S, t) /\ \A u \in S : <<t, u>> \notin AppliedPairs
    BY DEF Stops
<1>3. Stops(S, Reached(S))
    BY <1>1, <1>2 DEF Stops
<1>4. Reached(S) \in S \cup {NoStatus}
    BY <1>3 DEF Stops
<1> QED BY <1>3, <1>4

\* A function on 1..n is a sequence.
LEMMA FunctionIsSeq ==
    ASSUME NEW S, NEW n \in Nat, NEW f \in [1..n -> S]
    PROVE  f \in Seq(S) /\ Len(f) = n /\ (n # 0 => f # <<>>)
<1>1. DOMAIN f = 1..n
    OBVIOUS
<1>2. f \in Seq(S)
    BY SeqDef
<1>3. Len(f) = n
    BY <1>1, <1>2, LenProperties
<1> QED BY <1>2, <1>3

\* The empty path
LEMMA AttainedNone == ASSUME NEW S PROVE Attained(S, NoStatus)
<1>1. <<>> \in [1..0 -> S]
    OBVIOUS
<1>2. 0 \in 0..3
    OBVIOUS
<1>3. <<>> \in UNION {[1..k -> S] : k \in 0..3}
    BY <1>1, <1>2
<1>4. Leads(<<>>, NoStatus)
    BY DEF Leads
<1> QED BY <1>3, <1>4 DEF Attained

\* A path of one transition
LEMMA AttainedOne ==
    ASSUME NEW S, NEW a \in S, <<NoStatus, a>> \in AppliedPairs
    PROVE  Attained(S, a)
<1>1. PICK path : path = [k \in 1..1 |-> a]
    OBVIOUS
<1>2. path \in [1..1 -> S] /\ DOMAIN path = 1..1 /\ path[1] = a
    BY <1>1
<1>3. Len(path) = 1 /\ path # <<>>
  <2>1. 1 \in Nat /\ 1 # 0
      OBVIOUS
  <2> QED BY <1>2, <2>1, FunctionIsSeq
<1>4. path \in UNION {[1..k -> S] : k \in 0..3}
  <2>1. 1 \in 0..3
      OBVIOUS
  <2> QED BY <1>2, <2>1
<1>5. Leads(path, a)
  <2>1. \A k \in DOMAIN path : k = 1
      BY <1>2
  <2> QED BY <1>2, <1>3, <2>1 DEF Leads
<1> QED BY <1>4, <1>5 DEF Attained

\* A path of two transitions
LEMMA AttainedTwo ==
    ASSUME NEW S, NEW a \in S, NEW b \in S, <<NoStatus, a>> \in AppliedPairs,
           <<a, b>> \in AppliedPairs
    PROVE  Attained(S, b)
<1>1. PICK path : path = [k \in 1..2 |-> IF k = 1 THEN a ELSE b]
    OBVIOUS
<1>2. path \in [1..2 -> S] /\ DOMAIN path = 1..2 /\ path[1] = a /\ path[2] = b
    BY <1>1
<1>3. Len(path) = 2 /\ path # <<>>
  <2>1. 2 \in Nat /\ 2 # 0
      OBVIOUS
  <2> QED BY <1>2, <2>1, FunctionIsSeq
<1>4. path \in UNION {[1..k -> S] : k \in 0..3}
  <2>1. 2 \in 0..3
      OBVIOUS
  <2> QED BY <1>2, <2>1
<1>5. Leads(path, b)
  <2>1. \A k \in DOMAIN path : k = 1 \/ k = 2
      BY <1>2
  <2> QED BY <1>2, <1>3, <2>1 DEF Leads
<1> QED BY <1>4, <1>5 DEF Attained

\* A path of three transitions
LEMMA AttainedThree ==
    ASSUME NEW S, NEW a \in S, NEW b \in S, NEW c \in S, <<NoStatus, a>> \in AppliedPairs,
           <<a, b>> \in AppliedPairs, <<b, c>> \in AppliedPairs
    PROVE  Attained(S, c)
<1>1. PICK path : path = [k \in 1..3 |-> IF k = 1 THEN a ELSE IF k = 2 THEN b ELSE c]
    OBVIOUS
<1>2. /\ path \in [1..3 -> S] /\ DOMAIN path = 1..3
      /\ path[1] = a /\ path[2] = b /\ path[3] = c
    BY <1>1
<1>3. Len(path) = 3 /\ path # <<>>
  <2>1. 3 \in Nat /\ 3 # 0
      OBVIOUS
  <2> QED BY <1>2, <2>1, FunctionIsSeq
<1>4. path \in UNION {[1..k -> S] : k \in 0..3}
  <2>1. 3 \in 0..3
      OBVIOUS
  <2> QED BY <1>2, <2>1
<1>5. Leads(path, c)
  <2>1. \A k \in DOMAIN path : k = 1 \/ k = 2 \/ k = 3
      BY <1>2
  <2> QED BY <1>2, <1>3, <2>1 DEF Leads
<1> QED BY <1>4, <1>5 DEF Attained

\* Whatever is attained was attained by a transition, and behind the creation.
LEMMA AttainedFrom ==
    ASSUME NEW S, NEW s, Attained(S, s)
    PROVE  \/ s = NoStatus
           \/ "CREATED" \in S /\ \E r \in S \cup {NoStatus} : <<r, s>> \in AppliedPairs
<1>1. PICK path \in UNION {[1..k -> S] : k \in 0..3} : Leads(path, s)
    BY DEF Attained
<1>2. PICK n \in 0..3 : path \in [1..n -> S]
    BY <1>1
<1>3. path \in Seq(S) /\ Len(path) = n /\ DOMAIN path = 1..n
    BY <1>2, SeqDef, LenProperties
<1>4. CASE path = <<>>
    BY <1>1, <1>4 DEF Leads
<1>5. CASE path # <<>>
  <2>1. n # 0
      BY <1>3, <1>5, EmptySeq
  <2>2. 1 \in DOMAIN path /\ n \in DOMAIN path /\ s = path[n]
      BY <1>1, <1>3, <1>5, <2>1 DEF Leads
  <2>3. <<NoStatus, path[1]>> \in AppliedPairs /\ path[1] \in S
      BY <1>1, <1>2, <2>2 DEF Leads
  <2>4. path[1] = "CREATED"
      BY <2>3 DEF AppliedPairs, NoStatus
  <2>5. PICK r : r = IF n = 1 THEN NoStatus ELSE path[n - 1]
      OBVIOUS
  <2>6. <<r, s>> \in AppliedPairs
      BY <1>1, <2>2, <2>5 DEF Leads
  <2>7. r \in S \cup {NoStatus}
      BY <1>2, <2>1, <2>5
  <2> QED BY <2>3, <2>4, <2>6, <2>7
<1> QED BY <1>4, <1>5

\* An order that was not created is nowhere.
LEMMA ReachedNone ==
    ASSUME NEW S, "CREATED" \notin S PROVE Reached(S) = NoStatus
<1>1. \A t \in S : <<NoStatus, t>> \notin AppliedPairs
    BY DEF AppliedPairs, NoStatus
<1>2. Stops(S, NoStatus)
    BY <1>1, AttainedNone DEF Stops
<1>3. \A t \in S \cup {NoStatus} : Stops(S, t) => t = NoStatus
    BY AttainedFrom DEF Stops
<1> QED BY <1>2, <1>3, OnlyStop

\* An order that was not paid and not cancelled stays where it was created.
LEMMA ReachedCreated ==
    ASSUME NEW S, "CREATED" \in S, S \subseteq {"CREATED", "SHIPPED"}
    PROVE  Reached(S) = "CREATED"
<1>1. <<NoStatus, "CREATED">> \in AppliedPairs
    BY DEF AppliedPairs
<1>2. \A t \in S : <<"CREATED", t>> \notin AppliedPairs
    BY DEF AppliedPairs, NoStatus
<1>3. Stops(S, "CREATED")
    BY <1>1, <1>2, AttainedOne DEF Stops
<1>4. \A t \in S \cup {NoStatus} : Stops(S, t) => t = "CREATED"
  <2> SUFFICES ASSUME NEW t \in S \cup {NoStatus}, Stops(S, t), t # "CREATED" PROVE FALSE
      OBVIOUS
  <2>1. t # NoStatus
      BY <1>1 DEF Stops
  <2>2. PICK r \in S \cup {NoStatus} : <<r, t>> \in AppliedPairs
      BY <2>1, AttainedFrom DEF Stops
  <2>3. t = "SHIPPED" /\ r \in {"CREATED", "SHIPPED", NoStatus}
      BY <2>1
  <2> QED BY <2>2, <2>3 DEF AppliedPairs, NoStatus
<1> QED BY <1>3, <1>4, OnlyStop

\* An order that was created and paid is there.
LEMMA ReachedPaid == Reached({"CREATED", "PAID"}) = "PAID"
<1>0. PICK S : S = {"CREATED", "PAID"}
    OBVIOUS
<1>1. <<NoStatus, "CREATED">> \in AppliedPairs /\ <<"CREATED", "PAID">> \in AppliedPairs
    BY DEF AppliedPairs
<1>2. \A t \in S : <<"PAID", t>> \notin AppliedPairs
    BY <1>0 DEF AppliedPairs, NoStatus
<1>3. "CREATED" \in S /\ "PAID" \in S
    BY <1>0
<1>4. Stops(S, "PAID")
    BY <1>1, <1>2, <1>3, AttainedTwo DEF Stops
<1>5. \A t \in S \cup {NoStatus} : Stops(S, t) => t = "PAID"
    BY <1>0, <1>1, <1>3 DEF Stops
<1> QED BY <1>0, <1>4, <1>5, OnlyStop

\* An order that went all the way is shipped.
LEMMA ReachedShipped == Reached({"CREATED", "PAID", "SHIPPED"}) = "SHIPPED"
<1>0. PICK S : S = {"CREATED", "PAID", "SHIPPED"}
    OBVIOUS
<1>1. /\ <<NoStatus, "CREATED">> \in AppliedPairs /\ <<"CREATED", "PAID">> \in AppliedPairs
      /\ <<"PAID", "SHIPPED">> \in AppliedPairs
    BY DEF AppliedPairs
<1>2. \A t \in S : <<"SHIPPED", t>> \notin AppliedPairs
    BY <1>0 DEF AppliedPairs, NoStatus
<1>3. "CREATED" \in S /\ "PAID" \in S /\ "SHIPPED" \in S
    BY <1>0
<1>4. Stops(S, "SHIPPED")
    BY <1>1, <1>2, <1>3, AttainedThree DEF Stops
<1>5. \A t \in S \cup {NoStatus} : Stops(S, t) => t = "SHIPPED"
    BY <1>0, <1>1, <1>3 DEF Stops
<1> QED BY <1>0, <1>4, <1>5, OnlyStop

-----------------------------------------------------------------------------
(* What the scenarios' labels say                                          *)

\* e asks for status s and carries this flag.
Asks(e, s, flag) == e.status = s /\ e.flag = flag

\* A payment or shipment of an order that was not created is out of order.
LEMMA RightTooEarly ==
    ASSUME NEW e, NEW S, "CREATED" \notin S,
           Asks(e, "PAID", "outOfOrder") \/ Asks(e, "SHIPPED", "outOfOrder")
    PROVE  Right(e, S)
<1>1. Reached(S) = NoStatus
    BY ReachedNone
<1>2. EvaluateTransition(NoStatus, e.status) = "OUT_OF_ORDER"
    BY Labels DEF Asks, EvaluateTransition, isKnown, AppliedPairs, OutOfOrderPairs, NoStatus
<1> QED BY <1>1, <1>2 DEF Right, Asks

\* The creation of an order that was not created is applied.
LEMMA RightCreation ==
    ASSUME NEW e, NEW S, "CREATED" \notin S, Asks(e, "CREATED", "")
    PROVE  Right(e, S)
<1>1. Reached(S) = NoStatus
    BY ReachedNone
<1>2. EvaluateTransition(NoStatus, e.status) = "APPLIED"
    BY Labels DEF Asks, EvaluateTransition, isKnown, AppliedPairs, OutOfOrderPairs, NoStatus
<1> QED BY <1>1, <1>2 DEF Right, Asks

\* So are payment and cancellation behind the creation,
LEMMA RightSecond ==
    ASSUME NEW e, NEW S, "CREATED" \in S, S \subseteq {"CREATED", "SHIPPED"},
           Asks(e, "PAID", "") \/ Asks(e, "CANCELLED", "")
    PROVE  Right(e, S)
<1>1. Reached(S) = "CREATED"
    BY ReachedCreated
<1>2. EvaluateTransition("CREATED", e.status) = "APPLIED"
    BY Labels DEF Asks, EvaluateTransition, isKnown, AppliedPairs, OutOfOrderPairs, NoStatus
<1> QED BY <1>1, <1>2 DEF Right, Asks

\* and shipment and cancellation behind the payment.
LEMMA RightThird ==
    ASSUME NEW e, NEW S, S = {"CREATED", "PAID"},
           Asks(e, "SHIPPED", "") \/ Asks(e, "CANCELLED", "")
    PROVE  Right(e, S)
<1>1. Reached(S) = "PAID"
    BY ReachedPaid
<1>2. EvaluateTransition("PAID", e.status) = "APPLIED"
    BY Labels DEF Asks, EvaluateTransition, isKnown, AppliedPairs, OutOfOrderPairs, NoStatus
<1> QED BY <1>1, <1>2 DEF Right, Asks

\* A cancellation behind the shipment is invalid.
LEMMA RightTooLate ==
    ASSUME NEW e, NEW S, S = {"CREATED", "PAID", "SHIPPED"}, Asks(e, "CANCELLED", "invalid")
    PROVE  Right(e, S)
<1>1. Reached(S) = "SHIPPED"
    BY ReachedShipped
<1>2. EvaluateTransition("SHIPPED", e.status) = "INVALID_TRANSITION"
    BY Labels DEF Asks, EvaluateTransition, isKnown, AppliedPairs, OutOfOrderPairs, NoStatus
<1> QED BY <1>1, <1>2 DEF Right, Asks

\* The first four of them
LEMMA AheadOf ==
    ASSUME NEW s
    PROVE  /\ Ahead(s, 1) = {}
           /\ Ahead(s, 2) = {s[1].status}
           /\ Ahead(s, 3) = {s[1].status, s[2].status}
           /\ Ahead(s, 4) = {s[1].status, s[2].status, s[3].status}
<1>1. 1..(1 - 1) = {} /\ 1..(2 - 1) = {1} /\ 1..(3 - 1) = {1, 2} /\ 1..(4 - 1) = {1, 2, 3}
    OBVIOUS
<1>2. Ahead(s, 1) = {}
    BY <1>1 DEF Ahead
<1>3. Ahead(s, 2) = {s[1].status}
    BY <1>1 DEF Ahead
<1>4. Ahead(s, 3) = {s[1].status, s[2].status}
    BY <1>1 DEF Ahead
<1>5. Ahead(s, 4) = {s[1].status, s[2].status, s[3].status}
    BY <1>1 DEF Ahead
<1> QED BY <1>2, <1>3, <1>4, <1>5

\* A script is right for an order that has met nothing.
LEMMA FitsNew ==
    ASSUME NEW s, \A k \in 1..Len(s) : Right(s[k], Ahead(s, k))
    PROVE  Fits({}, s)
<1>1. \A k \in 1..Len(s) : {} \cup Ahead(s, k) = Ahead(s, k)
    OBVIOUS
<1> QED BY <1>1 DEF Fits

\* Status and flag of an event
LEMMA EventAsks ==
    ASSUME NEW o, NEW i, NEW st, NEW flag PROVE Asks(Event(o, i, st, flag), st, flag)
BY DEF Asks, Event

\* paid before created
LEMMA PaidBeforeCreatedFits ==
    ASSUME NEW o \in Nat, NEW i \in Nat, NEW s, s = paidBeforeCreated(o, i)
    PROVE  Fits({}, s)
<1>1. Len(s) = 2
    BY PaidBeforeCreated
<1>2. Asks(s[1], "PAID", "outOfOrder") /\ Asks(s[2], "CREATED", "")
    BY EventAsks DEF paidBeforeCreated
<1>3. Ahead(s, 1) = {} /\ Ahead(s, 2) = {"PAID"}
    BY <1>2, AheadOf DEF Asks
<1>4. Right(s[1], Ahead(s, 1))
    BY <1>2, <1>3, RightTooEarly
<1>5. Right(s[2], Ahead(s, 2))
  <2>1. "CREATED" \notin {"PAID"}
      OBVIOUS
  <2> QED BY <1>2, <1>3, <2>1, RightCreation
<1>6. \A k \in 1..Len(s) : k = 1 \/ k = 2
    BY <1>1
<1> QED BY <1>4, <1>5, <1>6, FitsNew

\* shipped before paid
LEMMA ShippedBeforePaidFits ==
    ASSUME NEW o \in Nat, NEW i \in Nat, NEW s, s = shippedBeforePaid(o, i)
    PROVE  Fits({}, s)
<1>1. Len(s) = 3
    BY ShippedBeforePaid
<1>2. /\ Asks(s[1], "SHIPPED", "outOfOrder") /\ Asks(s[2], "CREATED", "")
      /\ Asks(s[3], "PAID", "")
    BY EventAsks DEF shippedBeforePaid
<1>3. Ahead(s, 1) = {} /\ Ahead(s, 2) = {"SHIPPED"} /\ Ahead(s, 3) = {"SHIPPED", "CREATED"}
    BY <1>2, AheadOf DEF Asks
<1>4. Right(s[1], Ahead(s, 1))
    BY <1>2, <1>3, RightTooEarly
<1>5. Right(s[2], Ahead(s, 2))
  <2>1. "CREATED" \notin {"SHIPPED"}
      OBVIOUS
  <2> QED BY <1>2, <1>3, <2>1, RightCreation
<1>6. Right(s[3], Ahead(s, 3))
    BY <1>2, <1>3, RightSecond
<1>7. \A k \in 1..Len(s) : k = 1 \/ k = 2 \/ k = 3
    BY <1>1
<1> QED BY <1>4, <1>5, <1>6, <1>7, FitsNew

\* cancelled after shipped
LEMMA CancelledAfterShippedFits ==
    ASSUME NEW o \in Nat, NEW i \in Nat, NEW s, s = cancelledAfterShipped(o, i)
    PROVE  Fits({}, s)
<1>1. Len(s) = 4
    BY CancelledAfterShipped
<1>2. /\ Asks(s[1], "CREATED", "") /\ Asks(s[2], "PAID", "")
      /\ Asks(s[3], "SHIPPED", "") /\ Asks(s[4], "CANCELLED", "invalid")
    BY EventAsks DEF cancelledAfterShipped
<1>3. /\ Ahead(s, 1) = {} /\ Ahead(s, 2) = {"CREATED"} /\ Ahead(s, 3) = {"CREATED", "PAID"}
      /\ Ahead(s, 4) = {"CREATED", "PAID", "SHIPPED"}
    BY <1>2, AheadOf DEF Asks
<1>4. Right(s[1], Ahead(s, 1))
    BY <1>2, <1>3, RightCreation
<1>5. Right(s[2], Ahead(s, 2))
    BY <1>2, <1>3, RightSecond
<1>6. Right(s[3], Ahead(s, 3))
    BY <1>2, <1>3, RightThird
<1>7. Right(s[4], Ahead(s, 4))
    BY <1>2, <1>3, RightTooLate
<1>8. \A k \in 1..Len(s) : k = 1 \/ k = 2 \/ k = 3 \/ k = 4
    BY <1>1
<1> QED BY <1>4, <1>5, <1>6, <1>7, <1>8, FitsNew

\* What the lifecycles have in common
LEMMA LifecycleSteps ==
    ASSUME NEW lifecycle \in lifecycles
    PROVE  /\ Len(lifecycle) \in 1..3
           /\ lifecycle[1] = "CREATED"
           /\ Len(lifecycle) >= 2 => lifecycle[2] \in {"PAID", "CANCELLED"}
           /\ Len(lifecycle) = 3 => /\ lifecycle[2] = "PAID"
                                    /\ lifecycle[3] \in {"SHIPPED", "CANCELLED"}
BY DEF lifecycles

\* a lifecycle, cut off after count events
LEMMA InLifecycleOrderFits ==
    ASSUME NEW o \in Nat, NEW i \in Nat, NEW lifecycle \in lifecycles,
           NEW count \in Nat \ {0}, NEW s, s = inLifecycleOrder(o, i, lifecycle, count)
    PROVE  Fits({}, s)
<1>1. PICK n : n = IF Len(lifecycle) > count THEN count ELSE Len(lifecycle)
    OBVIOUS
<1>0. PICK l \in 1..3 : l = Len(lifecycle)
    BY LifecycleSteps
<1>2. n \in 1..3 /\ n <= l /\ n \in Nat
    BY <1>0, <1>1
<1>3. s = [k \in 1..n |-> Event(o, i + k - 1, lifecycle[k], "")]
    BY <1>1 DEF inLifecycleOrder
<1>4. \A k \in 1..n : Asks(s[k], lifecycle[k], "")
    BY <1>3, EventAsks
<1>5. Len(s) = n
  <2>1. s \in Seq(GeneratedEvent)
      BY InLifecycleOrder DEF IsLifecycle, IsScenario
  <2>2. DOMAIN s = 1..n
      BY <1>3
  <2> QED BY <1>2, <2>1, <2>2, LenProperties
<1>6. \A k \in 1..n : s[k].status = lifecycle[k]
    BY <1>4 DEF Asks
<1> SUFFICES ASSUME NEW k \in 1..n PROVE Right(s[k], Ahead(s, k))
    BY <1>5, FitsNew
<1>7. CASE k = 1
  <2>1. Asks(s[k], "CREATED", "") /\ Ahead(s, k) = {}
      BY <1>4, <1>7, LifecycleSteps, AheadOf
  <2> QED BY <2>1, RightCreation
<1>8. CASE k = 2
  <2>1. 1 \in 1..n /\ Len(lifecycle) >= 2
      BY <1>0, <1>2, <1>8
  <2>2. Ahead(s, k) = {"CREATED"}
      BY <1>6, <1>8, <2>1, LifecycleSteps, AheadOf
  <2>3. Asks(s[k], "PAID", "") \/ Asks(s[k], "CANCELLED", "")
      BY <1>4, <1>8, <2>1, LifecycleSteps
  <2> QED BY <2>2, <2>3, RightSecond
<1>9. CASE k = 3
  <2>1. 1 \in 1..n /\ 2 \in 1..n /\ Len(lifecycle) = 3 /\ Len(lifecycle) >= 2
      BY <1>0, <1>2, <1>9
  <2>2. Ahead(s, k) = {"CREATED", "PAID"}
      BY <1>6, <1>9, <2>1, LifecycleSteps, AheadOf
  <2>3. Asks(s[k], "SHIPPED", "") \/ Asks(s[k], "CANCELLED", "")
      BY <1>4, <1>9, <2>1, LifecycleSteps
  <2> QED BY <2>2, <2>3, RightThird
<1> QED BY <1>2, <1>7, <1>8, <1>9

-----------------------------------------------------------------------------
(* Labels along the log                                                    *)

\* Two logs agree on their first n events.
Agree(log, other, n) == \A k \in 1..n : log[k] = other[k]

\* What an order has met depends on the events so far only.
LEMMA MetAgrees ==
    ASSUME NEW log, NEW other, NEW n \in Nat, Agree(log, other, n), NEW o
    PROVE  Met(log, n, o) = Met(other, n, o)
BY DEF Met, Agree

\* and so does the label that is right.
LEMMA RightAgrees ==
    ASSUME NEW log, NEW other, NEW n \in Nat \ {0}, Agree(log, other, n), RightAt(log, n)
    PROVE  RightAt(other, n)
<1>1. log[n] = other[n]
    BY DEF Agree
<1>2. n - 1 \in Nat /\ Agree(log, other, n - 1)
    BY DEF Agree
<1>3. Met(log, n - 1, log[n].order) = Met(other, n - 1, log[n].order)
    BY <1>2, MetAgrees
<1>4. CASE log[n].flag = "duplicate"
  <2>1. Repeated(log, n - 1, log[n])
      BY <1>4 DEF RightAt
  <2>2. Repeated(other, n - 1, log[n])
      BY <1>2, <2>1 DEF Repeated, Agree
  <2> QED BY <1>1, <1>4, <2>2 DEF RightAt
<1>5. CASE log[n].flag # "duplicate"
  <2>1. Right(log[n], Met(log, n - 1, log[n].order))
      BY <1>5 DEF RightAt
  <2> QED BY <1>1, <1>3, <1>5, <2>1 DEF RightAt
<1> QED BY <1>4, <1>5

\* The labels of a log are right as far as it is cut off.
LEMMA CutOffLabelled ==
    ASSUME NEW log, NEW other, Len(other) \in Nat, Len(log) \in Nat, Len(other) <= Len(log),
           Agree(log, other, Len(other)), Labelled(log)
    PROVE  Labelled(other)
<1> SUFFICES ASSUME NEW n \in 1..Len(other) PROVE RightAt(other, n)
    BY DEF Labelled
<1>1. n \in 1..Len(log) /\ n \in Nat \ {0}
    OBVIOUS
<1>2. Agree(log, other, n)
    BY DEF Agree
<1>3. RightAt(log, n)
    BY <1>1 DEF Labelled
<1> QED BY <1>1, <1>2, <1>3, RightAgrees

\* What an order has met once e is appended
LEMMA MetMore ==
    ASSUME NEW log \in Seq(GeneratedEvent), NEW e \in GeneratedEvent, NEW o
    PROVE  LET longer == Append(log, e)
           IN  Met(longer, Len(longer), o) =
                  Met(log, Len(log), o) \cup (IF e.order = o THEN {e.status} ELSE {})
<1>1. PICK longer : longer = Append(log, e)
    OBVIOUS
<1>2. PICK n \in Nat : n = Len(log)
    BY LenProperties
<1>3. Len(longer) = n + 1 /\ longer[n + 1] = e /\ \A k \in 1..n : longer[k] = log[k]
    BY <1>1, <1>2, AppendProperties
<1>4. ASSUME NEW x \in Met(longer, n + 1, o)
      PROVE  x \in Met(log, n, o) \cup (IF e.order = o THEN {e.status} ELSE {})
  <2>1. PICK m \in 1..(n + 1) : longer[m].order = o /\ x = longer[m].status
      BY <1>4 DEF Met
  <2>2. CASE m = n + 1
      BY <1>3, <2>1, <2>2
  <2>3. CASE m # n + 1
    <3>1. m \in 1..n
        BY <2>1, <2>3
    <3> QED BY <1>3, <2>1, <3>1 DEF Met
  <2> QED BY <2>2, <2>3
<1>5. ASSUME NEW x \in Met(log, n, o) PROVE x \in Met(longer, n + 1, o)
  <2>1. PICK m \in 1..n : log[m].order = o /\ x = log[m].status
      BY <1>5 DEF Met
  <2>2. m \in 1..(n + 1) /\ longer[m] = log[m]
      BY <1>3, <2>1
  <2> QED BY <2>1, <2>2 DEF Met
<1>6. ASSUME e.order = o PROVE e.status \in Met(longer, n + 1, o)
  <2>1. n + 1 \in 1..(n + 1)
      OBVIOUS
  <2> QED BY <1>3, <1>6, <2>1 DEF Met
<1>7. Met(longer, n + 1, o) = Met(log, n, o) \cup (IF e.order = o THEN {e.status} ELSE {})
    BY <1>4, <1>5, <1>6
<1> QED BY <1>1, <1>2, <1>3, <1>7

\* A log stays labelled when an event with the right label is appended.
LEMMA StillLabelled ==
    ASSUME NEW log \in Seq(GeneratedEvent), NEW e \in GeneratedEvent, Labelled(log),
           e.flag = "duplicate" => Repeated(log, Len(log), e),
           e.flag # "duplicate" => Right(e, Met(log, Len(log), e.order))
    PROVE  Labelled(Append(log, e))
<1>1. PICK longer : longer = Append(log, e)
    OBVIOUS
<1>2. PICK n \in Nat : n = Len(log)
    BY LenProperties
<1>3. Len(longer) = n + 1 /\ longer[n + 1] = e /\ \A k \in 1..n : log[k] = longer[k]
    BY <1>1, <1>2, AppendProperties
<1>4. \A k \in 1..n : RightAt(longer, k)
  <2> SUFFICES ASSUME NEW k \in 1..n PROVE RightAt(longer, k)
      OBVIOUS
  <2>1. Agree(log, longer, k) /\ k \in Nat \ {0}
      BY <1>3 DEF Agree
  <2>2. RightAt(log, k)
      BY <1>2 DEF Labelled
  <2> QED BY <2>1, <2>2, RightAgrees
<1>5. RightAt(longer, n + 1)
  <2>1. Agree(log, longer, n)
      BY <1>3 DEF Agree
  <2>2. Met(log, n, e.order) = Met(longer, n, e.order)
      BY <2>1, MetAgrees
  <2>3. n + 1 - 1 = n
      OBVIOUS
  <2>4. CASE e.flag = "duplicate"
    <3>1. Repeated(longer, n, e)
        BY <1>2, <2>1, <2>4 DEF Repeated, Agree
    <3> QED BY <1>3, <2>3, <2>4, <3>1 DEF RightAt
  <2>5. CASE e.flag # "duplicate"
    <3>1. Right(e, Met(longer, n, e.order))
        BY <1>2, <2>2, <2>5
    <3> QED BY <1>3, <2>3, <2>5, <3>1 DEF RightAt
  <2> QED BY <2>4, <2>5
<1>6. \A k \in 1..(n + 1) : k \in 1..n \/ k = n + 1
    OBVIOUS
<1> QED BY <1>1, <1>3, <1>4, <1>5, <1>6 DEF Labelled

\* An event of the log stays repeated.
LEMMA StillRepeated ==
    ASSUME NEW log \in Seq(GeneratedEvent), NEW e \in GeneratedEvent,
           NEW d \in GeneratedEvent,
           \/ Repeated(log, Len(log), d)
           \/ /\ e.flag # "duplicate" /\ e.id = d.id
              /\ e.order = d.order /\ e.status = d.status
    PROVE  LET longer == Append(log, e)
           IN  Repeated(longer, Len(longer), d)
<1>1. PICK longer : longer = Append(log, e)
    OBVIOUS
<1>2. PICK n \in Nat : n = Len(log)
    BY LenProperties
<1>3. Len(longer) = n + 1 /\ longer[n + 1] = e /\ \A k \in 1..n : log[k] = longer[k]
    BY <1>1, <1>2, AppendProperties
<1>4. n + 1 \in 1..(n + 1) /\ \A k \in 1..n : k \in 1..(n + 1)
    OBVIOUS
<1>5. Repeated(longer, n + 1, d)
    BY <1>2, <1>3, <1>4 DEF Repeated
<1> QED BY <1>1, <1>3, <1>5

\* The rest of a script is right once its first event has been emitted.
LEMMA RestFits ==
    ASSUME NEW S, NEW s \in Seq(GeneratedEvent), s # <<>>, Fits(S, s),
           NEW rest, rest = Tail(s), NEW st, st = s[1].status
    PROVE  Right(s[1], S) /\ Fits(S \cup {st}, rest)
<1>1. PICK n \in Nat : n = Len(rest)
    BY HeadTailProperties, LenProperties
<1>2. Len(s) = n + 1 /\ \A k \in 1..n : rest[k] = s[k + 1]
    BY <1>1, HeadTailProperties, LenProperties
<1>3. Right(s[1], S)
  <2>1. 1 \in 1..Len(s)
      BY <1>2
  <2>2. S \cup Ahead(s, 1) = S
      BY AheadOf
  <2> QED BY <2>1, <2>2 DEF Fits
<1>4. ASSUME NEW k \in 1..n
      PROVE  Right(rest[k], (S \cup {st}) \cup Ahead(rest, k))
  <2>1. k + 1 \in 1..Len(s) /\ rest[k] = s[k + 1]
      BY <1>2
  <2>2. Right(s[k + 1], S \cup Ahead(s, k + 1))
      BY <2>1 DEF Fits
  <2>3. Ahead(s, k + 1) = {st} \cup Ahead(rest, k)
    <3>0. k + 1 - 1 = k
        OBVIOUS
    <3>1. ASSUME NEW x \in Ahead(s, k + 1) PROVE x \in {st} \cup Ahead(rest, k)
      <4>a. PICK i \in 1..(k + 1 - 1) : x = s[i].status
          BY <3>1 DEF Ahead
      <4>0. PICK j \in 1..k : x = s[j].status
          BY <3>0, <4>a
      <4>1. CASE j = 1
          BY <4>0, <4>1
      <4>2. CASE j # 1
        <5>1. PICK m \in 1..(k - 1) : m + 1 = j /\ m \in 1..n
          <6>1. j - 1 \in 1..(k - 1) /\ j - 1 + 1 = j /\ j - 1 \in 1..n
              BY <4>0, <4>2
          <6> QED BY <6>1
        <5>2. x = rest[m].status
            BY <1>2, <4>0, <5>1
        <5> QED BY <5>1, <5>2 DEF Ahead
      <4> QED BY <4>1, <4>2
    <3>2. ASSUME NEW x \in Ahead(rest, k) PROVE x \in Ahead(s, k + 1)
      <4>1. PICK m \in 1..(k - 1) : x = rest[m].status
          BY <3>2 DEF Ahead
      <4>2. m + 1 \in 1..k /\ m \in 1..n
          BY <4>1
      <4>3. x = s[m + 1].status
          BY <1>2, <4>1, <4>2
      <4> QED BY <3>0, <4>2, <4>3 DEF Ahead
    <3>3. st \in Ahead(s, k + 1)
      <4>1. 1 \in 1..k
          OBVIOUS
      <4> QED BY <3>0, <4>1 DEF Ahead
    <3> QED BY <3>1, <3>2, <3>3
  <2>4. S \cup Ahead(s, k + 1) =
           (S \cup {st}) \cup Ahead(rest, k)
      BY <2>3
  <2> QED BY <2>1, <2>2, <2>4
<1> QED BY <1>1, <1>3, <1>4 DEF Fits

-----------------------------------------------------------------------------
(* Every step keeps the labels true                                        *)

\* The stream's labels are those of the log it is cut off from.
LEMMA TrueLabels ==
    ASSUME TypeOK, Labelled(stream)
    PROVE  LabelsAreTrue
<1> SUFFICES ASSUME NEW n \in 1..Len(stream)
             PROVE  LET e == stream[n]
                        c == EvaluateTransition(Reached(Before(n)), e.status)
                    IN  CASE e.flag = "outOfOrder" -> c = "OUT_OF_ORDER"
                          [] e.flag = "invalid"    -> c = "INVALID_TRANSITION"
                          [] e.flag = ""           -> c = "APPLIED"
                          [] e.flag = "duplicate"  ->
                                \E m \in 1..(n - 1) : /\ stream[m].flag # "duplicate"
                                                      /\ stream[m].id = e.id
                                                      /\ stream[m].order = e.order
                                                      /\ stream[m].status = e.status
    BY DEF LabelsAreTrue
<1>1. PICK e \in GeneratedEvent : e = stream[n]
    BY ElementOfSeq DEF TypeOK
<1>2. e.flag \in Flags
    BY <1>1 DEF GeneratedEvent
<1>3. Before(n) = Met(stream, n - 1, e.order)
    BY <1>1 DEF Before, Met
<1>4. RightAt(stream, n)
    BY DEF Labelled
<1>5. CASE e.flag = "duplicate"
  <2>1. Repeated(stream, n - 1, e)
      BY <1>1, <1>4, <1>5 DEF RightAt
  <2> QED BY <1>1, <1>5, <2>1 DEF Repeated
<1>6. CASE e.flag # "duplicate"
  <2>1. Right(e, Before(n))
      BY <1>1, <1>3, <1>4, <1>6 DEF RightAt
  <2>2. e.flag = "outOfOrder" \/ e.flag = "invalid" \/ e.flag = ""
      BY <1>2, <1>6 DEF Flags
  <2> QED BY <1>1, <2>1, <2>2 DEF Right
<1> QED BY <1>5, <1>6

\* The stream is the first part of the log.
LEMMA StreamOfLog ==
    ASSUME TypeOK
    PROVE  /\ Len(stream) \in Nat /\ Len(Log) \in Nat /\ Len(stream) <= Len(Log)
           /\ Agree(Log, stream, Len(stream))
<1>1. Len(stream) \in Nat /\ Len(batch) \in Nat /\ sent \in 0..Len(batch)
    BY LenProperties DEF TypeOK
<1>2. Len(Log) = Logged /\ Logged \in Nat
    BY LogType
<1>3. Len(stream) <= Logged
    BY <1>1 DEF Logged
<1>4. \A n \in 1..Len(stream) : Log[n] = stream[n]
    BY <1>1, <1>2, <1>3 DEF Log
<1> QED BY <1>1, <1>2, <1>3, <1>4 DEF Agree

\* Labels that are right along the log are right along the stream.
LEMMA LogLabels == ASSUME TypeOK, Labelled(Log) PROVE Labelled(stream)
<1>1. PICK log, other : log = Log /\ other = stream
    OBVIOUS
<1>2. Labelled(other)
    BY <1>1, StreamOfLog, CutOffLabelled
<1> QED BY <1>1, <1>2

\* The same in the next state
LEMMA NextLabels == ASSUME TypeOK', Labelled(Log') PROVE Labelled(stream')
<1>1. (TypeOK /\ Labelled(Log) => Labelled(stream))'
    BY LogLabels, PTL
<1> QED BY <1>1

\* A step that leaves the log and the generator's script as they are
LEMMA LogKept ==
    ASSUME TypeOK', LabelInv, Log' = Log, UNCHANGED <<script, due, orderSequence>>,
           result' # "failed" => result # "failed",
           result' = "failed" => stream' = stream
    PROVE  LabelInv'
<1>1. CASE result' = "failed"
    BY <1>1 DEF LabelInv
<1>2. CASE result' # "failed"
  <2>1. Labelled(Log) /\ Continues(Log, script, due, orderSequence)
      BY <1>2 DEF LabelInv
  <2>2. Labelled(Log') /\ Continues(Log', script', due', orderSequence')
      BY <2>1
  <2>3. Labelled(stream')
      BY <2>2, NextLabels
  <2> QED BY <2>2, <2>3 DEF LabelInv
<1> QED BY <1>1, <1>2

\* The log holds no event of an order to come.
LEMMA NothingMet ==
    ASSUME NEW log \in Seq(GeneratedEvent), NEW s, NEW last \in Nat, Ordered(log, s, last)
    PROVE  Met(log, Len(log), last + 1) = {}
<1> SUFFICES ASSUME NEW n \in 1..Len(log), log[n].order = last + 1 PROVE FALSE
    BY DEF Met
<1>1. log[n].order \in 1..last
    BY DEF Ordered
<1> QED BY <1>1

\* An order is begun.
LEMMA BeginLabels ==
    ASSUME ProducerInv, ProducerInv', LabelInv, stage \in {"outOfOrder", "invalid", "normal"},
           NEW s, BeginOrder(s), IsScenario(s, orderSequence + 1, eventSequence + 1), Fits({}, s)
    PROVE  LabelInv'
<1>1. /\ script' = s /\ due = <<>> /\ orderSequence' = orderSequence + 1
      /\ UNCHANGED <<due, batch, sent, stream, result>>
    BY DEF BeginOrder, OrderEmitted
<1>2. TypeOK /\ Books /\ result = ""
    BY Running
<1>3. Log' = Log
    BY <1>1, LogStays
<1>4. PICK log \in Seq(GeneratedEvent) : log = Log
    BY <1>2, LogType
<1>5. PICK o \in Nat : o = orderSequence
    BY <1>2 DEF TypeOK
<1>6. Met(log, Len(log), o + 1) = {}
    BY <1>2, <1>4, <1>5, NothingMet DEF Books
<1>7. \A k \in 1..Len(s) : s[k].order = o + 1
    BY <1>5 DEF IsScenario
<1>8. Continues(log, s, <<>>, o + 1)
    BY <1>6, <1>7 DEF Continues
<1>9. Labelled(log)
    BY <1>2, <1>4 DEF LabelInv
<1>10. Labelled(stream')
    BY <1>1 DEF LabelInv
<1>11. Labelled(Log') /\ Continues(Log', script', due', orderSequence')
    BY <1>1, <1>3, <1>4, <1>5, <1>8, <1>9
<1> QED BY <1>10, <1>11 DEF LabelInv

\* generateOutOfOrder
LEMMA OutOfOrderLabels ==
    ASSUME ProducerInv, ProducerInv', LabelInv, generateOutOfOrder PROVE LabelInv'
<1>1. stage = "outOfOrder"
    BY DEF generateOutOfOrder
<1>2. PICK o \in Nat, i \in Nat : o = orderSequence + 1 /\ i = eventSequence + 1
    BY NextNumbers
<1>3. PICK s : BeginOrder(s) /\ (s = paidBeforeCreated(o, i) \/ s = shippedBeforePaid(o, i))
    BY <1>2 DEF generateOutOfOrder
<1>4. IsScenario(s, o, i) /\ Fits({}, s)
    BY <1>3, PaidBeforeCreated, ShippedBeforePaid, PaidBeforeCreatedFits, ShippedBeforePaidFits
<1> QED BY <1>1, <1>2, <1>3, <1>4, BeginLabels

\* generateInvalid
LEMMA InvalidLabels ==
    ASSUME ProducerInv, ProducerInv', LabelInv, generateInvalid PROVE LabelInv'
<1>1. stage = "invalid"
    BY DEF generateInvalid
<1>2. PICK o \in Nat, i \in Nat : o = orderSequence + 1 /\ i = eventSequence + 1
    BY NextNumbers
<1>3. PICK s : BeginOrder(s) /\ s = cancelledAfterShipped(o, i)
    BY <1>2 DEF generateInvalid
<1>4. IsScenario(s, o, i) /\ Fits({}, s)
    BY <1>3, CancelledAfterShipped, CancelledAfterShippedFits
<1> QED BY <1>1, <1>2, <1>3, <1>4, BeginLabels

\* generateNormal
LEMMA NormalLabels ==
    ASSUME ProducerInv, ProducerInv', LabelInv, generateNormal PROVE LabelInv'
<1>1. stage = "normal" /\ uniqueTarget(config) > summary.unique
    BY DEF generateNormal
<1>2. PICK o \in Nat, i \in Nat : o = orderSequence + 1 /\ i = eventSequence + 1
    BY NextNumbers
<1>3. PICK count : count = uniqueTarget(config) - summary.unique
    OBVIOUS
<1>4. count \in Nat \ {0}
  <2>1. uniqueTarget(config) \in Int
    <3>1. config \in producerConfig
        BY Configured DEF ProducerInv
    <3> QED BY <3>1 DEF producerConfig, uniqueTarget
  <2>2. summary.unique \in Nat
    <3>1. summary \in [Counters -> Nat] /\ "unique" \in Counters
        BY CounterNames DEF ProducerInv, TypeOK, Counters
    <3> QED BY <3>1
  <2> QED BY <1>1, <1>3, <2>1, <2>2
<1>5. PICK lifecycle \in lifecycles : BeginOrder(inLifecycleOrder(o, i, lifecycle, count))
    BY <1>2, <1>3 DEF generateNormal
<1>6. PICK s : s = inLifecycleOrder(o, i, lifecycle, count)
    OBVIOUS
<1>7. IsScenario(s, o, i)
    BY <1>4, <1>6, InLifecycleOrder DEF IsLifecycle
<1>8. Fits({}, s)
    BY <1>4, <1>6, InLifecycleOrderFits
<1> QED BY <1>1, <1>2, <1>5, <1>6, <1>7, <1>8, BeginLabels

\* An event is buffered behind a failure: nothing more is published.
\* Otherwise the log grows by an event with the right label.
LEMMA BufferedLabels ==
    ASSUME TypeOK, TypeOK', LabelInv, NEW e \in GeneratedEvent, emit(e),
           result # "failed" => Labelled(Append(Log, e)),
           result # "failed" => Continues(Append(Log, e), script', due', orderSequence)
    PROVE  LabelInv'
<1>1. batch' = Append(batch, e) /\ UNCHANGED <<orderSequence, sent, stream, result>>
    BY DEF emit
<1>2. Log' = Append(Log, e)
    BY <1>1, LogAppended
<1>3. Labelled(stream')
    BY <1>1 DEF LabelInv
<1>4. result' # "failed" =>
          Labelled(Log') /\ Continues(Log', script', due', orderSequence')
    BY <1>1, <1>2
<1> QED BY <1>3, <1>4 DEF LabelInv

\* A duplicate has the status of its event, too.
LEMMA DuplicateStatus ==
    ASSUME NEW e \in GeneratedEvent, NEW d, d = [e EXCEPT !.flag = "duplicate"]
    PROVE  d.status = e.status
BY DEF GeneratedEvent

\* emitUnique
LEMMA UniqueLabels ==
    ASSUME ProducerInv, ProducerInv', LabelInv, emitUnique PROVE LabelInv'
<1>1. TypeOK /\ TypeOK' /\ Unflagged
    BY DEF ProducerInv
<1>2. PICK e \in GeneratedEvent : e = Head(script) /\ Taken(e) /\ CountedUnique(e)
    BY <1>1, UniqueTaken
<1>3. e = script[1] /\ e.flag # "duplicate" /\ 1 \in 1..Len(script)
  <2>1. e = script[1] /\ e.flag \in {"", "outOfOrder", "invalid"}
      BY <1>2 DEF Taken
  <2>2. Len(script) \in Nat \ {0}
      BY <1>2 DEF Taken
  <2>3. 1 \in 1..Len(script)
      BY ONLY <2>2
  <2> QED BY <2>1, <2>3
<1>4. PICK d : d = [e EXCEPT !.flag = "duplicate"]
    OBVIOUS
<1>5. d \in GeneratedEvent /\ d.id = e.id /\ d.order = e.order /\ d.status = e.status
    BY <1>4, DuplicateOf, DuplicateStatus
<1>6. /\ script # <<>> /\ script' = Tail(script) /\ emit(e)
      /\ due' = IF duplicatesRemaining = 0 THEN <<>> ELSE <<d>>
    BY <1>2, <1>4 DEF emitUnique
<1>7. due' # <<>> => due'[1] = d
    BY <1>6
<1>8. PICK log \in Seq(GeneratedEvent) : log = Log
    BY <1>1, LogType
<1>9. PICK s \in Seq(GeneratedEvent) : s = script /\ s # <<>>
    BY <1>1, <1>6 DEF TypeOK
<1>t. PICK rest : rest = Tail(s)
    OBVIOUS
<1>10. PICK o : o = orderSequence
    OBVIOUS
<1>11. ASSUME result # "failed"
       PROVE  Labelled(Append(log, e)) /\ Continues(Append(log, e), rest, due', o)
  <2>1. /\ Labelled(log) /\ Fits(Met(log, Len(log), o), s)
        /\ \A k \in 1..Len(s) : s[k].order = o
      BY <1>8, <1>9, <1>10, <1>11 DEF LabelInv, Continues
  <2>2. e.order = o /\ e = s[1]
      BY <1>3, <1>9, <2>1
  <2>3. PICK S : S = Met(log, Len(log), o)
      OBVIOUS
  <2>4. Right(e, S) /\ Fits(S \cup {e.status}, rest)
      BY <1>9, <1>t, <2>1, <2>2, <2>3, RestFits
  <2>5. Labelled(Append(log, e))
      BY <1>3, <2>1, <2>2, <2>3, <2>4, StillLabelled
  <2>6. PICK longer : longer = Append(log, e)
      OBVIOUS
  <2>7. Met(longer, Len(longer), o) = S \cup {e.status}
      BY <2>2, <2>3, <2>6, MetMore
  <2>8. Repeated(longer, Len(longer), d)
      BY <1>3, <1>5, <2>6, StillRepeated
  <2>9. \A k \in 1..Len(rest) : rest[k].order = o
    <3>1. PICK n \in Nat : n = Len(s)
        BY LenProperties
    <3>2. Len(rest) = n - 1 /\ \A k \in 1..(n - 1) : rest[k] = s[k + 1]
        BY <1>9, <1>t, <3>1, HeadTailProperties
    <3>3. \A k \in 1..(n - 1) : k + 1 \in 1..n
        BY <3>1
    <3> QED BY <2>1, <3>1, <3>2, <3>3
  <2>10. Continues(longer, rest, due', o)
      BY <1>7, <2>4, <2>7, <2>8, <2>9 DEF Continues
  <2> QED BY <2>5, <2>6, <2>10
<1> QED BY <1>1, <1>6, <1>8, <1>9, <1>t, <1>10, <1>11, BufferedLabels

\* An order has met the status of an event that is in the log.
LEMMA MetRepeated ==
    ASSUME NEW log, NEW n, NEW e, Repeated(log, n, e)
    PROVE  e.status \in Met(log, n, e.order)
BY DEF Repeated, Met

\* emitDuplicate
LEMMA DuplicateLabels ==
    ASSUME ProducerInv, ProducerInv', LabelInv, emitDuplicate PROVE LabelInv'
<1>1. TypeOK /\ TypeOK'
    BY DEF ProducerInv
<1>2. due # <<>> /\ due' = <<>> /\ emit(due[1]) /\ script' = script
    BY DEF emitDuplicate
<1>3. PICK e \in GeneratedEvent : e = due[1]
  <2>1. due \in Seq(GeneratedEvent)
      BY <1>1 DEF TypeOK
  <2>2. Len(due) \in Nat /\ Len(due) # 0
      BY <1>2, <2>1, LenProperties, EmptySeq
  <2>3. 1 \in 1..Len(due)
      BY <2>2
  <2> QED BY <2>1, <2>3, ElementOfSeq
<1>4. PICK log \in Seq(GeneratedEvent) : log = Log
    BY <1>1, LogType
<1>5. PICK o : o = orderSequence
    OBVIOUS
<1>6. ASSUME result # "failed"
      PROVE  Labelled(Append(log, e)) /\ Continues(Append(log, e), script, <<>>, o)
  <2>1. Books
      BY <1>6 DEF ProducerInv
  <2>2. e.flag = "duplicate"
      BY <1>2, <1>3, <2>1 DEF Books, Repeats
  <2>3. /\ Labelled(log) /\ Fits(Met(log, Len(log), o), script)
        /\ \A k \in 1..Len(script) : script[k].order = o
        /\ Repeated(log, Len(log), e)
      BY <1>2, <1>3, <1>4, <1>5, <1>6 DEF LabelInv, Continues
  <2>4. Labelled(Append(log, e))
      BY <2>2, <2>3, StillLabelled
  <2>5. PICK longer : longer = Append(log, e)
      OBVIOUS
  <2>6. e.order = o => e.status \in Met(log, Len(log), o)
      BY <2>3, MetRepeated
  <2>7. Met(longer, Len(longer), o) = Met(log, Len(log), o)
    <3>1. Met(longer, Len(longer), o) =
              Met(log, Len(log), o) \cup (IF e.order = o THEN {e.status} ELSE {})
        BY <2>5, MetMore
    <3> QED BY <2>6, <3>1
  <2>8. Continues(longer, script, <<>>, o)
      BY <2>3, <2>7 DEF Continues
  <2> QED BY <2>4, <2>5, <2>8
<1> QED BY <1>1, <1>2, <1>3, <1>4, <1>5, <1>6, BufferedLabels

\* PublishFails: what was published is the log, cut off.
LEMMA PublishFailsLabels ==
    ASSUME ProducerInv, LabelInv, PublishFails PROVE LabelInv'
<1>1. /\ stage # "done" /\ sent < Len(batch) /\ result' = "failed"
      /\ stream' \in {stream, Append(stream, batch[sent + 1])}
    BY DEF PublishFails, Fail
<1>2. TypeOK /\ result # "failed"
    BY <1>1 DEF ProducerInv, Ended
<1>3. PICK log : log = Log /\ Labelled(log) /\ Len(log) = Logged /\ Logged \in Nat
    BY <1>2, LogType DEF LabelInv
<1>4. CASE stream' = stream
    BY <1>1, <1>4 DEF LabelInv
<1>5. CASE stream' = Append(stream, batch[sent + 1])
  <2>1. /\ batch \in Seq(GeneratedEvent) /\ stream \in Seq(GeneratedEvent)
        /\ Len(batch) \in Nat /\ Len(stream) \in Nat /\ sent \in 0..Len(batch)
      BY <1>2, LenProperties DEF TypeOK
  <2>2. sent + 1 \in 1..Len(batch)
      BY <1>1, <2>1
  <2>3. PICK e \in GeneratedEvent : e = batch[sent + 1]
      BY <2>1, <2>2, ElementOfSeq
  <2>4. PICK other : other = Append(stream, e)
      OBVIOUS
  <2>5. PICK n \in Nat : n = Len(stream)
      BY <2>1
  <2>6. Len(other) = n + 1 /\ other[n + 1] = e /\ \A k \in 1..n : other[k] = stream[k]
      BY <2>1, <2>3, <2>4, <2>5, AppendProperties
  <2>7. n + 1 <= Logged
      BY <1>1, <2>1, <2>5 DEF Logged
  <2>8. log[n + 1] = e
    <3>1. n + 1 \in 1..Logged /\ ~(n + 1 <= Len(stream))
        BY <1>3, <2>5, <2>7
    <3>2. Log[n + 1] = batch[n + 1 - Len(stream) + sent]
        BY <3>1 DEF Log
    <3>3. n + 1 - Len(stream) + sent = sent + 1
        BY <2>1, <2>5
    <3> QED BY <1>3, <2>3, <3>2, <3>3
  <2>9. \A k \in 1..n : log[k] = stream[k]
      BY <1>2, <1>3, <2>5, StreamOfLog DEF Agree
  <2>10. \A k \in 1..(n + 1) : k \in 1..n \/ k = n + 1
      OBVIOUS
  <2>11. Agree(log, other, Len(other))
      BY <2>6, <2>8, <2>9, <2>10 DEF Agree
  <2>12. Len(other) \in Nat /\ Len(log) \in Nat /\ Len(other) <= Len(log)
      BY <1>3, <2>6, <2>7
  <2>13. Labelled(other)
      BY <1>3, <2>11, <2>12, CutOffLabelled
  <2> QED BY <1>1, <1>5, <2>3, <2>4, <2>13 DEF LabelInv
<1> QED BY <1>1, <1>4, <1>5

\* Nothing has been made yet.
LEMMA InitLabels == ASSUME Init PROVE LabelInv
<1>1. stream = <<>> /\ batch = <<>> /\ sent = 0 /\ script = <<>> /\ due = <<>>
    BY DEF Init
<1>2. TypeOK
    BY InitInv DEF ProducerInv
<1>3. Log = stream
    BY <1>1, <1>2, LogFlushed
<1>4. Len(stream) = 0 /\ Len(script) = 0
    BY <1>1
<1>5. Labelled(stream)
    BY <1>4 DEF Labelled
<1>6. Continues(Log, script, due, orderSequence)
    BY <1>1, <1>4 DEF Continues, Fits
<1> QED BY <1>3, <1>5, <1>6 DEF LabelInv

\* The steps that make no event
LEMMA OtherLabels ==
    ASSUME ProducerInv, ProducerInv', LabelInv,
           \/ Refuse \/ EnsureGroupFails \/ Generate \/ GenerateReturns \/ UNCHANGED vars
           \/ LoopEnds("outOfOrder", config.outOfOrder, "invalid")
           \/ LoopEnds("invalid", config.invalid, "normal")
    PROVE  LabelInv'
<1>1. TypeOK' /\ UNCHANGED <<script, due, orderSequence, batch, sent, stream>>
    BY DEF ProducerInv, Refuse, EnsureGroupFails, Generate, GenerateReturns, LoopEnds, Fail,
           vars, generator
<1>2. Log' = Log
    BY <1>1, LogStays
<1>3. result' # "failed" => result # "failed"
  <2>1. CASE stage = "validate" \/ stage = "normal" \/ stage = "outOfOrder" \/ stage = "invalid"
      BY <2>1 DEF ProducerInv, Ended
  <2>2. CASE UNCHANGED vars
      BY <2>2 DEF vars
  <2> QED BY <2>1, <2>2 DEF Refuse, EnsureGroupFails, Generate, GenerateReturns, LoopEnds
<1> QED BY <1>1, <1>2, <1>3, LogKept

\* Publish
LEMMA PublishLabels ==
    ASSUME ProducerInv, ProducerInv', LabelInv, Publish PROVE LabelInv'
<1>1. /\ stage # "done" /\ sent < Len(batch) /\ stream' = Append(stream, batch[sent + 1])
      /\ sent' = sent + 1 /\ UNCHANGED <<script, due, orderSequence, batch, result>>
    BY DEF Publish, generator
<1>2. TypeOK /\ TypeOK' /\ result # "failed"
    BY <1>1 DEF ProducerInv, Ended
<1>3. Log' = Log
    BY <1>1, <1>2, LogPublished
<1> QED BY <1>1, <1>2, <1>3, LogKept

\* FlushEnds
LEMMA FlushLabels ==
    ASSUME ProducerInv, ProducerInv', LabelInv, FlushEnds PROVE LabelInv'
<1>1. /\ stage # "done" /\ sent = Len(batch) /\ batch' = <<>> /\ sent' = 0
      /\ UNCHANGED <<script, due, orderSequence, stream>>
    BY DEF FlushEnds, generator
<1>2. TypeOK /\ TypeOK' /\ result # "failed"
    BY <1>1 DEF ProducerInv, Ended
<1>3. Log' = Log
    BY <1>1, <1>2, LogEmptied
<1> QED BY <1>1, <1>2, <1>3, LogKept

\* Every step of the producer preserves the labels.
LEMMA StepLabels ==
    ASSUME ProducerInv, ProducerInv', LabelInv, [Next]_vars PROVE LabelInv'
<1>1. CASE \/ Refuse \/ EnsureGroupFails \/ Generate \/ GenerateReturns \/ UNCHANGED vars
           \/ LoopEnds("outOfOrder", config.outOfOrder, "invalid")
           \/ LoopEnds("invalid", config.invalid, "normal")
    BY <1>1, OtherLabels
<1>2. CASE generateOutOfOrder
    BY <1>2, OutOfOrderLabels
<1>3. CASE generateInvalid
    BY <1>3, InvalidLabels
<1>4. CASE generateNormal
    BY <1>4, NormalLabels
<1>5. CASE emitUnique
    BY <1>5, UniqueLabels
<1>6. CASE emitDuplicate
    BY <1>6, DuplicateLabels
<1>7. CASE Publish
    BY <1>7, PublishLabels
<1>8. CASE PublishFails
    BY <1>8, PublishFailsLabels
<1>9. CASE FlushEnds
    BY <1>9, FlushLabels
<1> QED BY <1>1, <1>2, <1>3, <1>4, <1>5, <1>6, <1>7, <1>8, <1>9 DEF Next

\* The producer's labels agree with the service's state machine for every
\* configuration, every choice of lifecycles and wherever a failed XADD cuts the
\* stream off: what it calls out of order is deferred, what it calls invalid is
\* rejected, a duplicate repeats an earlier event, and everything else is applied.
THEOREM ProducerLabelsAreTrue == Spec => []LabelsAreTrue
<1>1. Init => LabelInv
    BY InitLabels
<1>2. ProducerInv /\ ProducerInv' /\ LabelInv /\ [Next]_vars => LabelInv'
    BY StepLabels
<1>3. ProducerInv /\ LabelInv => LabelsAreTrue
    BY TrueLabels DEF ProducerInv, LabelInv
<1> QED BY <1>1, <1>2, <1>3, ProducerAlways, PTL DEF Spec

=============================================================================
