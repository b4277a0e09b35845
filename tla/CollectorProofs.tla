-------------------------- MODULE CollectorProofs --------------------------
(***************************************************************************)
(* The counters of GET /stats, for any finite number of recording          *)
(* goroutines, any number of requests and any number of events.            *)
(*                                                                         *)
(* processed equals its parts but for the recorders that are between their *)
(* two additions (Balanced).  A snapshot loads processed first, so what it *)
(* has not loaded yet can only make the parts larger (SnapshotInv).  That  *)
(* no addition is lost is inductive with one fact more: a call adds to a   *)
(* counter once, so that an addition done leaves nothing of it (Single).   *)
(***************************************************************************)
EXTENDS Collector, FiniteSetTheorems, SequenceTheorems, TLAPS

Ops == [counter : Counters, by : Nat]

Parts == {"applied", "duplicatesSkipped", "duplicateStatus", "outOfOrder",
          "invalidTransitions"}

\* In the additions s, that to processed and that to its part follow each other.
Paired(s) ==
    \A n \in 1..Len(s) :
        /\ s[n].counter = "processed" =>
              s[n].by = 1 /\ n + 1 \in 1..Len(s) /\ s[n + 1].counter \in Parts
        /\ s[n].counter \in Parts => s[n].by = 1
        /\ n # 1 /\ s[n].counter \in Parts => s[n - 1].counter = "processed"

\* s adds to no counter twice.
Single(s) == \A m, n \in DOMAIN s : s[m].counter = s[n].counter => m = n

\* The next addition is that to a part: processed has been added to.
Between(s) == s # <<>> /\ s[1].counter \in Parts

InFlight == {g \in Recorders : Between(adds[g])}

Balanced == counter["processed"] = SumOfParts(counter) + Cardinality(InFlight)

\* Counter f, the n-th to be loaded, as a request has seen it or will see it at least.
Seen(r, f, n) == IF loads[r] >= n THEN snapshot[r][f] ELSE counter[f]

SeenParts(r) == Seen(r, "applied", 2) + Seen(r, "duplicatesSkipped", 3)
                + Seen(r, "duplicateStatus", 4) + Seen(r, "outOfOrder", 5)
                + Seen(r, "invalidTransitions", 6)

SnapshotInv(r) ==
    /\ \A f \in Counters : snapshot[r][f] <= counter[f]
    /\ loads[r] >= 1 =>
          snapshot[r]["processed"] <= SeenParts(r) + Cardinality(Recorders)

CollectorInv ==
    /\ TypeOK
    /\ adds \in [Recorders -> Seq(Ops)]
    /\ \A g \in Recorders : Paired(adds[g]) /\ Single(adds[g])
    /\ Balanced
    /\ NoAdditionLost /\ \A f \in Counters : IsFiniteSet(Outstanding(f))
    /\ \A r \in Readers : SnapshotInv(r)

-----------------------------------------------------------------------------
(* Sequences of additions                                                  *)

\* The counters by name.
LEMMA CounterNames ==
    /\ Counters = {"processed", "applied", "duplicatesSkipped", "duplicateStatus",
                   "outOfOrder", "invalidTransitions", "deadLetters", "failures",
                   "simulatedFailures", "recoveredMessages", "pendingReplayed"}
    /\ Parts \subseteq Counters /\ "processed" \notin Parts
    /\ Len(SnapshotOrder) = 11
<1>1. Counters = {"processed", "applied", "duplicatesSkipped", "duplicateStatus",
                  "outOfOrder", "invalidTransitions", "deadLetters", "failures",
                  "simulatedFailures", "recoveredMessages", "pendingReplayed"}
    BY DEF Counters, SnapshotOrder
<1>2. Len(SnapshotOrder) = 11
    BY DEF SnapshotOrder
<1> QED BY <1>1, <1>2 DEF Parts

\* The order of the loads, by position.
LEMMA LoadOrder ==
    \A n \in 0..10 :
        /\ SnapshotOrder[n + 1] \in Counters
        /\ SnapshotOrder[n + 1] = "processed" <=> n = 0
        /\ SnapshotOrder[n + 1] = "applied" <=> n = 1
        /\ SnapshotOrder[n + 1] = "duplicatesSkipped" <=> n = 2
        /\ SnapshotOrder[n + 1] = "duplicateStatus" <=> n = 3
        /\ SnapshotOrder[n + 1] = "outOfOrder" <=> n = 4
        /\ SnapshotOrder[n + 1] = "invalidTransitions" <=> n = 5
<1>1. \A n \in 0..10 : SnapshotOrder[n + 1] \in Counters
  <2>1. \A n \in 0..10 : n + 1 \in DOMAIN SnapshotOrder
      BY DEF SnapshotOrder
  <2> QED BY <2>1 DEF Counters
<1> QED BY <1>1 DEF SnapshotOrder

\* A sequence with one more element at its end.
LEMMA Snoc ==
    ASSUME NEW S, NEW s \in Seq(S), NEW e \in S, NEW t \in Seq(S),
           Len(t) = Len(s) + 1, \A i \in 1..Len(s) : t[i] = s[i], t[Len(s) + 1] = e
    PROVE  s \o <<e>> = t
<1>1. /\ Append(s, e) \in Seq(S) /\ Len(Append(s, e)) = Len(s) + 1
      /\ \A i \in 1..Len(s) : Append(s, e)[i] = s[i]
      /\ Append(s, e)[Len(s) + 1] = e
      /\ Append(s, e) = s \o <<e>> /\ Len(s) \in Nat
    BY AppendProperties, AppendIsConcat, LenProperties
<1> DEFINE u == Append(s, e)
<1> HIDE DEF u
<1>2. ASSUME NEW i \in 1..Len(u) PROVE u[i] = t[i]
  <2>1. i \in 1..Len(s) \/ i = Len(s) + 1
      BY <1>1 DEF u
  <2> QED BY <1>1, <2>1 DEF u
<1>3. u = t
    BY <1>1, <1>2, SeqEqual DEF u
<1> QED BY <1>1, <1>3 DEF u

\* The sequences RecordResult puts together.
LEMMA Tuples ==
    ASSUME NEW S, NEW a \in S, NEW b \in S, NEW c \in S
    PROVE  /\ <<a>> \o <<b>> = <<a, b>>
           /\ <<a, b>> \o <<c>> = <<a, b, c>>
           /\ <<>> \o <<a>> = <<a>>
           /\ <<a, b>> \o <<>> = <<a, b>>
           /\ <<a, b, c>> \o <<>> = <<a, b, c>>
<1>1. /\ <<a>> \in Seq(S) /\ <<a, b>> \in Seq(S)
      /\ Len(<<a, b>>) = Len(<<a>>) + 1
      /\ \A i \in 1..Len(<<a>>) : <<a, b>>[i] = <<a>>[i]
      /\ <<a, b>>[Len(<<a>>) + 1] = b
    OBVIOUS
<1>2. /\ <<a, b, c>> \in Seq(S)
      /\ Len(<<a, b, c>>) = Len(<<a, b>>) + 1
      /\ \A i \in 1..Len(<<a, b>>) : <<a, b, c>>[i] = <<a, b>>[i]
      /\ <<a, b, c>>[Len(<<a, b>>) + 1] = c
    OBVIOUS
<1>3. <<a>> \o <<b>> = <<a, b>>
    BY <1>1, Snoc
<1>4. <<a, b>> \o <<c>> = <<a, b, c>>
    BY <1>1, <1>2, Snoc
<1> QED BY <1>1, <1>2, <1>3, <1>4, ConcatEmptySeq

\* A call that begins with s is well formed.
Opens(s) == s \in Seq(Ops) /\ Paired(s) /\ Single(s) /\ ~Between(s)

\* The calls that make one addition.
LEMMA OneOpens ==
    ASSUME NEW f \in Counters, f \notin Parts, f # "processed"
    PROVE  Opens(One(f))
<1> DEFINE a == [counter |-> f, by |-> 1]
<1>1. a \in Ops /\ a.counter = f
    BY DEF Ops
<1> HIDE DEF a
<1>2. <<a>> \in Seq(Ops) /\ Len(<<a>>) = 1 /\ <<a>>[1] = a
    BY <1>1
<1>3. Opens(<<a>>)
    BY <1>1, <1>2 DEF Opens, Paired, Single, Between
<1> QED BY <1>3 DEF a, One

\* RecordResult.
LEMMA ResultOpens ==
    ASSUME NEW class \in DOMAIN ClassCounter, NEW n \in Nat, n > 0 => class = "APPLIED"
    PROVE  Opens((IF n > 0 THEN <<[counter |-> "pendingReplayed", by |-> n]>> ELSE <<>>)
                 \o One("processed") \o One(ClassCounter[class])
                 \o (IF class = "INVALID_TRANSITION" THEN One("deadLetters") ELSE <<>>))
<1> DEFINE r == [counter |-> "pendingReplayed", by |-> n]
           p == [counter |-> "processed", by |-> 1]
           c == [counter |-> ClassCounter[class], by |-> 1]
           d == [counter |-> "deadLetters", by |-> 1]
<1>1. ClassCounter[class] \in Parts
    BY DEF ClassCounter, Parts
<1>2. /\ r \in Ops /\ p \in Ops /\ c \in Ops /\ d \in Ops
      /\ r.counter = "pendingReplayed" /\ p.counter = "processed" /\ d.counter = "deadLetters"
      /\ c.counter \in Parts /\ c.by = 1 /\ p.by = 1
    BY <1>1, CounterNames DEF Ops
<1>3. /\ One("processed") = <<p>> /\ One(ClassCounter[class]) = <<c>>
      /\ One("deadLetters") = <<d>>
    BY DEF One
<1> HIDE DEF r, p, c, d
<1>4. /\ <<p, c>> \in Seq(Ops) /\ <<r, p, c>> \in Seq(Ops) /\ <<p, c, d>> \in Seq(Ops)
    BY <1>2
<1>5. Opens(<<p, c>>)
    BY <1>2, <1>4 DEF Opens, Paired, Single, Between, Parts
<1>6. Opens(<<r, p, c>>)
    BY <1>2, <1>4 DEF Opens, Paired, Single, Between, Parts
<1>7. Opens(<<p, c, d>>)
    BY <1>2, <1>4 DEF Opens, Paired, Single, Between, Parts
<1>8. CASE n > 0
  <2>1. <<r>> \o <<p>> \o <<c>> \o <<>> = <<r, p, c>>
      BY <1>2, Tuples
  <2>2. class # "INVALID_TRANSITION"
      BY <1>8
  <2> QED BY <1>3, <1>6, <1>8, <2>1, <2>2 DEF r
<1>9. CASE ~(n > 0) /\ class = "INVALID_TRANSITION"
  <2>1. <<>> \o <<p>> \o <<c>> \o <<d>> = <<p, c, d>>
      BY <1>2, Tuples
  <2> QED BY <1>3, <1>7, <1>9, <2>1
<1>10. CASE ~(n > 0) /\ class # "INVALID_TRANSITION"
  <2>1. <<>> \o <<p>> \o <<c>> \o <<>> = <<p, c>>
      BY <1>2, Tuples
  <2> QED BY <1>3, <1>5, <1>10, <2>1
<1> QED BY <1>8, <1>9, <1>10

\* What is left of a call after an addition.
LEMMA TailPaired ==
    ASSUME NEW s \in Seq(Ops), Paired(s), s # <<>>
    PROVE  /\ Tail(s) \in Seq(Ops) /\ Paired(Tail(s))
           /\ Head(s) = s[1] /\ s[1] \in Ops
           /\ s[1].counter = "processed" => s[1].by = 1 /\ Between(Tail(s))
           /\ s[1].counter \in Parts => s[1].by = 1
           /\ s[1].counter # "processed" => ~Between(Tail(s))
<1> DEFINE t == Tail(s)
<1>1. /\ Len(s) \in Nat \ {0} /\ t \in Seq(Ops) /\ Len(t) = Len(s) - 1
      /\ \A i \in 1..Len(t) : t[i] = s[i + 1]
      /\ Head(s) = s[1] /\ s[1] \in Ops
    BY EmptySeq, HeadTailProperties
<1>2. t = <<>> \/ Len(t) # 0
    BY <1>1, EmptySeq
<1>3. Len(t) = 0 => t = <<>>
    BY <1>2
<1>4. t = <<>> => Len(t) = 0
    BY EmptySeq
<1> HIDE DEF t
<1>5. Paired(t)
  <2>1. ASSUME NEW n \in 1..Len(t)
        PROVE  /\ t[n].counter = "processed" =>
                     t[n].by = 1 /\ n + 1 \in 1..Len(t) /\ t[n + 1].counter \in Parts
               /\ t[n].counter \in Parts => t[n].by = 1
               /\ n # 1 /\ t[n].counter \in Parts => t[n - 1].counter = "processed"
    <3>1. n + 1 \in 1..Len(s) /\ t[n] = s[n + 1]
        BY <1>1
    <3>2. /\ s[n + 1].counter = "processed" =>
               s[n + 1].by = 1 /\ n + 2 \in 1..Len(s) /\ s[n + 2].counter \in Parts
          /\ s[n + 1].counter \in Parts => s[n + 1].by = 1
          /\ s[n + 1].counter \in Parts => s[n].counter = "processed"
        BY <1>1, <3>1 DEF Paired
    <3>3. n + 2 \in 1..Len(s) => n + 1 \in 1..Len(t) /\ t[n + 1] = s[n + 2]
        BY <1>1
    <3>4. n # 1 => t[n - 1] = s[n]
        BY <1>1
    <3> QED BY <3>1, <3>2, <3>3, <3>4
  <2> QED BY <2>1 DEF Paired
<1>6. 1 \in 1..Len(s)
    BY <1>1
<1>7. s[1].counter = "processed" => s[1].by = 1 /\ Between(t)
  <2>1. ASSUME s[1].counter = "processed" PROVE s[1].by = 1 /\ Between(t)
    <3>1. s[1].by = 1 /\ 2 \in 1..Len(s) /\ s[2].counter \in Parts
        BY <1>6, <2>1 DEF Paired
    <3>2. 1 \in 1..Len(t) /\ t[1] = s[2]
        BY <1>1, <3>1
    <3> QED BY <1>4, <3>1, <3>2 DEF Between
  <2> QED BY <2>1
<1>8. s[1].counter # "processed" => ~Between(t)
  <2>1. ASSUME s[1].counter # "processed", Between(t) PROVE FALSE
    <3>1. 1 \in 1..Len(t) /\ t[1] = s[2] /\ 2 \in 1..Len(s)
        BY <1>1, <1>3, <2>1 DEF Between
    <3> QED BY <2>1, <3>1 DEF Between, Paired
  <2> QED BY <2>1
<1>9. s[1].counter \in Parts => s[1].by = 1
    BY <1>6 DEF Paired
<1> QED BY <1>1, <1>5, <1>7, <1>8, <1>9 DEF t

\* A call adds to a counter what its one addition to it says.
LEMMA AmountOf ==
    ASSUME NEW s, Single(s)
    PROVE  /\ \A n \in DOMAIN s : Amount(s, s[n].counter) = s[n].by
           /\ \A f : (\A n \in DOMAIN s : s[n].counter # f) => Amount(s, f) = 0
<1>1. ASSUME NEW n \in DOMAIN s PROVE Amount(s, s[n].counter) = s[n].by
  <2>1. PICK f : f = s[n].counter
      OBVIOUS
  <2>2. PICK m : m = CHOOSE k \in DOMAIN s : s[k].counter = f
      OBVIOUS
  <2>3. m \in DOMAIN s /\ s[m].counter = f
      BY <1>1, <2>1, <2>2
  <2>4. m = n
      BY <1>1, <2>1, <2>3 DEF Single
  <2>5. Amount(s, f) = s[m].by
      BY <1>1, <2>1, <2>2 DEF Amount
  <2> QED BY <2>1, <2>4, <2>5
<1>2. ASSUME NEW f, \A n \in DOMAIN s : s[n].counter # f PROVE Amount(s, f) = 0
    BY <1>2 DEF Amount
<1> QED BY <1>1, <1>2

\* An amount is a natural number.
LEMMA AmountType ==
    ASSUME NEW s \in Seq(Ops), Single(s), NEW f
    PROVE  Amount(s, f) \in Nat
<1>1. CASE \E n \in DOMAIN s : s[n].counter = f
  <2>1. PICK n \in DOMAIN s : s[n].counter = f
      BY <1>1
  <2>2. Amount(s, f) = s[n].by
      BY <2>1, AmountOf
  <2>3. s[n] \in Ops
      BY LenProperties, ElementOfSeq
  <2> QED BY <2>2, <2>3 DEF Ops
<1>2. CASE ~\E n \in DOMAIN s : s[n].counter = f
    BY <1>2, AmountOf
<1> QED BY <1>1, <1>2

\* An addition done leaves nothing to add to its counter and the others as they were.
LEMMA TailAmount ==
    ASSUME NEW s \in Seq(Ops), Single(s), s # <<>>
    PROVE  /\ Single(Tail(s))
           /\ Amount(s, s[1].counter) = s[1].by
           /\ Amount(Tail(s), s[1].counter) = 0
           /\ \A f : f # s[1].counter => Amount(Tail(s), f) = Amount(s, f)
<1> DEFINE t == Tail(s)
<1>1. /\ Len(s) \in Nat \ {0} /\ t \in Seq(Ops) /\ Len(t) = Len(s) - 1
      /\ \A i \in 1..Len(t) : t[i] = s[i + 1]
    BY EmptySeq, HeadTailProperties
<1>2. DOMAIN s = 1..Len(s) /\ DOMAIN t = 1..Len(t)
    BY <1>1, LenProperties
<1> HIDE DEF t
<1>3. \A i \in DOMAIN t : i + 1 \in DOMAIN s /\ i + 1 # 1 /\ t[i] = s[i + 1]
    BY <1>1, <1>2
<1>4. 1 \in DOMAIN s
    BY <1>1, <1>2
<1>5. Single(t)
  <2>1. ASSUME NEW m \in DOMAIN t, NEW n \in DOMAIN t, t[m].counter = t[n].counter
        PROVE  m = n
    <3>1. m + 1 = n + 1
        BY <1>3, <2>1 DEF Single
    <3>2. m \in Int /\ n \in Int
        BY <1>1, <1>2
    <3> QED BY <3>1, <3>2
  <2> QED BY <2>1 DEF Single
<1>6. Amount(s, s[1].counter) = s[1].by
    BY <1>4, AmountOf
<1>7. Amount(t, s[1].counter) = 0
  <2>1. \A n \in DOMAIN t : t[n].counter # s[1].counter
      BY <1>3, <1>4 DEF Single
  <2> QED BY <1>5, <2>1, AmountOf
<1>8. ASSUME NEW f, f # s[1].counter PROVE Amount(t, f) = Amount(s, f)
  <2>1. CASE \E n \in DOMAIN t : t[n].counter = f
    <3>1. PICK n \in DOMAIN t : t[n].counter = f
        BY <2>1
    <3>2. n + 1 \in DOMAIN s /\ s[n + 1].counter = f /\ s[n + 1].by = t[n].by
        BY <1>3, <3>1
    <3> QED BY <1>5, <3>1, <3>2, AmountOf
  <2>2. CASE ~\E n \in DOMAIN t : t[n].counter = f
    <3>1. \A n \in DOMAIN s : s[n].counter # f
      <4>1. ASSUME NEW n \in DOMAIN s, n # 1, s[n].counter = f PROVE FALSE
        <5>1. n - 1 \in DOMAIN t /\ t[n - 1] = s[n]
            BY <1>1, <1>2, <4>1
        <5> QED BY <2>2, <4>1, <5>1
      <4> QED BY <1>8, <4>1
    <3> QED BY <1>5, <2>2, <3>1, AmountOf
  <2> QED BY <2>1, <2>2
<1> QED BY <1>5, <1>6, <1>7, <1>8 DEF t

\* n units of one recorder
LEMMA CountUnits ==
    ASSUME NEW g, NEW n \in Nat
    PROVE  IsFiniteSet({g} \X (1..n)) /\ Cardinality({g} \X (1..n)) = n
<1>1. IsFiniteSet(1..n) /\ Cardinality(1..n) = n
    BY FS_Interval
<1>2. IsFiniteSet({g}) /\ Cardinality({g}) = 1
    BY FS_Singleton
<1>3. IsFiniteSet({g} \X (1..n)) /\ Cardinality({g} \X (1..n)) = Cardinality({g}) * Cardinality(1..n)
    BY <1>1, <1>2, FS_Product
<1> QED BY <1>1, <1>2, <1>3

\* The units of all recorders, with amounts a
Units(a) == UNION {{h} \X (1..a[h]) : h \in Recorders}

\* They are finitely many, and one recorder's n units beside none of his make n more.
LEMMA UnitsChange ==
    ASSUME NEW a \in [Recorders -> Nat], NEW b \in [Recorders -> Nat], NEW g \in Recorders,
           IsFiniteSet(Units(a)), a[g] = 0, \A h \in Recorders \ {g} : b[h] = a[h]
    PROVE  IsFiniteSet(Units(b)) /\ Cardinality(Units(b)) = Cardinality(Units(a)) + b[g]
<1>1. PICK n, N : n = b[g] /\ n \in Nat /\ N = {g} \X (1..n)
    OBVIOUS
<1>2. IsFiniteSet(N) /\ Cardinality(N) = n
    BY <1>1, CountUnits
<1>3. Units(b) = Units(a) \cup N
  <2>1. \A x : x \in Units(b) => x \in Units(a) \/ x \in N
      BY <1>1 DEF Units
  <2>2. \A x : x \in N => x \in Units(b)
      BY <1>1 DEF Units
  <2>3. \A x : x \in Units(a) => x \in Units(b)
    <3>1. ASSUME NEW h \in Recorders, NEW x, x \in {h} \X (1..a[h]) PROVE x \in Units(b)
      <4>1. h # g
          BY <3>1
      <4> QED BY <3>1, <4>1 DEF Units
    <3> QED BY <3>1 DEF Units
  <2> QED BY <2>1, <2>2, <2>3
<1>4. Units(a) \cap N = {}
  <2>1. ASSUME NEW h \in Recorders, NEW x, x \in {h} \X (1..a[h]), x \in N PROVE FALSE
    <3>1. h = g
        BY <1>1, <2>1
    <3> QED BY <2>1, <3>1
  <2> QED BY <2>1 DEF Units
<1>5. Cardinality(Units(a)) \in Nat
    BY FS_CardinalityType
<1>6. /\ IsFiniteSet(Units(a) \cup N)
      /\ Cardinality(Units(a) \cup N) = Cardinality(Units(a)) + Cardinality(N)
                                           - Cardinality(Units(a) \cap N)
    BY <1>2, FS_Union
<1>7. Cardinality(Units(a) \cap N) = 0
    BY <1>4, FS_EmptySet
<1> QED BY <1>1, <1>2, <1>3, <1>5, <1>6, <1>7

\* When a recorder has none left there are fewer by what he had.
LEMMA UnitsDone ==
    ASSUME NEW a \in [Recorders -> Nat], NEW b \in [Recorders -> Nat], NEW g \in Recorders,
           IsFiniteSet(Units(a)), b[g] = 0, \A h \in Recorders \ {g} : b[h] = a[h]
    PROVE  IsFiniteSet(Units(b)) /\ Cardinality(Units(a)) = Cardinality(Units(b)) + a[g]
<1>1. Units(b) \subseteq Units(a)
  <2>1. ASSUME NEW h \in Recorders, NEW x, x \in {h} \X (1..b[h]) PROVE x \in Units(a)
    <3>1. h # g
        BY <2>1
    <3> QED BY <2>1, <3>1 DEF Units
  <2> QED BY <2>1 DEF Units
<1>2. IsFiniteSet(Units(b))
    BY <1>1, FS_Subset
<1> QED BY <1>2, UnitsChange

\* The amounts outstanding
Amounts(f) == [g \in Recorders |-> Amount(adds[g], f)]

\* What is outstanding, in terms of them
LEMMA OutstandingUnits == ASSUME NEW f PROVE Outstanding(f) = Units(Amounts(f))
<1>1. \A g \in Recorders : Amounts(f)[g] = Amount(adds[g], f)
    BY DEF Amounts
<1> QED BY <1>1 DEF Outstanding, Units

-----------------------------------------------------------------------------
(* The invariant                                                           *)

\* The number of calls between their two additions.
LEMMA InFlightFinite ==
    /\ IsFiniteSet(InFlight) /\ Cardinality(InFlight) \in Nat
    /\ Cardinality(InFlight) <= Cardinality(Recorders) /\ Cardinality(Recorders) \in Nat
<1>1. InFlight \in SUBSET Recorders
    BY DEF InFlight
<1> QED BY <1>1, RecorderAssumption, FS_Subset, FS_CardinalityType

\* All counters are 0 and nobody is at work.
LEMMA InitCollector == Init => CollectorInv
<1> SUFFICES ASSUME Init PROVE CollectorInv
    OBVIOUS
<1>1. \A f \in Counters : counter[f] = 0
    BY DEF Init, Zero
<1>2. counter \in [Counters -> Nat] /\ snapshot \in [Readers -> [Counters -> Nat]]
    BY DEF Init, Zero
<1>3. <<>> \in Seq(Ops) /\ Len(<<>>) = 0 /\ DOMAIN <<>> = {}
    BY EmptySeq
<1>4. TypeOK
    BY <1>2, <1>3, CounterNames, BoundAssumption DEF Init, TypeOK, Zero
<1>5. /\ adds \in [Recorders -> Seq(Ops)]
      /\ \A g \in Recorders : adds[g] = <<>> /\ Paired(adds[g]) /\ Single(adds[g])
    BY <1>3 DEF Init, Paired, Single
<1>6. Balanced
  <2>1. InFlight = {}
      BY DEF Init, InFlight, Between
  <2> QED BY <1>1, <2>1, CounterNames, FS_EmptySet DEF Balanced, SumOfParts, Parts
<1>7. \A r \in Readers : SnapshotInv(r)
    BY DEF Init, Zero, SnapshotInv
<1>8. ASSUME NEW f \in Counters PROVE Outstanding(f) = {} /\ recorded[f] = 0
  <2>1. \A g \in Recorders : Amount(adds[g], f) = 0
      BY <1>3, <1>5 DEF Amount
  <2>2. ASSUME NEW g \in Recorders PROVE {g} \X (1..Amount(adds[g], f)) = {}
    <3>1. 1..Amount(adds[g], f) = {}
        BY <2>1, <2>2
    <3> QED BY <3>1
  <2> QED BY <1>8, <2>2 DEF Init, Zero, Outstanding
<1>9. NoAdditionLost /\ \A f \in Counters : IsFiniteSet(Outstanding(f))
    BY <1>1, <1>8, FS_EmptySet DEF NoAdditionLost
<1> QED BY <1>4, <1>5, <1>6, <1>7, <1>9 DEF CollectorInv

\* TypeOK follows from the sequences of additions.
LEMMA AddsTyped ==
    ASSUME NEW s \in Seq(Ops)
    PROVE  \A n \in DOMAIN s : s[n].counter \in Counters /\ s[n].by \in Nat
<1>1. \A n \in DOMAIN s : s[n] \in Ops
    BY LenProperties, ElementOfSeq
<1> QED BY <1>1 DEF Ops

\* The amounts outstanding are natural numbers.
LEMMA AmountsType ==
    ASSUME CollectorInv, NEW f
    PROVE  Amounts(f) \in [Recorders -> Nat]
<1>1. \A g \in Recorders : Amount(adds[g], f) \in Nat
    BY AmountType DEF CollectorInv
<1> QED BY <1>1 DEF Amounts

\* A call that sets out to add is outstanding with all of it.
LEMMA CallLosesNothing ==
    ASSUME CollectorInv, NEW g \in Recorders, NEW s, Opens(s), Call(g, s), NEW f \in Counters
    PROVE  /\ IsFiniteSet(Outstanding(f)')
           /\ counter'[f] + Cardinality(Outstanding(f)') = recorded'[f]
           /\ recorded'[f] \in Nat
<1>1. PICK a, b, n : a = Amounts(f) /\ b = Amounts(f)' /\ n = Amount(s, f)
    OBVIOUS
<1>2. /\ a \in [Recorders -> Nat] /\ n \in Nat /\ IsFiniteSet(Units(a))
      /\ counter[f] \in Nat /\ recorded[f] \in Nat
      /\ counter[f] + Cardinality(Units(a)) = recorded[f]
  <2>1. IsFiniteSet(Outstanding(f)) /\ counter[f] + Cardinality(Outstanding(f)) = recorded[f]
      BY DEF CollectorInv, NoAdditionLost
  <2>2. n \in Nat
      BY <1>1, AmountType DEF Opens
  <2> QED BY <1>1, <2>1, <2>2, AmountsType, OutstandingUnits DEF CollectorInv, TypeOK
<1>3. /\ a[g] = 0 /\ b = [a EXCEPT ![g] = n]
      /\ counter'[f] = counter[f] /\ recorded'[f] = recorded[f] + n
  <2>1. adds \in [Recorders -> Seq(Ops)] /\ adds[g] = <<>> /\ adds' = [adds EXCEPT ![g] = s]
      BY DEF CollectorInv, Call
  <2>2. Amount(<<>>, f) = 0
      BY DEF Amount
  <2>3. a[g] = 0
      BY <1>1, <2>1, <2>2 DEF Amounts
  <2>4. \A h \in Recorders : b[h] = IF h = g THEN n ELSE a[h]
      BY <1>1, <2>1 DEF Amounts
  <2>5. b = [h \in Recorders |-> b[h]]
      BY <1>1 DEF Amounts
  <2> QED BY <1>1, <1>2, <2>3, <2>4, <2>5 DEF Call
<1>4. b \in [Recorders -> Nat] /\ b[g] = n /\ \A h \in Recorders \ {g} : b[h] = a[h]
    BY <1>2, <1>3
<1>5. IsFiniteSet(Units(b)) /\ Cardinality(Units(b)) = Cardinality(Units(a)) + n
    BY <1>2, <1>3, <1>4, UnitsChange
<1>6. Outstanding(f)' = Units(b)
  <2>1. (Outstanding(f) = Units(Amounts(f)))'
      BY OutstandingUnits, PTL
  <2> QED BY <1>1, <2>1 DEF Units
<1>7. Cardinality(Units(a)) \in Nat
    BY <1>2, FS_CardinalityType
<1> QED BY <1>2, <1>3, <1>5, <1>6, <1>7

\* What an addition takes from what is outstanding it puts on its counter.
LEMMA AddLosesNothing ==
    ASSUME CollectorInv, NEW g \in Recorders, Add(g), NEW f \in Counters
    PROVE  /\ IsFiniteSet(Outstanding(f)')
           /\ counter'[f] + Cardinality(Outstanding(f)') = recorded'[f]
<1>1. PICK a, b, s : a = Amounts(f) /\ b = Amounts(f)' /\ s = adds[g]
    OBVIOUS
<1>2. /\ a \in [Recorders -> Nat] /\ IsFiniteSet(Units(a)) /\ counter \in [Counters -> Nat]
      /\ counter[f] + Cardinality(Units(a)) = recorded[f]
  <2>1. IsFiniteSet(Outstanding(f)) /\ counter[f] + Cardinality(Outstanding(f)) = recorded[f]
      BY DEF CollectorInv, NoAdditionLost
  <2> QED BY <1>1, <2>1, AmountsType, OutstandingUnits DEF CollectorInv, TypeOK
<1>3. /\ s \in Seq(Ops) /\ Paired(s) /\ Single(s) /\ s # <<>>
      /\ adds \in [Recorders -> Seq(Ops)] /\ adds' = [adds EXCEPT ![g] = Tail(@)]
      /\ counter' = [counter EXCEPT ![Head(s).counter] = @ + Head(s).by]
      /\ UNCHANGED recorded
    BY <1>1 DEF CollectorInv, Add
<1>4. Head(s) = s[1] /\ s[1] \in Ops
    BY <1>3, TailPaired
<1>5. PICK x, k : x = s[1].counter /\ k = s[1].by
    OBVIOUS
<1>6. x \in Counters /\ k \in Nat /\ counter' = [counter EXCEPT ![x] = @ + k]
    BY <1>3, <1>4, <1>5 DEF Ops
<1>7. /\ Amount(s, x) = k /\ Amount(Tail(s), x) = 0
      /\ f # x => Amount(Tail(s), f) = Amount(s, f)
    BY <1>3, <1>5, TailAmount
<1>8. /\ a[g] = Amount(s, f) /\ b = [h \in Recorders |-> b[h]] /\ b[g] = Amount(Tail(s), f)
      /\ \A h \in Recorders \ {g} : b[h] = a[h]
    BY <1>1, <1>3 DEF Amounts
<1>9. Outstanding(f)' = Units(b)
  <2>1. (Outstanding(f) = Units(Amounts(f)))'
      BY OutstandingUnits, PTL
  <2> QED BY <1>1, <2>1 DEF Units
<1>10. CASE f = x
  <2>1. a[g] = k /\ b[g] = 0
      BY <1>7, <1>8, <1>10
  <2>2. b \in [Recorders -> Nat]
    <3>1. \A h \in Recorders : b[h] \in Nat
        BY <1>2, <1>8, <2>1
    <3> QED BY <1>8, <3>1
  <2>3. IsFiniteSet(Units(b)) /\ Cardinality(Units(a)) = Cardinality(Units(b)) + k
      BY <1>2, <1>8, <2>1, <2>2, UnitsDone
  <2>4. Cardinality(Units(b)) \in Nat
      BY <2>3, FS_CardinalityType
  <2>5. counter'[f] = counter[f] + k /\ counter[f] \in Nat
      BY <1>2, <1>6, <1>10
  <2> QED BY <1>2, <1>3, <1>6, <1>9, <2>3, <2>4, <2>5
<1>11. CASE f # x
  <2>1. \A h \in Recorders : b[h] = a[h]
      BY <1>7, <1>8, <1>11
  <2>2. Units(b) = Units(a)
      BY <2>1 DEF Units
  <2>3. counter'[f] = counter[f]
      BY <1>2, <1>6, <1>11
  <2> QED BY <1>2, <1>3, <1>9, <2>2, <2>3
<1> QED BY <1>10, <1>11

\* Entering a Record function changes no counter.
LEMMA CallCollector ==
    ASSUME CollectorInv, NEW g \in Recorders, NEW s, Opens(s), Call(g, s)
    PROVE  CollectorInv'
<1>1. /\ adds \in [Recorders -> Seq(Ops)] /\ adds[g] = <<>>
      /\ adds' = [adds EXCEPT ![g] = s] /\ s \in Seq(Ops)
      /\ UNCHANGED <<counter, loads, snapshot>>
    BY DEF CollectorInv, Call, Opens
<1>2. adds' \in [Recorders -> Seq(Ops)]
    BY <1>1
<1>3. \A h \in Recorders : adds'[h] = IF h = g THEN s ELSE adds[h]
    BY <1>1
<1>4. \A h \in Recorders : Paired(adds'[h]) /\ Single(adds'[h])
    BY <1>3 DEF CollectorInv, Opens
<1>5. InFlight' = InFlight
  <2>1. \A h \in Recorders : Between(adds'[h]) <=> Between(adds[h])
      BY <1>1, <1>3 DEF Opens, Between
  <2> QED BY <2>1 DEF InFlight
<1>6. Balanced'
    BY <1>1, <1>5 DEF CollectorInv, Balanced
<1>7. \A r \in Readers : SnapshotInv(r)'
    BY <1>1 DEF CollectorInv, SnapshotInv, SeenParts, Seen
<1>8. TypeOK'
  <2>1. \A h \in Recorders : \A n \in DOMAIN adds'[h] :
            adds'[h][n].counter \in Counters /\ adds'[h][n].by \in Nat
      BY <1>2, AddsTyped
  <2>2. recorded' \in [Counters -> Nat]
    <3>1. recorded' = [f \in Counters |-> recorded'[f]]
        BY DEF Call
    <3> QED BY <3>1, CallLosesNothing
  <2> QED BY <1>1, <2>1, <2>2, BoundAssumption DEF CollectorInv, TypeOK, Call
<1>9. (NoAdditionLost /\ \A f \in Counters : IsFiniteSet(Outstanding(f)))'
    BY CallLosesNothing DEF NoAdditionLost
<1> QED BY <1>2, <1>4, <1>6, <1>7, <1>8, <1>9 DEF CollectorInv

\* The counters b are a after an addition of k to f, seen by the balance.
Grown(a, b, f, k) ==
    /\ b \in [Counters -> Nat]
    /\ \A x \in Counters : b[x] >= a[x]
    /\ b["processed"] = IF f = "processed" THEN a["processed"] + k ELSE a["processed"]
    /\ SumOfParts(a) \in Nat
    /\ SumOfParts(b) = IF f \in Parts THEN SumOfParts(a) + k ELSE SumOfParts(a)

\* How an addition to counter f moves the two sides of the balance.
LEMMA SumAfterAdd ==
    ASSUME NEW a \in [Counters -> Nat], NEW f \in Counters, NEW k \in Nat,
           NEW b, b = [a EXCEPT ![f] = @ + k]
    PROVE  Grown(a, b, f, k)
<1>1. \A x \in Counters : a[x] \in Nat /\ b[x] = IF x = f THEN a[x] + k ELSE a[x]
    OBVIOUS
<1>2. b \in [Counters -> Nat] /\ \A x \in Counters : b[x] >= a[x]
    BY <1>1
<1>3. b["processed"] = IF f = "processed" THEN a["processed"] + k ELSE a["processed"]
    BY <1>1, CounterNames
<1>4. /\ a["applied"] \in Nat /\ a["duplicatesSkipped"] \in Nat /\ a["duplicateStatus"] \in Nat
      /\ a["outOfOrder"] \in Nat /\ a["invalidTransitions"] \in Nat
      /\ b["applied"] = IF f = "applied" THEN a["applied"] + k ELSE a["applied"]
      /\ b["duplicatesSkipped"] = IF f = "duplicatesSkipped"
                                  THEN a["duplicatesSkipped"] + k ELSE a["duplicatesSkipped"]
      /\ b["duplicateStatus"] = IF f = "duplicateStatus"
                                THEN a["duplicateStatus"] + k ELSE a["duplicateStatus"]
      /\ b["outOfOrder"] = IF f = "outOfOrder" THEN a["outOfOrder"] + k ELSE a["outOfOrder"]
      /\ b["invalidTransitions"] = IF f = "invalidTransitions"
                                   THEN a["invalidTransitions"] + k ELSE a["invalidTransitions"]
    BY <1>1, CounterNames
<1>5. SumOfParts(a) \in Nat
    BY <1>4 DEF SumOfParts
<1>6. SumOfParts(b) = IF f \in Parts THEN SumOfParts(a) + k ELSE SumOfParts(a)
    BY <1>4 DEF SumOfParts, Parts
<1> QED BY <1>2, <1>3, <1>5, <1>6 DEF Grown

\* A larger counter is no smaller where a snapshot has not loaded it yet.
LEMMA SnapshotGrows ==
    ASSUME NEW r \in Readers, SnapshotInv(r), TypeOK, counter' \in [Counters -> Nat],
           \A f \in Counters : counter'[f] >= counter[f], UNCHANGED <<loads, snapshot>>
    PROVE  SnapshotInv(r)'
<1>1. /\ snapshot[r] \in [Counters -> Nat] /\ loads[r] \in Nat /\ counter \in [Counters -> Nat]
    BY CounterNames DEF TypeOK
<1>2. \A f \in Counters : snapshot'[r][f] <= counter'[f]
    BY <1>1 DEF SnapshotInv
<1>3. SeenParts(r)' >= SeenParts(r) /\ SeenParts(r) \in Nat /\ SeenParts(r)' \in Nat
  <2>1. \A f \in Counters, n \in Nat :
            /\ Seen(r, f, n) \in Nat /\ Seen(r, f, n)' \in Nat
            /\ Seen(r, f, n)' >= Seen(r, f, n)
      BY <1>1 DEF Seen
  <2> HIDE DEF Seen
  <2>2. /\ Seen(r, "applied", 2)' >= Seen(r, "applied", 2)
        /\ Seen(r, "applied", 2) \in Nat /\ Seen(r, "applied", 2)' \in Nat
        /\ Seen(r, "duplicatesSkipped", 3)' >= Seen(r, "duplicatesSkipped", 3)
        /\ Seen(r, "duplicatesSkipped", 3) \in Nat /\ Seen(r, "duplicatesSkipped", 3)' \in Nat
        /\ Seen(r, "duplicateStatus", 4)' >= Seen(r, "duplicateStatus", 4)
        /\ Seen(r, "duplicateStatus", 4) \in Nat /\ Seen(r, "duplicateStatus", 4)' \in Nat
        /\ Seen(r, "outOfOrder", 5)' >= Seen(r, "outOfOrder", 5)
        /\ Seen(r, "outOfOrder", 5) \in Nat /\ Seen(r, "outOfOrder", 5)' \in Nat
        /\ Seen(r, "invalidTransitions", 6)' >= Seen(r, "invalidTransitions", 6)
        /\ Seen(r, "invalidTransitions", 6) \in Nat /\ Seen(r, "invalidTransitions", 6)' \in Nat
      BY <2>1, CounterNames
  <2> QED BY <2>2 DEF SeenParts
<1>4. snapshot'[r]["processed"] = snapshot[r]["processed"] /\ snapshot[r]["processed"] \in Nat
    BY <1>1, CounterNames
<1>5. loads'[r] >= 1 =>
          snapshot'[r]["processed"] <= SeenParts(r)' + Cardinality(Recorders)
    BY <1>1, <1>3, <1>4, InFlightFinite DEF SnapshotInv
<1> QED BY <1>2, <1>5 DEF SnapshotInv

\* An addition keeps the balance: the one to processed puts its recorder
\* between the two, the one to the part takes it out.
LEMMA AddCollector ==
    ASSUME CollectorInv, NEW g \in Recorders, Add(g)
    PROVE  CollectorInv'
<1> DEFINE s == adds[g]
<1>1. /\ TypeOK /\ adds \in [Recorders -> Seq(Ops)] /\ s # <<>> /\ s \in Seq(Ops) /\ Paired(s)
      /\ adds' = [adds EXCEPT ![g] = Tail(@)]
      /\ counter' = [counter EXCEPT ![Head(s).counter] = @ + Head(s).by]
      /\ Single(s) /\ UNCHANGED <<loads, snapshot, recorded, calls>>
    BY DEF CollectorInv, Add
<1>2. /\ Tail(s) \in Seq(Ops) /\ Paired(Tail(s)) /\ Single(Tail(s))
      /\ Head(s) = s[1] /\ s[1] \in Ops
      /\ s[1].counter = "processed" => s[1].by = 1 /\ Between(Tail(s))
      /\ s[1].counter \in Parts => s[1].by = 1
      /\ s[1].counter # "processed" => ~Between(Tail(s))
    BY <1>1, TailPaired, TailAmount
<1> DEFINE f == s[1].counter
           k == s[1].by
<1>3. /\ counter \in [Counters -> Nat] /\ f \in Counters /\ k \in Nat
      /\ counter' = [counter EXCEPT ![f] = @ + k]
    BY <1>1, <1>2 DEF TypeOK, Ops
<1>4. /\ counter' \in [Counters -> Nat]
      /\ \A x \in Counters : counter'[x] >= counter[x]
      /\ counter'["processed"] = IF f = "processed" THEN counter["processed"] + k
                                 ELSE counter["processed"]
      /\ SumOfParts(counter) \in Nat
      /\ SumOfParts(counter') = IF f \in Parts THEN SumOfParts(counter) + k
                                ELSE SumOfParts(counter)
  <2> HIDE DEF f, k
  <2>1. Grown(counter, counter', f, k)
      BY <1>3, SumAfterAdd
  <2> QED BY <2>1 DEF Grown
<1>5. adds' \in [Recorders -> Seq(Ops)]
    BY <1>1, <1>2
<1>6. \A h \in Recorders : adds'[h] = IF h = g THEN Tail(s) ELSE adds[h]
    BY <1>1
<1>7. \A h \in Recorders : Paired(adds'[h]) /\ Single(adds'[h])
    BY <1>2, <1>6 DEF CollectorInv
<1>8. /\ g \in InFlight <=> f \in Parts
      /\ g \in InFlight' <=> Between(Tail(s))
      /\ \A h \in Recorders \ {g} : h \in InFlight' <=> h \in InFlight
    BY <1>1, <1>6 DEF InFlight, Between
<1> HIDE DEF f, k, s
<1>9. Balanced'
  <2>1. Balanced /\ counter["processed"] \in Nat
      BY <1>3, CounterNames DEF CollectorInv
  <2>2. CASE f = "processed"
    <3>1. InFlight' = InFlight \cup {g} /\ g \notin InFlight
        BY <1>2, <1>8, <2>2, CounterNames DEF InFlight, f
    <3>2. Cardinality(InFlight') = Cardinality(InFlight) + 1
        BY <3>1, InFlightFinite, FS_AddElement
    <3>3. k = 1 /\ f \notin Parts
        BY <1>2, <2>2, CounterNames DEF f, k
    <3> QED BY <1>4, <2>1, <2>2, <3>2, <3>3, InFlightFinite DEF Balanced
  <2>3. CASE f \in Parts
    <3>1. InFlight' = InFlight \ {g} /\ g \in InFlight
        BY <1>2, <1>8, <2>3, CounterNames DEF InFlight, f
    <3>2. Cardinality(InFlight') = Cardinality(InFlight) - 1
        BY <3>1, InFlightFinite, FS_RemoveElement
    <3>3. k = 1 /\ f # "processed"
        BY <1>2, <2>3, CounterNames DEF f, k
    <3> QED BY <1>4, <2>1, <2>3, <3>2, <3>3, InFlightFinite DEF Balanced
  <2>4. CASE f # "processed" /\ f \notin Parts
    <3>1. InFlight' = InFlight
        BY <1>2, <1>8, <2>4 DEF InFlight, f
    <3> QED BY <1>4, <2>1, <2>4, <3>1 DEF Balanced
  <2> QED BY <2>2, <2>3, <2>4
<1>10. \A r \in Readers : SnapshotInv(r)'
    BY <1>1, <1>4, SnapshotGrows DEF CollectorInv
<1>11. TypeOK'
  <2>1. \A h \in Recorders : \A n \in DOMAIN adds'[h] :
            adds'[h][n].counter \in Counters /\ adds'[h][n].by \in Nat
      BY <1>5, AddsTyped
  <2> QED BY <1>1, <1>4, <2>1 DEF TypeOK
<1>12. (NoAdditionLost /\ \A x \in Counters : IsFiniteSet(Outstanding(x)))'
    BY AddLosesNothing DEF NoAdditionLost
<1> QED BY <1>5, <1>7, <1>9, <1>10, <1>11, <1>12 DEF CollectorInv

\* A load copies one counter: processed before all its parts, the parts after it.
LEMMA LoadCollector ==
    ASSUME CollectorInv, NEW r \in Readers, Load(r)
    PROVE  CollectorInv'
<1>1. /\ TypeOK /\ Balanced /\ SnapshotInv(r)
      /\ counter \in [Counters -> Nat] /\ loads \in [Readers -> 0..11]
      /\ snapshot \in [Readers -> [Counters -> Nat]] /\ loads[r] \in 0..10
  <2>1. TypeOK /\ Balanced /\ SnapshotInv(r)
      BY DEF CollectorInv
  <2>2. loads \in [Readers -> 0..11] /\ loads[r] < 11
      BY <2>1, CounterNames DEF TypeOK, Load
  <2>3. loads[r] \in 0..10
      BY <2>2
  <2> QED BY <2>1, <2>2, <2>3 DEF TypeOK
<1> DEFINE f == SnapshotOrder[loads[r] + 1]
<1>2. /\ f \in Counters
      /\ f = "processed" <=> loads[r] = 0
      /\ f = "applied" <=> loads[r] = 1
      /\ f = "duplicatesSkipped" <=> loads[r] = 2
      /\ f = "duplicateStatus" <=> loads[r] = 3
      /\ f = "outOfOrder" <=> loads[r] = 4
      /\ f = "invalidTransitions" <=> loads[r] = 5
    BY <1>1, LoadOrder
<1>3. /\ snapshot' = [snapshot EXCEPT ![r][f] = counter[f]]
      /\ loads' = [loads EXCEPT ![r] = @ + 1]
      /\ UNCHANGED <<counter, adds, recorded, calls>>
    BY DEF Load
<1> HIDE DEF f
<1>4. /\ \A x \in Counters : snapshot'[r][x] = IF x = f THEN counter[x] ELSE snapshot[r][x]
      /\ loads'[r] = loads[r] + 1
      /\ \A q \in Readers \ {r} : snapshot'[q] = snapshot[q] /\ loads'[q] = loads[q]
    BY <1>1, <1>2, <1>3
<1>5. /\ snapshot' \in [Readers -> [Counters -> Nat]] /\ loads' \in [Readers -> 0..11]
    BY <1>1, <1>2, <1>3
<1>6. TypeOK'
    BY <1>1, <1>3, <1>5, CounterNames DEF TypeOK
<1>7. InFlight' = InFlight
    BY <1>3 DEF InFlight
<1>8. Balanced'
    BY <1>1, <1>3, <1>7 DEF Balanced
<1>9. \A x \in Counters : snapshot'[r][x] <= counter'[x]
    BY <1>1, <1>3, <1>4 DEF SnapshotInv
<1>10. /\ \A x \in Counters : counter[x] \in Nat /\ snapshot[r][x] \in Nat
       /\ loads[r] \in Nat
    BY <1>1
<1>11. ASSUME loads[r] = 0 PROVE SnapshotInv(r)'
  <2>1. snapshot'[r]["processed"] = counter["processed"]
      BY <1>2, <1>4, <1>11, CounterNames
  <2>2. SeenParts(r)' = SumOfParts(counter) /\ SumOfParts(counter) \in Nat
      BY <1>3, <1>4, <1>10, <1>11, CounterNames DEF SeenParts, Seen, SumOfParts
  <2>3. counter["processed"] <= SumOfParts(counter) + Cardinality(Recorders)
      BY <1>1, <2>2, InFlightFinite DEF Balanced
  <2> QED BY <1>9, <2>1, <2>2, <2>3 DEF SnapshotInv
<1>12. ASSUME loads[r] # 0 PROVE SnapshotInv(r)'
  <2>1. snapshot'[r]["processed"] = snapshot[r]["processed"]
      BY <1>2, <1>4, <1>12, CounterNames
  <2>2. /\ Seen(r, "applied", 2)' = Seen(r, "applied", 2)
        /\ Seen(r, "duplicatesSkipped", 3)' = Seen(r, "duplicatesSkipped", 3)
        /\ Seen(r, "duplicateStatus", 4)' = Seen(r, "duplicateStatus", 4)
        /\ Seen(r, "outOfOrder", 5)' = Seen(r, "outOfOrder", 5)
        /\ Seen(r, "invalidTransitions", 6)' = Seen(r, "invalidTransitions", 6)
      BY <1>2, <1>3, <1>4, <1>10, <1>12, CounterNames DEF Seen
  <2>3. SeenParts(r)' = SeenParts(r)
      BY <2>2 DEF SeenParts
  <2>4. loads[r] >= 1
      BY <1>10, <1>12
  <2> QED BY <1>1, <1>9, <2>1, <2>3, <2>4 DEF SnapshotInv
<1>13. ASSUME NEW q \in Readers \ {r} PROVE SnapshotInv(q)'
    BY <1>3, <1>4 DEF CollectorInv, SnapshotInv, SeenParts, Seen
<1>14. /\ adds' \in [Recorders -> Seq(Ops)]
       /\ \A g \in Recorders : Paired(adds'[g]) /\ Single(adds'[g])
       /\ (NoAdditionLost /\ \A x \in Counters : IsFiniteSet(Outstanding(x)))'
    BY <1>3 DEF CollectorInv, NoAdditionLost, Outstanding
<1> QED BY <1>6, <1>8, <1>11, <1>12, <1>13, <1>14 DEF CollectorInv

\* The end of a request forgets what it has loaded.
LEMMA RespondCollector ==
    ASSUME CollectorInv, NEW r \in Readers, Respond(r)
    PROVE  CollectorInv'
<1>1. /\ TypeOK /\ loads' = [loads EXCEPT ![r] = 0]
      /\ UNCHANGED <<counter, adds, snapshot, recorded, calls>>
    BY DEF CollectorInv, Respond
<1>2. /\ loads'[r] = 0
      /\ \A q \in Readers \ {r} : loads'[q] = loads[q]
      /\ loads' \in [Readers -> 0..Len(SnapshotOrder)]
    BY <1>1, CounterNames DEF TypeOK
<1>3. TypeOK'
    BY <1>1, <1>2 DEF TypeOK
<1>4. /\ Balanced' /\ adds' \in [Recorders -> Seq(Ops)]
      /\ \A g \in Recorders : Paired(adds'[g]) /\ Single(adds'[g])
      /\ (NoAdditionLost /\ \A f \in Counters : IsFiniteSet(Outstanding(f)))'
    BY <1>1 DEF CollectorInv, Balanced, InFlight, NoAdditionLost, Outstanding
<1>5. ASSUME NEW q \in Readers PROVE SnapshotInv(q)'
  <2>1. CASE q = r
      BY <1>1, <1>2, <2>1 DEF CollectorInv, SnapshotInv
  <2>2. CASE q # r
      BY <1>1, <1>2, <2>2 DEF CollectorInv, SnapshotInv, SeenParts, Seen
  <2> QED BY <2>1, <2>2
<1> QED BY <1>3, <1>4, <1>5 DEF CollectorInv

\* Every atomic operation keeps the invariant.
LEMMA NextCollector == CollectorInv /\ [Next]_vars => CollectorInv'
<1> SUFFICES ASSUME CollectorInv, [Next]_vars PROVE CollectorInv'
    OBVIOUS
<1>1. CASE UNCHANGED vars
    BY <1>1 DEF vars, CollectorInv, TypeOK, Balanced, InFlight, SnapshotInv, SeenParts, Seen,
                NoAdditionLost, Outstanding
<1>2. ASSUME NEW g \in Recorders, NEW class \in DOMAIN ClassCounter, NEW n \in 0..MaxReplay,
             RecordResult(g, class, n)
      PROVE  CollectorInv'
  <2>1. n \in Nat /\ (n > 0 => class = "APPLIED")
      BY <1>2, BoundAssumption DEF RecordResult
  <2> QED BY <1>2, <2>1, ResultOpens, CallCollector DEF RecordResult
<1>3. ASSUME NEW g \in Recorders,
             RecordFailure(g) \/ RecordSimulatedFailure(g) \/ RecordRecovered(g)
      PROVE  CollectorInv'
  <2>1. /\ Opens(One("failures")) /\ Opens(One("simulatedFailures"))
        /\ Opens(One("recoveredMessages"))
      BY OneOpens, CounterNames DEF Parts
  <2> QED BY <1>3, <2>1, CallCollector
          DEF RecordFailure, RecordSimulatedFailure, RecordRecovered
<1> QED BY <1>1, <1>2, <1>3, AddCollector, LoadCollector, RespondCollector DEF Next

\* Counters, snapshots and pending additions are well formed at every moment.
THEOREM CollectorTypeCorrect == Spec => []TypeOK
BY InitCollector, NextCollector, PTL DEF Spec, CollectorInv

\* In every response the parts account for all of processed but one event per
\* recording goroutine, however many requests and recorders there are and
\* however their atomic operations interleave (metrics.go:77-102, 124-152).
THEOREM CollectorPartsAccountForProcessed == Spec => []PartsAccountForProcessed
<1>1. CollectorInv => PartsAccountForProcessed
  <2> SUFFICES ASSUME CollectorInv, NEW r \in Readers, loads[r] = Len(SnapshotOrder)
               PROVE  snapshot[r]["processed"] <=
                          SumOfParts(snapshot[r]) + Cardinality(Recorders)
      BY DEF PartsAccountForProcessed
  <2>1. loads[r] = 11
      BY CounterNames
  <2>2. SeenParts(r) = SumOfParts(snapshot[r])
      BY <2>1 DEF SeenParts, Seen, SumOfParts
  <2> QED BY <2>1, <2>2 DEF CollectorInv, SnapshotInv
<1> QED BY InitCollector, NextCollector, <1>1, PTL DEF Spec

\* No addition is lost, whichever goroutines add at the same time: at every
\* moment each counter and what the running Record calls have yet to add to it
\* make up all that was recorded (metrics.go:78-117).
THEOREM CollectorLosesNoAddition == Spec => []NoAdditionLost
BY InitCollector, NextCollector, PTL DEF Spec, CollectorInv
=============================================================================
