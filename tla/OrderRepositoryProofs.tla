----------------------- MODULE OrderRepositoryProofs -----------------------
(***************************************************************************)
(* Properties of ProcessEventTx for every set of callers, orders and       *)
(* events, every hash function and every clock resolution.                 *)
(***************************************************************************)
EXTENDS OrderRepository, SequenceTheorems, TLAPS

-----------------------------------------------------------------------------
(* Type correctness                                                        *)

\* Natural numbers are closed under addition, as counters of rows and replays need.
LEMMA SumIsNat == \A m, n \in Nat : m + n \in Nat
OBVIOUS

\* A truncated timestamp is a natural number.
LEMMA DivIsNat ==
    ASSUME NEW n \in Nat, NEW d \in Nat \ {0}
    PROVE  n \div d \in Nat
OBVIOUS

\* An event that passes validateEvent becomes a row.
LEMMA ValidRow ==
    ASSUME NEW e \in Events, validateEvent(e)
    PROVE  Row(e) \in Rows
<1>1. e \in OrderEvent
    BY EventAssumption
<1>2. timestamptz(e.ts) \in Nat
    BY <1>1, DivIsNat, TickAssumption DEF OrderEvent, timestamptz
<1> QED BY <1>1, <1>2 DEF OrderEvent, validateEvent, isPersistableStatus, Row, Rows, Status

\* A transaction starts with a well-formed, empty write set.
LEMMA NoWritesType == NoWrites \in WriteSet
BY EmptySeq DEF NoWrites, WriteSet, OrderRow, NoOrder

\* The statements keep a write set well formed.
LEMMA StatementType ==
    ASSUME NEW w \in WriteSet, NEW row \in Rows,
           NEW from \in Status \cup {NoStatus}, NEW c \in Outcome
    PROVE  /\ updateOutcome(w, row, c) \in WriteSet
           /\ applyEvent(w, row, from) \in WriteSet
           /\ insertPendingEvent(w, row) \in WriteSet
           /\ insertDeadLetterEvent(w, row) \in WriteSet
           /\ deletePending(w, row) \in WriteSet
<1>1. \A v \in WriteSet, d \in Outcome : updateOutcome(v, row, d) \in WriteSet
    BY DEF updateOutcome, WriteSet, Rows
<1>2. applyEvent(w, row, from) \in WriteSet
  <2> DEFINE h == [id |-> row.id, from |-> from, to |-> row.status, ts |-> row.ts]
             v == [w EXCEPT !.order   = [status |-> row.status, ts |-> row.ts],
                            !.history = Append(@, h)]
  <2>1. h \in HistoryRow
      BY DEF HistoryRow, Rows
  <2>2. Append(w.history, h) \in Seq(HistoryRow)
      BY <2>1, AppendProperties DEF WriteSet
  <2>3. v \in WriteSet
      BY <2>2 DEF WriteSet, OrderRow, Rows
  <2> QED BY <1>1, <2>3 DEF applyEvent, Outcome, Classification
<1>3. insertPendingEvent(w, row) \in WriteSet
  <2>1. [w EXCEPT !.defer = @ \cup {row}] \in WriteSet
      BY DEF WriteSet
  <2> QED BY <1>1, <2>1 DEF insertPendingEvent, Outcome, Classification
<1>4. insertDeadLetterEvent(w, row) \in WriteSet
  <2>1. [w.dead EXCEPT ![row.id] = @ + 1] \in [EventIDs -> Nat]
    <3>1. w.dead \in [EventIDs -> Nat] /\ row.id \in EventIDs
        BY DEF WriteSet, Rows
    <3>2. w.dead[row.id] + 1 \in Nat
        BY <3>1, SumIsNat
    <3> QED BY <3>1, <3>2
  <2>2. [w EXCEPT !.dead = [w.dead EXCEPT ![row.id] = @ + 1]] \in WriteSet
      BY <2>1 DEF WriteSet
  <2> QED BY <1>1, <2>2 DEF insertDeadLetterEvent, Outcome, Classification
<1>5. deletePending(w, row) \in WriteSet
    BY DEF deletePending, WriteSet
<1> QED BY <1>1, <1>2, <1>3, <1>4, <1>5

\* Only a transaction that has begun has a row, a key and pending rows.
LEMMA InTransaction ==
    ASSUME TypeOK, NEW p \in Procs, pc[p] # "idle"
    PROVE  /\ ev[p] \in Rows
           /\ ev[p].order \in Orders
           /\ ev[p].id \in EventIDs
           /\ Key(p) \in {hashtext[o] : o \in Orders}
           /\ ws[p] \in WriteSet
           /\ PendingView(p) \subseteq Rows
<1>1. ev[p] \in Rows /\ ws[p] \in WriteSet
    BY DEF TypeOK
<1>2. PendingView(p) \subseteq Rows
    BY <1>1 DEF PendingView, TypeOK, WriteSet
<1> QED BY <1>1, <1>2 DEF Rows, Key

\* The empty schema has the types of the schema.
LEMMA InitType == Init => TypeOK
<1> SUFFICES ASSUME Init PROVE TypeOK
    OBVIOUS
<1> QED BY NoWritesType, EmptySeq
        DEF Init, TypeOK, OrderRow, NoOrder, NotProcessed, Steps, Results, NoResult

\* Every statement, early return, commit and rollback keeps the types.
LEMMA NextType == TypeOK /\ [Next]_vars => TypeOK'
<1> SUFFICES ASSUME TypeOK, [Next]_vars PROVE TypeOK'
    OBVIOUS
<1>1. ASSUME NEW p \in Procs, NEW e \in Events, BeginTx(p, e) PROVE TypeOK'
    BY <1>1, ValidRow
    DEF BeginTx, TypeOK, tables, Steps, Results, NoResult
<1>2. ASSUME NEW p \in Procs, ReturnEarly(p) PROVE TypeOK'
    BY <1>2 DEF ReturnEarly, TypeOK, tables, Results, Failed
<1>3. ASSUME NEW p \in Procs, AcquireLock(p) PROVE TypeOK'
    BY <1>3, InTransaction DEF AcquireLock, TypeOK, tables, Steps
<1>4. ASSUME NEW p \in Procs, insertProcessedEvent(p) PROVE TypeOK'
  <2>1. ev[p] \in Rows /\ updateOutcome(ws[p], ev[p], "RECEIVED") \in WriteSet
      BY <1>4, InTransaction, StatementType DEF insertProcessedEvent, Outcome
  <2>2. ws' \in [Procs -> WriteSet]
      BY <1>4, <2>1 DEF insertProcessedEvent, TypeOK
  <2>3. result' \in [Procs -> Results]
    <3>1. [result[p] EXCEPT !.class = "DUPLICATE_EVENT"] \in Results
        BY DEF TypeOK, Results
    <3> QED BY <1>4, <3>1 DEF insertProcessedEvent, TypeOK
  <2>4. pc' \in [Procs -> Steps] /\ \A q \in Procs : pc'[q] # "idle" => pc[q] # "idle"
      BY <1>4 DEF insertProcessedEvent, TypeOK, Steps
  <2> QED BY <1>4, <2>2, <2>3, <2>4 DEF insertProcessedEvent, TypeOK, tables
<1>5. ASSUME NEW p \in Procs, loadCurrentStatus(p) PROVE TypeOK'
    BY <1>5, InTransaction DEF loadCurrentStatus, TypeOK, tables, Steps, OrderRow
<1>6. ASSUME NEW p \in Procs, NEW c \in Classification, NEW w \in WriteSet,
             NEW next \in {"replay", "commit"}, Route(p, c, w, next),
             cur' \in [Procs -> Status \cup {NoStatus}]
      PROVE  TypeOK'
    BY <1>6, InTransaction DEF Route, TypeOK, tables, Steps, Results
<1>7. ASSUME NEW p \in Procs, Apply(p) \/ SkipDuplicateStatus(p) \/ Defer(p) \/ Reject(p)
      PROVE  TypeOK'
  <2>1. ev[p] \in Rows /\ ws[p] \in WriteSet /\ cur[p] \in Status \cup {NoStatus}
      BY <1>7, InTransaction
      DEF TypeOK, Apply, SkipDuplicateStatus, Defer, Reject, Route
  <2>2. cur' \in [Procs -> Status \cup {NoStatus}]
      BY <1>7, <2>1 DEF TypeOK, Apply, SkipDuplicateStatus, Defer, Reject, Rows
  <2>3. /\ applyEvent(ws[p], ev[p], cur[p]) \in WriteSet
        /\ updateOutcome(ws[p], ev[p], "DUPLICATE_STATUS") \in WriteSet
        /\ insertPendingEvent(ws[p], ev[p]) \in WriteSet
        /\ insertDeadLetterEvent(ws[p], ev[p]) \in WriteSet
      BY <2>1, StatementType DEF Outcome, Classification
  <2> QED BY <1>6, <1>7, <2>2, <2>3
          DEF Apply, SkipDuplicateStatus, Defer, Reject, Classification
<1>8. ASSUME NEW p \in Procs, ReplayApply(p) \/ ReplaySkip(p) \/ ReplayReject(p)
      PROVE  TypeOK'
  <2>1. PICK row \in PendingView(p) :
          /\ pc[p] = "replay"
          /\ \/ ws' = [ws EXCEPT ![p] = deletePending(applyEvent(ws[p], row, cur[p]), row)]
             \/ ws' = [ws EXCEPT ![p] =
                          deletePending(updateOutcome(ws[p], row, "DUPLICATE_STATUS"), row)]
             \/ ws' = [ws EXCEPT ![p] = deletePending(insertDeadLetterEvent(ws[p], row), row)]
          /\ cur' = cur \/ cur' = [cur EXCEPT ![p] = row.status]
          /\ result' = result \/ result' = [result EXCEPT ![p].replayed = @ + 1]
          /\ UNCHANGED <<tables, lock, pc, ev>>
      BY <1>8 DEF ReplayApply, ReplaySkip, ReplayReject, ReplayRow
  <2>2. row \in Rows /\ ws[p] \in WriteSet /\ cur[p] \in Status \cup {NoStatus}
      BY <2>1, InTransaction DEF TypeOK
  <2>3. ws' \in [Procs -> WriteSet]
    <3>1. /\ applyEvent(ws[p], row, cur[p]) \in WriteSet
          /\ updateOutcome(ws[p], row, "DUPLICATE_STATUS") \in WriteSet
          /\ insertDeadLetterEvent(ws[p], row) \in WriteSet
        BY <2>2, StatementType DEF Outcome, Classification
    <3>2. \A w \in WriteSet : deletePending(w, row) \in WriteSet
        BY <2>2 DEF deletePending, WriteSet
    <3>3. PICK w \in WriteSet : ws' = [ws EXCEPT ![p] = w]
        BY <2>1, <3>1, <3>2, Zenon
    <3> QED BY <3>3 DEF TypeOK
  <2>4. cur' \in [Procs -> Status \cup {NoStatus}]
    <3>1. row.status \in Status
        BY <2>2 DEF Rows
    <3> QED BY <2>1, <3>1 DEF TypeOK
  <2>5. result' \in [Procs -> Results]
    <3>1. [result[p] EXCEPT !.replayed = @ + 1] \in Results
      <4>1. result[p] \in Results
          BY DEF TypeOK
      <4>2. result[p].replayed + 1 \in Nat
          BY <4>1, SumIsNat DEF Results
      <4> QED BY <4>1, <4>2 DEF Results
    <3> QED BY <2>1, <3>1 DEF TypeOK
  <2> QED BY <2>1, <2>3, <2>4, <2>5 DEF TypeOK, tables
<1>9. ASSUME NEW p \in Procs, ReplayDone(p) PROVE TypeOK'
    BY <1>9 DEF ReplayDone, TypeOK, tables, Steps
<1>10. ASSUME NEW p \in Procs, EndTx(p) PROVE
           /\ lock' \in [{hashtext[o] : o \in Orders} -> Procs \cup {Free}]
           /\ pc' \in [Procs -> Steps]
           /\ \A q \in Procs : pc'[q] # "idle" => pc[q] # "idle"
           /\ ws' \in [Procs -> WriteSet]
           /\ UNCHANGED <<ev, cur>>
    BY <1>10, NoWritesType DEF EndTx, TypeOK, Steps
<1>11. ASSUME NEW p \in Procs, Commit(p) PROVE TypeOK'
  <2>1. /\ ev[p] \in Rows /\ ev[p].order \in Orders /\ ws[p] \in WriteSet
      BY <1>11, InTransaction DEF Commit
  <2>2. orders' \in [Orders -> OrderRow]
      BY <1>11, <2>1 DEF Commit, MakeVisible, TypeOK, WriteSet
  <2>3. processed' \in [EventIDs -> [row : Rows \cup {NoRow}, outcome : Outcome \cup {""}]]
      BY <1>11, <2>1 DEF Commit, MakeVisible, TypeOK, WriteSet
  <2>4. history' \in [Orders -> Seq(HistoryRow)]
    <3>1. history[ev[p].order] \o ws[p].history \in Seq(HistoryRow)
        BY <2>1, ConcatProperties DEF TypeOK, WriteSet
    <3> QED BY <1>11, <3>1 DEF Commit, MakeVisible, TypeOK
  <2>5. pending' \in SUBSET Rows
      BY <1>11, <2>1 DEF Commit, MakeVisible, TypeOK, WriteSet
  <2>6. deadLetters' \in [EventIDs -> Nat]
    <3>1. \A i \in EventIDs : deadLetters[i] + ws[p].dead[i] \in Nat
      <4>1. ws[p].dead \in [EventIDs -> Nat]
          BY <2>1 DEF WriteSet
      <4>2. \A i \in EventIDs : deadLetters[i] \in Nat /\ ws[p].dead[i] \in Nat
          BY <4>1 DEF TypeOK
      <4> QED BY <4>2, SumIsNat
    <3> QED BY <1>11, <3>1 DEF Commit, MakeVisible
  <2>7. result' \in [Procs -> Results]
    <3>1. Failed \in Results /\ [result[p] EXCEPT !.status = "ok"] \in Results
        BY DEF TypeOK, Results, Failed
    <3> QED BY <1>11, <3>1 DEF Commit, TypeOK
  <2> QED BY <1>10, <1>11, <2>2, <2>3, <2>4, <2>5, <2>6, <2>7 DEF Commit, TypeOK
<1>12. ASSUME NEW p \in Procs, Rollback(p) PROVE TypeOK'
    BY <1>10, <1>12 DEF Rollback, TypeOK, tables, Results, Failed
<1>13. CASE UNCHANGED vars
    BY <1>13 DEF TypeOK, vars, tables, locals
<1> QED BY <1>1, <1>2, <1>3, <1>4, <1>5, <1>7, <1>8, <1>9, <1>11, <1>12, <1>13
        DEF Next, Statement, TxBody, RefuseEvent, BeginFails

\* The tables keep the shape of the schema, and every caller the shape of the
\* Go types, whatever is submitted and however the transactions interleave.
THEOREM RepositoryTypeCorrect == Spec => []TypeOK
BY InitType, NextType, PTL DEF Spec

-----------------------------------------------------------------------------
(* The advisory lock serializes the transactions of an order               *)
(*                                                                         *)
(* NoStaleWrite and HistoryIsLifecycle are about what is committed; they   *)
(* are preserved because a transaction past its lock statement holds the   *)
(* lock of its order, so nobody else commits to the order (LockHeld), and  *)
(* because what it has written so far is a legal continuation of the       *)
(* committed history (Continuation).                                       *)

InLock(p) == pc[p] \in {"insert", "load", "classify", "replay", "commit"}

\* pg_advisory_xact_lock is held from its statement to the end of the transaction.
LockHeld == \A p \in Procs : InLock(p) => lock[Key(p)] = p

Committed(p) == orders[ev[p].order].status

\* What p's transaction has written: nothing before its INSERT; no transition
\* before classification, which sees the committed status; then a legal chain
\* from the committed status to the one it is about to store, which is what
\* the replay loop calls current.
Continuation(p) ==
    /\ pc[p] \in {"idle", "lock", "insert"} => ws[p] = NoWrites
    /\ pc[p] \in {"load", "classify"} => ws[p].history = <<>> /\ ws[p].order = NoOrder
    /\ pc[p] = "classify" => cur[p] = Committed(p)
    /\ InLock(p) => LegalChain(ws[p].history, Committed(p))
    /\ ws[p].history = <<>> => ws[p].order = NoOrder
    /\ ws[p].history # <<>> => ws[p].order.status = EndOf(ws[p].history, NoStatus)
    /\ pc[p] = "replay" => ws[p].history # <<>> /\ cur[p] = ws[p].order.status

SerialInv == /\ TypeOK
             /\ LockHeld
             /\ \A p \in Procs : Continuation(p)
             /\ HistoryIsLifecycle

\* EvaluateTransition says APPLIED for the allowed transitions only.
LEMMA AppliedIsAllowed ==
    ASSUME NEW s, NEW t, EvaluateTransition(s, t) = "APPLIED"
    PROVE  <<s, t>> \in AppliedPairs
BY DEF EvaluateTransition

\* No transition is a legal chain from anywhere.
LEMMA EmptyChain == \A s : LegalChain(<<>>, s)
BY DEF LegalChain

\* One more allowed transition, from where a chain ends, makes a longer chain.
LEMMA ChainAppend ==
    ASSUME NEW h \in Seq(HistoryRow), NEW s, NEW x \in HistoryRow,
           LegalChain(h, s), x.from = EndOf(h, s), <<x.from, x.to>> \in AppliedPairs
    PROVE  /\ LegalChain(Append(h, x), s)
           /\ \A t : EndOf(Append(h, x), t) = x.to
           /\ Append(h, x) # <<>>
<1> DEFINE g == Append(h, x)
<1>1. /\ Len(h) \in Nat
      /\ Len(g) = Len(h) + 1
      /\ \A n \in 1..Len(h) : g[n] = h[n]
      /\ g[Len(h) + 1] = x
      /\ g # <<>>
    BY AppendProperties, LenProperties
<1>2. h = <<>> <=> Len(h) = 0
    BY EmptySeq
<1>3. LegalChain(g, s)
  <2> SUFFICES ASSUME NEW n \in 1..Len(g)
               PROVE  /\ <<g[n].from, g[n].to>> \in AppliedPairs
                      /\ g[n].from = IF n = 1 THEN s ELSE g[n - 1].to
      BY DEF LegalChain
  <2>1. CASE n \in 1..Len(h)
    <3>1. n = 1 \/ n - 1 \in 1..Len(h)
        BY <1>1, <2>1
    <3> QED BY <1>1, <2>1, <3>1 DEF LegalChain
  <2>2. CASE n = Len(h) + 1
    <3>1. CASE Len(h) = 0
        BY <1>1, <1>2, <2>2, <3>1 DEF EndOf
    <3>2. CASE Len(h) # 0
      <4>1. Len(h) \in 1..Len(h) /\ n # 1 /\ n - 1 = Len(h)
          BY <1>1, <2>2, <3>2
      <4> QED BY <1>1, <1>2, <2>2, <3>2, <4>1 DEF EndOf
    <3> QED BY <3>1, <3>2
  <2> QED BY <1>1, <2>1, <2>2
<1>4. \A t : EndOf(g, t) = x.to
    BY <1>1 DEF EndOf
<1> QED BY <1>1, <1>3, <1>4

\* A chain that starts where another ends continues it.
LEMMA ChainConcat ==
    ASSUME NEW h \in Seq(HistoryRow), NEW g \in Seq(HistoryRow), NEW s,
           LegalChain(h, s), LegalChain(g, EndOf(h, s)), g # <<>>
    PROVE  LegalChain(h \o g, s) /\ EndOf(h \o g, s) = EndOf(g, s)
<1> DEFINE f == h \o g
<1>1. /\ Len(h) \in Nat /\ Len(g) \in Nat \ {0}
      /\ Len(f) = Len(h) + Len(g)
      /\ \A n \in 1..Len(h) : f[n] = h[n]
      /\ \A n \in 1..Len(g) : f[Len(h) + n] = g[n]
  <2>1. Len(h) \in Nat /\ Len(g) \in Nat \ {0}
      BY EmptySeq, LenProperties
  <2>2. /\ Len(f) = Len(h) + Len(g)
        /\ \A i \in 1..(Len(h) + Len(g)) :
              f[i] = IF i <= Len(h) THEN h[i] ELSE g[i - Len(h)]
      BY ConcatProperties
  <2>3. ASSUME NEW n \in 1..Len(h) PROVE f[n] = h[n]
      BY <2>1, <2>2, <2>3
  <2>4. ASSUME NEW n \in 1..Len(g) PROVE f[Len(h) + n] = g[n]
    <3>1. /\ Len(h) + n \in 1..(Len(h) + Len(g))
          /\ ~(Len(h) + n <= Len(h))
          /\ (Len(h) + n) - Len(h) = n
        BY <2>1, <2>4
    <3> QED BY <2>2, <3>1
  <2> QED BY <2>1, <2>2, <2>3, <2>4
<1>2. h = <<>> <=> Len(h) = 0
    BY EmptySeq
<1> HIDE DEF f
<1>3. LegalChain(f, s)
  <2> SUFFICES ASSUME NEW n \in 1..Len(f)
               PROVE  /\ <<f[n].from, f[n].to>> \in AppliedPairs
                      /\ f[n].from = IF n = 1 THEN s ELSE f[n - 1].to
      BY DEF LegalChain
  <2>1. CASE n \in 1..Len(h)
    <3>1. n = 1 \/ n - 1 \in 1..Len(h)
        BY <1>1, <2>1
    <3> QED BY <1>1, <2>1, <3>1 DEF LegalChain
  <2>2. CASE n = Len(h) + 1
    <3>1. 1 \in 1..Len(g) /\ f[n] = g[1]
        BY <1>1, <2>2
    <3>2. <<f[n].from, f[n].to>> \in AppliedPairs /\ f[n].from = EndOf(h, s)
        BY <3>1 DEF LegalChain
    <3>3. CASE Len(h) = 0
        BY <1>1, <1>2, <2>2, <3>2, <3>3 DEF EndOf
    <3>4. CASE Len(h) # 0
      <4>1. Len(h) \in 1..Len(h) /\ n # 1 /\ n - 1 = Len(h)
          BY <1>1, <2>2, <3>4
      <4> QED BY <1>1, <1>2, <3>2, <3>4, <4>1 DEF EndOf
    <3> QED BY <3>3, <3>4
  <2>3. CASE n \in (Len(h) + 2)..Len(f)
    <3> DEFINE m == n - Len(h)
    <3>1. /\ m \in 1..Len(g) /\ m - 1 \in 1..Len(g) /\ m # 1 /\ n # 1
          /\ n = Len(h) + m /\ n - 1 = Len(h) + (m - 1)
        BY <1>1, <2>3
    <3> HIDE DEF m
    <3>2. f[n] = g[m] /\ f[n - 1] = g[m - 1]
        BY <1>1, <3>1
    <3> QED BY <3>1, <3>2 DEF LegalChain
  <2> QED BY <1>1, <2>1, <2>2, <2>3
<1>4. EndOf(f, s) = EndOf(g, s)
  <2>1. f # <<>>
    <3>1. Len(f) # 0
        BY <1>1
    <3>2. \A q : q = <<>> => Len(q) = 0
        OBVIOUS
    <3> QED BY <3>1, <3>2, Zenon
  <2>2. f[Len(f)] = g[Len(g)]
    <3>1. Len(g) \in 1..Len(g) /\ Len(f) = Len(h) + Len(g)
        BY <1>1
    <3> QED BY <1>1, <3>1
  <2> QED BY <2>1, <2>2 DEF EndOf
<1> QED BY <1>3, <1>4 DEF f

\* What a step leaves alone of p's transaction and of its order, it leaves
\* a continuation.
LEMMA ContinuationFrame ==
    ASSUME NEW p \in Procs, Continuation(p),
           pc'[p] = pc[p], ws'[p] = ws[p], cur'[p] = cur[p],
           InLock(p) => Committed(p)' = Committed(p)
    PROVE  Continuation(p)'
BY DEF Continuation, InLock

\* The steps that commit nothing: every other transaction is left alone, p's
\* keeps its lock or does not have it, and so only p's writes matter.
LEMMA LocalStep ==
    ASSUME SerialInv, TypeOK', NEW p \in Procs,
           UNCHANGED <<orders, history>>,
           \A q \in Procs \ {p} : /\ pc'[q] = pc[q] /\ ws'[q] = ws[q]
                                  /\ cur'[q] = cur[q] /\ ev'[q] = ev[q]
                                  /\ InLock(q) /\ lock[Key(q)] = q => lock'[Key(q)] = q,
           InLock(p)' => lock'[Key(p)'] = p,
           Continuation(p)'
    PROVE  SerialInv'
<1> USE DEF SerialInv
<1>1. \A q \in Procs \ {p} : Key(q)' = Key(q) /\ Committed(q)' = Committed(q)
    BY DEF Key, Committed
<1>2. LockHeld'
    BY <1>1 DEF LockHeld, InLock
<1>3. \A q \in Procs \ {p} : Continuation(q)'
    BY <1>1, ContinuationFrame
<1>4. HistoryIsLifecycle'
    BY DEF HistoryIsLifecycle
<1> QED BY <1>2, <1>3, <1>4

\* An applied row continues the transaction's chain.
LEMMA ApplyContinues ==
    ASSUME NEW w \in WriteSet, NEW row \in Rows, NEW s, NEW from \in Status \cup {NoStatus},
           LegalChain(w.history, s), from = EndOf(w.history, s),
           EvaluateTransition(from, row.status) = "APPLIED"
    PROVE  LET v == applyEvent(w, row, from)
           IN  /\ LegalChain(v.history, s)
               /\ v.history # <<>>
               /\ v.order.status = row.status
               /\ \A t : EndOf(v.history, t) = row.status
<1> DEFINE x == [id |-> row.id, from |-> from, to |-> row.status, ts |-> row.ts]
           v == applyEvent(w, row, from)
<1>1. x \in HistoryRow /\ w.history \in Seq(HistoryRow)
    BY DEF HistoryRow, Rows, WriteSet
<1>2. <<x.from, x.to>> \in AppliedPairs
    BY AppliedIsAllowed
<1>3. v.history = Append(w.history, x) /\ v.order = [status |-> row.status, ts |-> row.ts]
    BY DEF applyEvent, updateOutcome, WriteSet
<1> HIDE DEF v
<1>4. /\ LegalChain(Append(w.history, x), s)
      /\ \A t : EndOf(Append(w.history, x), t) = x.to
      /\ Append(w.history, x) # <<>>
    BY <1>1, <1>2, ChainAppend
<1>5. /\ LegalChain(v.history, s)
      /\ v.history # <<>>
      /\ v.order.status = row.status
      /\ \A t : EndOf(v.history, t) = row.status
    BY <1>3, <1>4
<1> QED BY <1>5 DEF v

\* Routing statements write no transition.
LEMMA RoutingWritesNoTransition ==
    ASSUME NEW w \in WriteSet, NEW row \in Rows, NEW c
    PROVE  /\ updateOutcome(w, row, c).history = w.history
           /\ updateOutcome(w, row, c).order = w.order
           /\ insertPendingEvent(w, row).history = w.history
           /\ insertPendingEvent(w, row).order = w.order
           /\ insertDeadLetterEvent(w, row).history = w.history
           /\ insertDeadLetterEvent(w, row).order = w.order
           /\ deletePending(w, row).history = w.history
           /\ deletePending(w, row).order = w.order
BY DEF updateOutcome, insertPendingEvent, insertDeadLetterEvent, deletePending, WriteSet

\* BEGIN, the early returns, the lock and the INSERT.
LEMMA OpeningSerial ==
    ASSUME SerialInv, TypeOK', NEW p \in Procs,
           \/ \E e \in Events : BeginTx(p, e)
           \/ ReturnEarly(p)
           \/ AcquireLock(p)
           \/ insertProcessedEvent(p)
    PROVE  SerialInv'
<1> USE DEF SerialInv
<1>1. Continuation(p)
    OBVIOUS
<1>2. ASSUME NEW e \in Events, BeginTx(p, e) PROVE SerialInv'
  <2>1. Continuation(p)' /\ ~InLock(p)'
      BY <1>1, <1>2, EmptySeq
      DEF BeginTx, Continuation, InLock, NoWrites, TypeOK
  <2> QED BY <1>2, <2>1, LocalStep DEF BeginTx, tables, TypeOK, Key
<1>3. CASE ReturnEarly(p)
  <2>1. Continuation(p)' /\ ~InLock(p)'
      BY <1>1, <1>3 DEF ReturnEarly, Continuation, InLock, NoWrites
  <2> QED BY <1>3, <2>1, LocalStep DEF ReturnEarly, tables, TypeOK, Key
<1>4. CASE AcquireLock(p)
  <2>1. /\ pc'[p] = "insert" /\ ws'[p] = NoWrites /\ pc[p] = "lock"
        /\ Key(p) \in DOMAIN lock
      BY <1>1, <1>4, InTransaction DEF AcquireLock, Continuation, TypeOK
  <2>2. Continuation(p)'
    <3>1. NoWrites.history = <<>> /\ NoWrites.order = NoOrder
        BY DEF NoWrites
    <3>2. ws'[p].history = <<>> /\ ws'[p].order = NoOrder
        BY <2>1, <3>1
    <3> QED BY <2>1, <3>2, EmptyChain DEF Continuation, InLock
  <2>3. lock'[Key(p)'] = p
      BY <1>4, <2>1 DEF AcquireLock, Key
  <2>4. ASSUME NEW q \in Procs \ {p}, InLock(q), lock[Key(q)] = q
        PROVE  lock'[Key(q)] = q
    <3>1. Key(q) \in DOMAIN lock /\ Key(q) # Key(p)
        BY <1>4, <2>4, InTransaction, FreeAssumption DEF AcquireLock, InLock, TypeOK
    <3> QED BY <1>4, <2>4, <3>1 DEF AcquireLock
  <2> QED BY <1>4, <2>2, <2>3, <2>4, LocalStep DEF AcquireLock, tables, TypeOK
<1>5. CASE insertProcessedEvent(p)
  <2>1. /\ pc[p] = "insert" /\ ws[p] = NoWrites /\ ev[p] \in Rows
      BY <1>1, <1>5, InTransaction DEF insertProcessedEvent, Continuation
  <2>2. /\ pc'[p] \in {"load", "commit"}
        /\ ws'[p].history = <<>> /\ ws'[p].order = NoOrder
    <3>1. NoWrites.history = <<>> /\ NoWrites.order = NoOrder
        BY DEF NoWrites
    <3>2. /\ updateOutcome(NoWrites, ev[p], "RECEIVED").history = <<>>
          /\ updateOutcome(NoWrites, ev[p], "RECEIVED").order = NoOrder
        BY <2>1, <3>1, NoWritesType, RoutingWritesNoTransition
    <3>3. \/ ws'[p] = NoWrites /\ pc'[p] = "commit"
          \/ ws'[p] = updateOutcome(NoWrites, ev[p], "RECEIVED") /\ pc'[p] = "load"
        BY <1>5, <2>1 DEF insertProcessedEvent, TypeOK
    <3> QED BY <3>1, <3>2, <3>3
  <2>3. Continuation(p)'
      BY <2>2, EmptyChain DEF Continuation, InLock
  <2>4. lock'[Key(p)'] = p
      BY <1>5, <2>1 DEF insertProcessedEvent, Key, LockHeld, InLock
  <2> QED BY <1>5, <2>3, <2>4, LocalStep DEF insertProcessedEvent, tables, TypeOK
<1> QED BY <1>2, <1>3, <1>4, <1>5

\* The SELECT and the four classifications.
LEMMA ClassifySerial ==
    ASSUME SerialInv, TypeOK', NEW p \in Procs,
           \/ loadCurrentStatus(p)
           \/ Apply(p) \/ SkipDuplicateStatus(p) \/ Defer(p) \/ Reject(p)
    PROVE  SerialInv'
<1> USE DEF SerialInv
<1>1. /\ pc[p] \in {"load", "classify"}
      /\ UNCHANGED <<orders, history, lock, ev>>
      /\ \A q \in Procs \ {p} : pc'[q] = pc[q] /\ ws'[q] = ws[q] /\ cur'[q] = cur[q]
    BY DEF loadCurrentStatus, Apply, SkipDuplicateStatus, Defer, Reject, Route, tables, TypeOK
<1>2. /\ ws[p].history = <<>> /\ ws[p].order = NoOrder
      /\ pc[p] = "classify" => cur[p] = Committed(p)
      /\ lock[Key(p)] = p
      /\ ws[p] \in WriteSet /\ ev[p] \in Rows /\ cur[p] \in Status \cup {NoStatus}
    BY <1>1, InTransaction DEF Continuation, LockHeld, InLock, TypeOK
<1>3. Committed(p)' = Committed(p) /\ Key(p)' = Key(p)
    BY <1>1 DEF Committed, Key
<1>4. Continuation(p)'
  <2>1. CASE loadCurrentStatus(p)
    <3>1. pc'[p] = "classify" /\ cur'[p] = Committed(p) /\ ws'[p] = ws[p]
        BY <2>1 DEF loadCurrentStatus, Committed, TypeOK
    <3> QED BY <1>2, <1>3, <3>1 DEF Continuation, InLock, LegalChain
  <2>2. CASE Apply(p)
    <3>1. /\ pc'[p] = "replay" /\ cur'[p] = ev[p].status
          /\ ws'[p] = applyEvent(ws[p], ev[p], cur[p])
          /\ EvaluateTransition(cur[p], ev[p].status) = "APPLIED"
          /\ cur[p] = Committed(p)
        BY <1>2, <2>2 DEF Apply, Route, TypeOK
    <3>2. LegalChain(ws[p].history, Committed(p)) /\ cur[p] = EndOf(ws[p].history, Committed(p))
        BY <1>2, <3>1 DEF LegalChain, EndOf
    <3> DEFINE v == applyEvent(ws[p], ev[p], cur[p])
    <3>3. /\ LegalChain(v.history, Committed(p))
          /\ v.history # <<>>
          /\ v.order.status = ev[p].status
          /\ \A t : EndOf(v.history, t) = ev[p].status
        BY <1>2, <3>1, <3>2, ApplyContinues
    <3>4. ws'[p] = v
        BY <3>1
    <3> HIDE DEF v
    <3> QED BY <1>3, <3>1, <3>3, <3>4 DEF Continuation, InLock
  <2>3. CASE SkipDuplicateStatus(p) \/ Defer(p) \/ Reject(p)
    <3>1. pc'[p] = "commit" /\ ws'[p].history = <<>> /\ ws'[p].order = NoOrder
      <4>1. /\ pc'[p] = "commit"
            /\ \/ ws'[p] = updateOutcome(ws[p], ev[p], "DUPLICATE_STATUS")
               \/ ws'[p] = insertPendingEvent(ws[p], ev[p])
               \/ ws'[p] = insertDeadLetterEvent(ws[p], ev[p])
          BY <2>3 DEF SkipDuplicateStatus, Defer, Reject, Route, TypeOK
      <4> QED BY <1>2, <4>1, RoutingWritesNoTransition
    <3> QED BY <3>1, EmptyChain DEF Continuation, InLock
  <2> QED BY <2>1, <2>2, <2>3
<1> QED BY <1>1, <1>2, <1>3, <1>4, LocalStep

\* The replay loop.
LEMMA ReplaySerial ==
    ASSUME SerialInv, TypeOK', NEW p \in Procs,
           ReplayApply(p) \/ ReplaySkip(p) \/ ReplayReject(p) \/ ReplayDone(p)
    PROVE  SerialInv'
<1> USE DEF SerialInv
<1>1. /\ pc[p] = "replay"
      /\ UNCHANGED <<orders, history, lock, ev>>
      /\ \A q \in Procs \ {p} : pc'[q] = pc[q] /\ ws'[q] = ws[q] /\ cur'[q] = cur[q]
    BY DEF ReplayApply, ReplaySkip, ReplayReject, ReplayDone, ReplayRow, tables, TypeOK
<1>2. /\ LegalChain(ws[p].history, Committed(p))
      /\ ws[p].history # <<>>
      /\ cur[p] = ws[p].order.status
      /\ ws[p].order.status = EndOf(ws[p].history, NoStatus)
      /\ lock[Key(p)] = p
      /\ ws[p] \in WriteSet /\ PendingView(p) \subseteq Rows
      /\ cur[p] \in Status \cup {NoStatus}
    BY <1>1, InTransaction DEF Continuation, LockHeld, InLock, TypeOK
<1>3. Committed(p)' = Committed(p) /\ Key(p)' = Key(p)
    BY <1>1 DEF Committed, Key
<1>4. Continuation(p)'
  <2>1. CASE ReplayApply(p)
    <3>1. PICK row \in PendingView(p) :
            /\ EvaluateTransition(cur[p], row.status) = "APPLIED"
            /\ ws'[p] = deletePending(applyEvent(ws[p], row, cur[p]), row)
            /\ cur'[p] = row.status
            /\ pc'[p] = "replay"
        BY <1>1, <2>1 DEF ReplayApply, ReplayRow, TypeOK
    <3> DEFINE v == applyEvent(ws[p], row, cur[p])
    <3>2. row \in Rows /\ cur[p] = EndOf(ws[p].history, Committed(p))
        BY <1>2 DEF EndOf
    <3>3. /\ LegalChain(v.history, Committed(p))
          /\ v.history # <<>>
          /\ v.order.status = row.status
          /\ \A t : EndOf(v.history, t) = row.status
        BY <1>2, <3>1, <3>2, ApplyContinues
    <3>4. v \in WriteSet
        BY <1>2, <3>2, StatementType DEF Outcome
    <3> HIDE DEF v
    <3>5. ws'[p].history = v.history /\ ws'[p].order = v.order
        BY <3>1, <3>2, <3>4, RoutingWritesNoTransition DEF v
    <3> QED BY <1>3, <3>1, <3>3, <3>5 DEF Continuation, InLock
  <2>2. CASE ReplaySkip(p) \/ ReplayReject(p)
    <3>1. PICK row \in PendingView(p) :
            /\ \/ ws'[p] = deletePending(updateOutcome(ws[p], row, "DUPLICATE_STATUS"), row)
               \/ ws'[p] = deletePending(insertDeadLetterEvent(ws[p], row), row)
            /\ cur'[p] = cur[p]
            /\ pc'[p] = "replay"
        BY <1>1, <2>2 DEF ReplaySkip, ReplayReject, ReplayRow, TypeOK
    <3>2. row \in Rows
        BY <1>2
    <3>3. /\ updateOutcome(ws[p], row, "DUPLICATE_STATUS") \in WriteSet
          /\ insertDeadLetterEvent(ws[p], row) \in WriteSet
        BY <1>2, <3>2, StatementType DEF Outcome, Classification
    <3>4. ws'[p].history = ws[p].history /\ ws'[p].order = ws[p].order
        BY <1>2, <3>1, <3>2, <3>3, RoutingWritesNoTransition
    <3> QED BY <1>2, <1>3, <3>1, <3>4 DEF Continuation, InLock
  <2>3. CASE ReplayDone(p)
    <3>1. pc'[p] = "commit" /\ ws'[p] = ws[p]
        BY <2>3 DEF ReplayDone, TypeOK
    <3> QED BY <1>2, <1>3, <3>1 DEF Continuation, InLock
  <2> QED BY <2>1, <2>2, <2>3
<1> QED BY <1>1, <1>2, <1>3, <1>4, LocalStep

\* ROLLBACK: p's lock, and only p's, is released.
LEMMA RollbackSerial ==
    ASSUME SerialInv, TypeOK', NEW p \in Procs, Rollback(p)
    PROVE  SerialInv'
<1> USE DEF SerialInv
<1>1. /\ pc'[p] = "idle" /\ ws'[p] = NoWrites
      /\ UNCHANGED <<orders, history, ev, cur>>
      /\ \A q \in Procs \ {p} : pc'[q] = pc[q] /\ ws'[q] = ws[q]
      /\ lock' = [k \in DOMAIN lock |-> IF lock[k] = p THEN Free ELSE lock[k]]
    BY DEF Rollback, EndTx, tables, TypeOK
<1>2. Continuation(p)' /\ ~InLock(p)'
  <2>1. NoWrites.history = <<>> /\ NoWrites.order = NoOrder
      BY DEF NoWrites
  <2> QED BY <1>1, <2>1 DEF Continuation, InLock
<1>3. ASSUME NEW q \in Procs \ {p}, InLock(q), lock[Key(q)] = q
      PROVE  lock'[Key(q)] = q
  <2>1. Key(q) \in DOMAIN lock
      BY <1>3, InTransaction DEF InLock, TypeOK
  <2> QED BY <1>1, <1>3, <2>1
<1> QED BY <1>1, <1>2, <1>3, LocalStep

\* COMMIT: nobody else is inside the lock of p's order, so nobody's view of it
\* changes, and p's chain continues the committed history.
LEMMA CommitSerial ==
    ASSUME SerialInv, TypeOK', NEW p \in Procs, Commit(p)
    PROVE  SerialInv'
<1> USE DEF SerialInv
<1> DEFINE o == ev[p].order
<1>1. /\ pc[p] = "commit"
      /\ pc'[p] = "idle" /\ ws'[p] = NoWrites
      /\ UNCHANGED <<ev, cur>>
      /\ \A q \in Procs \ {p} : pc'[q] = pc[q] /\ ws'[q] = ws[q]
      /\ lock' = [k \in DOMAIN lock |-> IF lock[k] = p THEN Free ELSE lock[k]]
      /\ orders' = [orders EXCEPT ![o] = IF ws[p].order = NoOrder THEN @ ELSE ws[p].order]
      /\ history' = [history EXCEPT ![o] = @ \o ws[p].history]
    BY DEF Commit, EndTx, MakeVisible, TypeOK
<1>2. /\ o \in Orders /\ ws[p] \in WriteSet
      /\ lock[Key(p)] = p
      /\ LegalChain(ws[p].history, orders[o].status)
      /\ ws[p].history = <<>> => ws[p].order = NoOrder
      /\ ws[p].history # <<>> => ws[p].order.status = EndOf(ws[p].history, NoStatus)
    BY <1>1, InTransaction DEF Continuation, Committed, LockHeld, InLock
<1> HIDE DEF o
<1>3. Continuation(p)' /\ ~InLock(p)'
  <2>1. NoWrites.history = <<>> /\ NoWrites.order = NoOrder
      BY DEF NoWrites
  <2> QED BY <1>1, <2>1 DEF Continuation, InLock
<1>4. ASSUME NEW q \in Procs \ {p}, InLock(q)
      PROVE  lock'[Key(q)'] = q /\ Committed(q)' = Committed(q)
  <2>1. Key(q) \in DOMAIN lock /\ lock[Key(q)] = q /\ ev[q].order \in Orders
      BY <1>4, InTransaction DEF InLock, LockHeld, TypeOK
  <2>2. ev[q].order # o
      BY <1>2, <2>1 DEF Key, o
  <2>3. lock'[Key(q)'] = q
      BY <1>1, <2>1 DEF Key
  <2>4. orders'[ev'[q].order] = orders[ev[q].order]
      BY <1>1, <1>2, <2>1, <2>2 DEF TypeOK
  <2> QED BY <2>3, <2>4 DEF Committed
<1>5. LockHeld'
    BY <1>1, <1>3, <1>4 DEF LockHeld, InLock
<1>6. \A q \in Procs \ {p} : Continuation(q)'
    BY <1>1, <1>4, ContinuationFrame
<1>7. HistoryIsLifecycle'
  <2> SUFFICES ASSUME NEW x \in Orders
               PROVE  /\ LegalChain(history'[x], NoStatus)
                      /\ orders'[x].status = EndOf(history'[x], NoStatus)
      BY DEF HistoryIsLifecycle
  <2>1. /\ LegalChain(history[x], NoStatus)
        /\ orders[x].status = EndOf(history[x], NoStatus)
      BY DEF HistoryIsLifecycle
  <2>2. CASE x # o
      BY <1>1, <2>1, <2>2 DEF TypeOK
  <2>3. CASE x = o /\ ws[p].history = <<>>
    <3>1. history'[x] = history[x]
      <4>1. history[x] \in Seq(HistoryRow) /\ history'[x] = history[x] \o ws[p].history
          BY <1>1, <2>3 DEF TypeOK
      <4>2. history[x] \o <<>> = history[x]
          BY <4>1, ConcatEmptySeq
      <4> QED BY <2>3, <4>1, <4>2
    <3>2. orders'[x] = orders[x]
        BY <1>1, <1>2, <2>3 DEF TypeOK
    <3> QED BY <2>1, <3>1, <3>2
  <2>4. CASE x = o /\ ws[p].history # <<>>
    <3>1. /\ history[x] \in Seq(HistoryRow)
          /\ ws[p].history \in Seq(HistoryRow)
          /\ history'[x] = history[x] \o ws[p].history
        BY <1>1, <1>2, <2>4 DEF TypeOK, WriteSet
    <3>2. /\ LegalChain(history'[x], NoStatus)
          /\ EndOf(history'[x], NoStatus) = EndOf(ws[p].history, NoStatus)
        BY <1>2, <2>1, <2>4, <3>1, ChainConcat
    <3>3. ws[p].order # NoOrder
      <4>1. Len(ws[p].history) \in 1..Len(ws[p].history)
          BY <2>4, <3>1, EmptySeq
      <4>2. ws[p].history[Len(ws[p].history)] \in HistoryRow
          BY <3>1, <4>1, ElementOfSeq
      <4>3. ws[p].order.status \in Status
          BY <1>2, <2>4, <4>2 DEF EndOf, HistoryRow
      <4>4. NoOrder.status \notin Status
          BY DEF NoOrder, NoStatus, Status
      <4> QED BY <4>3, <4>4
    <3>4. orders'[x] = ws[p].order
        BY <1>1, <2>4, <3>3 DEF TypeOK
    <3> QED BY <1>2, <2>4, <3>2, <3>4
  <2> QED BY <2>2, <2>3, <2>4
<1> QED BY <1>3, <1>5, <1>6, <1>7

\* The empty database is serial.
LEMMA InitSerial == Init => SerialInv
<1> SUFFICES ASSUME Init PROVE SerialInv
    OBVIOUS
<1>1. TypeOK
    BY InitType
<1>2. LockHeld
    BY DEF Init, LockHeld, InLock
<1>3. \A p \in Procs : Continuation(p)
  <2>1. NoWrites.history = <<>> /\ NoWrites.order = NoOrder
      BY DEF NoWrites
  <2> QED BY <2>1 DEF Init, Continuation, InLock
<1>4. HistoryIsLifecycle
    BY EmptyChain DEF Init, HistoryIsLifecycle, EndOf, NoOrder
<1> QED BY <1>1, <1>2, <1>3, <1>4 DEF SerialInv

\* Every step of every caller keeps the inductive invariant.
LEMMA NextSerial == SerialInv /\ [Next]_vars => SerialInv'
<1> SUFFICES ASSUME SerialInv, [Next]_vars PROVE SerialInv'
    OBVIOUS
<1>1. TypeOK'
    BY NextType DEF SerialInv
<1>2. ASSUME NEW p \in Procs,
             \/ \E e \in Events : BeginTx(p, e) \/ RefuseEvent(p, e) \/ BeginFails(p, e)
             \/ AcquireLock(p)
             \/ insertProcessedEvent(p)
      PROVE  SerialInv'
    BY <1>1, <1>2, OpeningSerial DEF RefuseEvent, BeginFails
<1>3. ASSUME NEW p \in Procs, Statement(p) PROVE SerialInv'
    BY <1>1, <1>3, ClassifySerial, ReplaySerial, CommitSerial DEF Statement, TxBody
<1>4. ASSUME NEW p \in Procs, Rollback(p) PROVE SerialInv'
    BY <1>1, <1>4, RollbackSerial
<1>5. CASE UNCHANGED vars
  <2>1. UNCHANGED <<orders, history, lock, pc, ev, cur, ws>>
      BY <1>5 DEF vars, tables, locals
  <2>2. LockHeld' /\ HistoryIsLifecycle'
      BY <2>1 DEF SerialInv, LockHeld, HistoryIsLifecycle, InLock, Key
  <2>3. \A p \in Procs : Continuation(p)'
      BY <2>1, ContinuationFrame DEF SerialInv, Committed
  <2> QED BY <1>1, <2>2, <2>3 DEF SerialInv
<1> QED BY <1>2, <1>3, <1>4, <1>5 DEF Next

\* Between reading an order's status and committing to it, no caller's view of
\* the order goes stale: the advisory lock serializes the transactions of an
\* order even while the order has no row to lock.
THEOREM RepositoryNeverWritesStale == Spec => []NoStaleWrite
<1>1. SerialInv => NoStaleWrite
  <2> SUFFICES ASSUME SerialInv, NEW p \in Procs
               PROVE  /\ pc[p] = "classify" => cur[p] = Committed(p)
                      /\ ws[p].history # <<>> => ws[p].history[1].from = Committed(p)
      BY DEF NoStaleWrite, Committed
  <2>1. pc[p] = "classify" => cur[p] = Committed(p)
      BY DEF SerialInv, Continuation
  <2>2. ASSUME ws[p].history # <<>> PROVE ws[p].history[1].from = Committed(p)
    <3>1. InLock(p)
      <4>1. NoWrites.history = <<>>
          BY DEF NoWrites
      <4> QED BY <2>2, <4>1 DEF SerialInv, Continuation, InLock, TypeOK, Steps
    <3>2. LegalChain(ws[p].history, Committed(p)) /\ ws[p].history \in Seq(HistoryRow)
        BY <3>1 DEF SerialInv, Continuation, TypeOK, WriteSet
    <3>3. 1 \in 1..Len(ws[p].history)
        BY <2>2, <3>2, EmptySeq
    <3> QED BY <3>2, <3>3 DEF LegalChain
  <2> QED BY <2>1, <2>2
<1> QED BY InitSerial, NextSerial, <1>1, PTL DEF Spec

\* The committed history of every order is one legal lifecycle that ends in
\* the order's current status.
THEOREM RepositoryKeepsLifecycle == Spec => []HistoryIsLifecycle
<1>1. SerialInv => HistoryIsLifecycle
    BY DEF SerialInv
<1> QED BY InitSerial, NextSerial, <1>1, PTL DEF Spec
=============================================================================
