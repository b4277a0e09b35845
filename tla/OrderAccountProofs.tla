------------------------ MODULE OrderAccountProofs ------------------------
(***************************************************************************)
(* The repository's books, for every set of callers, orders and events:    *)
(* every committed event is accounted for once and for good, success is    *)
(* durable, and the protocol implements OrderLedger.                       *)
(*                                                                         *)
(* None of this is inductive.  What is committed was first an open write   *)
(* set, so the write sets must be accounted for in the same way            *)
(* (Accounts), and because two callers may work under one event_id for     *)
(* different orders, whose locks differ, no event_id may be written by two *)
(* open transactions (Exclusive): the primary key sees to it for an event  *)
(* that is new, the lock of the order for one that is replayed.            *)
(*                                                                         *)
(* Last, when no shipment sorts before the payment of its order, the       *)
(* replay loop leaves nothing deferred whose turn has come (ReplayInv).    *)
(***************************************************************************)
EXTENDS OrderRepositoryProofs

Settled == {"APPLIED", "DUPLICATE_STATUS", "INVALID_TRANSITION"}

\* Event i is one of the rows of h.
HasId(h, i) == \E n \in 1..Len(h) : h[n].id = i

\* The processed_events rows are complete, and history rows agree with them.
Booked ==
    /\ \A i \in EventIDs :
          /\ processed[i].outcome = "" <=> processed[i] = NotProcessed
          /\ processed[i] # NotProcessed =>
                processed[i].row \in Rows /\ processed[i].row.id = i
    /\ \A o \in Orders : \A n \in 1..Len(history[o]) :
          /\ processed[history[o][n].id].row.order = o
          /\ processed[history[o][n].id].row.status = history[o][n].to

\* The event p's transaction records under identifier i.
Recorded(p, i) == IF i = ev[p].id THEN ev[p] ELSE processed[i].row

\* The writes of an open transaction.  Every outcome has its history row or its
\* dead letter.
Placed(p) ==
    \A i \in EventIDs :
        /\ ws[p].outcome[i] = "APPLIED" <=> HasId(ws[p].history, i)
        /\ ws[p].dead[i] = IF ws[p].outcome[i] = "INVALID_TRANSITION" THEN 1 ELSE 0

\* The event it is about is new, every other one is a deferred event ...
Fresh(p) ==
    \A i \in EventIDs :
        /\ i = ev[p].id /\ ws[p].outcome[i] # "" => processed[i] = NotProcessed
        /\ i # ev[p].id /\ ws[p].outcome[i] # "" =>
              /\ processed[i].outcome = "OUT_OF_ORDER"
              /\ processed[i].row \in ws[p].settle

\* ... of the same order, which it settles.
Settles(p) ==
    \A r \in ws[p].settle :
        /\ r \in pending
        /\ r.order = ev[p].order
        /\ ws[p].outcome[r.id] \in Settled

\* It defers no event but its own.
Defers(p) ==
    ws[p].defer = IF ws[p].outcome[ev[p].id] = "OUT_OF_ORDER" THEN {ev[p]} ELSE {}

Writes(p) == Placed(p) /\ Fresh(p) /\ Settles(p) /\ Defers(p)

\* The transitions among the writes: no event comes twice, ...
NoRepeats(p) ==
    \A m, n \in 1..Len(ws[p].history) : ws[p].history[m].id = ws[p].history[n].id => m = n

\* ... each leads to the status its event asks for, ...
Truthful(p) ==
    \A n \in 1..Len(ws[p].history) :
        ws[p].history[n].to = Recorded(p, ws[p].history[n].id).status

\* ... the new event comes first, and nothing is settled before it ...
StartsAnew(p) ==
    /\ ws[p].history # <<>> => ws[p].history[1].id = ev[p].id
    /\ ws[p].history = <<>> => ws[p].settle = {}

\* ... and what a replay did not apply it judged by a status the order passed.
Judged(p) ==
    \A r \in ws[p].settle :
        \/ ws[p].outcome[r.id] = "APPLIED"
        \/ \E n \in 1..Len(ws[p].history) :
              ws[p].outcome[r.id] = EvaluateTransition(ws[p].history[n].to, r.status)

Trail(p) == NoRepeats(p) /\ Truthful(p) /\ StartsAnew(p) /\ Judged(p)

\* Where the transaction stands: what it will commit, and what it will return.
Standing(p) ==
    /\ pc[p] = "insert" => ws[p] = NoWrites
    /\ pc[p] \in {"load", "classify"} => ws[p].outcome[ev[p].id] = "RECEIVED"
    /\ pc[p] = "replay" => /\ ws[p].outcome[ev[p].id] = "APPLIED"
                           /\ result[p].class # "DUPLICATE_EVENT"
    /\ pc[p] = "commit" =>
          \/ /\ result[p].class = "DUPLICATE_EVENT"
             /\ ws[p] = NoWrites
             /\ processed[ev[p].id] # NotProcessed
          \/ /\ result[p].class # "DUPLICATE_EVENT"
             /\ ws[p].outcome[ev[p].id] =
                    EvaluateTransition(Committed(p), ev[p].status)

Accounts(p) ==
    /\ InLock(p) => Writes(p) /\ Trail(p) /\ Standing(p)
    /\ pc[p] # "idle" => result[p].status = "none"

\* No event_id is written by two open transactions.
Exclusive ==
    \A p, q \in Procs, i \in EventIDs :
        ws[p].outcome[i] # "" /\ ws[q].outcome[i] # "" => p = q

\* Success was reported for an event that was stored.
Answered == \A p \in Procs : result[p].status = "ok" => ev[p] \in Rows

AccountInv == /\ SerialInv
              /\ EventAccountedOnce
              /\ SuccessIsDurable
              /\ Booked
              /\ \A p \in Procs : Accounts(p)
              /\ Exclusive
              /\ Answered

-----------------------------------------------------------------------------
(* The statements and their write sets                                     *)

\* What each statement changes of a write set: updateOutcome, ...
LEMMA OutcomeFields ==
    ASSUME NEW w \in WriteSet, NEW row \in Rows, NEW c
    PROVE  /\ \A i \in EventIDs :
                 updateOutcome(w, row, c).outcome[i] = IF i = row.id THEN c ELSE w.outcome[i]
           /\ updateOutcome(w, row, c).history = w.history
           /\ updateOutcome(w, row, c).defer = w.defer
           /\ updateOutcome(w, row, c).settle = w.settle
           /\ updateOutcome(w, row, c).dead = w.dead
BY DEF updateOutcome, WriteSet

\* ... applyEvent, ...
LEMMA ApplyFields ==
    ASSUME NEW w \in WriteSet, NEW row \in Rows, NEW from \in Status \cup {NoStatus}
    PROVE  /\ \A i \in EventIDs :
                 applyEvent(w, row, from).outcome[i] =
                     IF i = row.id THEN "APPLIED" ELSE w.outcome[i]
           /\ applyEvent(w, row, from).defer = w.defer
           /\ applyEvent(w, row, from).settle = w.settle
           /\ applyEvent(w, row, from).dead = w.dead
BY DEF applyEvent, updateOutcome, WriteSet

\* ... which also appends a history row, ...
LEMMA ApplyHistory ==
    ASSUME NEW w \in WriteSet, NEW row \in Rows, NEW from \in Status \cup {NoStatus}
    PROVE  applyEvent(w, row, from).history =
               Append(w.history, [id |-> row.id, from |-> from, to |-> row.status, ts |-> row.ts])
BY DEF applyEvent, updateOutcome, WriteSet

\* ... insertPendingEvent, ...
LEMMA DeferFields ==
    ASSUME NEW w \in WriteSet, NEW row \in Rows
    PROVE  /\ \A i \in EventIDs :
                 insertPendingEvent(w, row).outcome[i] =
                     IF i = row.id THEN "OUT_OF_ORDER" ELSE w.outcome[i]
           /\ insertPendingEvent(w, row).history = w.history
           /\ insertPendingEvent(w, row).defer = w.defer \cup {row}
           /\ insertPendingEvent(w, row).settle = w.settle
           /\ insertPendingEvent(w, row).dead = w.dead
BY DEF insertPendingEvent, updateOutcome, WriteSet

\* ... insertDeadLetterEvent ...
LEMMA RejectFields ==
    ASSUME NEW w \in WriteSet, NEW row \in Rows
    PROVE  /\ \A i \in EventIDs :
                 insertDeadLetterEvent(w, row).outcome[i] =
                     IF i = row.id THEN "INVALID_TRANSITION" ELSE w.outcome[i]
           /\ insertDeadLetterEvent(w, row).history = w.history
           /\ insertDeadLetterEvent(w, row).defer = w.defer
           /\ insertDeadLetterEvent(w, row).settle = w.settle
           /\ \A i \in EventIDs :
                 insertDeadLetterEvent(w, row).dead[i] =
                     IF i = row.id THEN w.dead[i] + 1 ELSE w.dead[i]
BY DEF insertDeadLetterEvent, updateOutcome, WriteSet

\* ... and deletePending.
LEMMA SettleFields ==
    ASSUME NEW w \in WriteSet, NEW row \in Rows
    PROVE  /\ deletePending(w, row).outcome = w.outcome
           /\ deletePending(w, row).history = w.history
           /\ deletePending(w, row).defer = w.defer
           /\ deletePending(w, row).settle = w.settle \cup {row}
           /\ deletePending(w, row).dead = w.dead
BY DEF deletePending, WriteSet

\* The fields of an empty write set.
LEMMA NoWritesFields ==
    /\ NoWrites.outcome = [i \in EventIDs |-> ""]
    /\ NoWrites.history = <<>> /\ NoWrites.defer = {} /\ NoWrites.settle = {}
    /\ NoWrites.dead = [i \in EventIDs |-> 0]
BY DEF NoWrites

\* Two transactions past their lock statement are about different orders.
LEMMA OtherOrder ==
    ASSUME SerialInv, NEW p \in Procs, NEW q \in Procs, p # q, InLock(p), InLock(q)
    PROVE  ev[p].order # ev[q].order
BY DEF SerialInv, LockHeld, Key

\* A transaction that is not past its lock statement has written nothing.
LEMMA OutsideLock ==
    ASSUME SerialInv, NEW p \in Procs
    PROVE  /\ ~InLock(p) => ws[p] = NoWrites
           /\ \A i \in EventIDs : ws[p].outcome[i] # "" => InLock(p)
<1>1. ~InLock(p) => ws[p] = NoWrites
    BY DEF SerialInv, Continuation, InLock, TypeOK, Steps
<1> QED BY <1>1, NoWritesFields

\* The identifiers in a transaction's history are event identifiers.
LEMMA HistoryIds ==
    ASSUME NEW h \in Seq(HistoryRow), NEW n \in 1..Len(h)
    PROVE  h[n].id \in EventIDs /\ h[n] \in HistoryRow
<1>1. h[n] \in HistoryRow
    BY ElementOfSeq
<1> QED BY <1>1 DEF HistoryRow

\* A step that leaves the write set and the rows of the events in it alone ...
LEMMA WritesFrame ==
    ASSUME NEW q \in Procs, Writes(q),
           ws'[q] = ws[q], ev'[q] = ev[q],
           \A i \in EventIDs : ws[q].outcome[i] # "" => processed'[i] = processed[i],
           \A r \in ws[q].settle : r \in pending'
    PROVE  Writes(q)'
<1>1. Placed(q)'
    BY DEF Writes, Placed
<1>2. Fresh(q)'
    BY DEF Writes, Fresh
<1>3. Settles(q)'
    BY DEF Writes, Settles
<1>4. Defers(q)'
    BY DEF Writes, Defers
<1> QED BY <1>1, <1>2, <1>3, <1>4 DEF Writes

\* ... leaves its account as it is.
LEMMA TrailFrame ==
    ASSUME NEW q \in Procs, Trail(q),
           ws'[q] = ws[q], ev'[q] = ev[q],
           \A n \in 1..Len(ws[q].history) :
               Recorded(q, ws[q].history[n].id)' = Recorded(q, ws[q].history[n].id)
    PROVE  Trail(q)'
<1>1. NoRepeats(q)'
    BY DEF Trail, NoRepeats
<1>2. Truthful(q)'
    BY DEF Trail, Truthful
<1>3. StartsAnew(q)'
    BY DEF Trail, StartsAnew
<1>4. Judged(q)'
    BY DEF Trail, Judged
<1> QED BY <1>1, <1>2, <1>3, <1>4 DEF Trail

\* A transaction stays accounted for when the rest of the database changes, but
\* neither its order nor the rows of the events it has written.
LEMMA AccountsFrame ==
    ASSUME TypeOK, NEW q \in Procs, Accounts(q),
           pc'[q] = pc[q], ws'[q] = ws[q], ev'[q] = ev[q], result'[q] = result[q],
           InLock(q) =>
             /\ Committed(q)' = Committed(q)
             /\ \A i \in EventIDs : ws[q].outcome[i] # "" => processed'[i] = processed[i]
             /\ processed[ev[q].id] # NotProcessed => processed'[ev[q].id] # NotProcessed
             /\ \A r \in ws[q].settle : r \in pending'
    PROVE  Accounts(q)'
<1> SUFFICES ASSUME InLock(q) PROVE Writes(q)' /\ Trail(q)' /\ Standing(q)'
    BY DEF Accounts, InLock
<1>1. Writes(q) /\ Trail(q) /\ Standing(q)
    BY DEF Accounts
<1>2. ws[q] \in WriteSet
    BY InTransaction DEF InLock
<1>3. Writes(q)'
    BY <1>1, WritesFrame
<1>4. \A n \in 1..Len(ws[q].history) :
         Recorded(q, ws[q].history[n].id)' = Recorded(q, ws[q].history[n].id)
  <2> SUFFICES ASSUME NEW n \in 1..Len(ws[q].history)
               PROVE  Recorded(q, ws[q].history[n].id)' = Recorded(q, ws[q].history[n].id)
      OBVIOUS
  <2>1. ws[q].history[n].id \in EventIDs
      BY <1>2, HistoryIds DEF WriteSet
  <2>2. ws[q].outcome[ws[q].history[n].id] = "APPLIED"
      BY <1>1, <2>1 DEF Writes, Placed, HasId
  <2>3. processed'[ws[q].history[n].id] = processed[ws[q].history[n].id]
      BY <2>1, <2>2
  <2> QED BY <2>3 DEF Recorded
<1>5. Trail(q)'
    BY <1>1, <1>4, TrailFrame
<1>6. Standing(q)'
    BY <1>1 DEF Standing
<1> QED BY <1>3, <1>5, <1>6

\* What is committed stays accounted for while nothing is committed.
LEMMA BooksFrame ==
    ASSUME UNCHANGED <<processed, history, pending, deadLetters>>
    PROVE  /\ EventAccountedOnce => EventAccountedOnce'
           /\ Booked => Booked'
<1>1. EventAccountedOnce => EventAccountedOnce'
    BY DEF EventAccountedOnce
<1>2. Booked => Booked'
    BY DEF Booked
<1> QED BY <1>1, <1>2

\* A step that commits nothing: only p's own transaction is to be looked at.
LEMMA LocalAccount ==
    ASSUME AccountInv, SerialInv', NEW p \in Procs,
           UNCHANGED tables,
           \A q \in Procs \ {p} : /\ pc'[q] = pc[q] /\ ws'[q] = ws[q]
                                  /\ ev'[q] = ev[q] /\ result'[q] = result[q],
           result'[p].status # "ok",
           \A q \in Procs \ {p}, i \in EventIDs :
              ws'[p].outcome[i] # "" => ws[q].outcome[i] = "",
           Accounts(p)'
    PROVE  AccountInv'
<1>1. UNCHANGED <<orders, processed, history, pending, deadLetters>>
    BY DEF tables
<1>2. EventAccountedOnce' /\ Booked'
    BY <1>1, BooksFrame DEF AccountInv
<1>3. SuccessIsDurable'
    BY <1>1 DEF SuccessIsDurable, AccountInv
<1>4. \A q \in Procs \ {p} : Accounts(q)'
  <2> SUFFICES ASSUME NEW q \in Procs \ {p} PROVE Accounts(q)'
      OBVIOUS
  <2>1. Committed(q)' = Committed(q)
      BY <1>1 DEF Committed
  <2>2. Accounts(q) /\ TypeOK
      BY DEF AccountInv, SerialInv
  <2>3. InLock(q) => \A r \in ws[q].settle : r \in pending'
      BY <1>1, <2>2 DEF Accounts, Writes, Settles
  <2> QED BY <1>1, <2>1, <2>2, <2>3, AccountsFrame
<1>5. Exclusive'
  <2>1. Exclusive
      BY DEF AccountInv
  <2> SUFFICES ASSUME NEW q \in Procs, NEW r \in Procs, NEW i \in EventIDs,
                      ws'[q].outcome[i] # "", ws'[r].outcome[i] # ""
               PROVE  q = r
      BY DEF Exclusive
  <2>2. CASE q # p /\ r # p
    <3>1. ws'[q] = ws[q] /\ ws'[r] = ws[r]
        BY <2>2
    <3>2. ws[q].outcome[i] # "" /\ ws[r].outcome[i] # ""
        BY <3>1
    <3> QED BY <2>1, <3>2, Zenon DEF Exclusive
  <2>3. CASE q = p /\ r # p
    <3>1. ws'[r] = ws[r]
        BY <2>3
    <3> QED BY <2>3, <3>1
  <2>4. CASE q # p /\ r = p
    <3>1. ws'[q] = ws[q]
        BY <2>4
    <3> QED BY <2>4, <3>1
  <2> QED BY <2>2, <2>3, <2>4
<1>6. Answered'
    BY DEF AccountInv, Answered
<1> QED BY <1>2, <1>3, <1>4, <1>5, <1>6 DEF AccountInv

-----------------------------------------------------------------------------
(* Steps inside a transaction                                              *)

\* An empty history has no rows.
LEMMA EmptyLen == \A n : n \notin 1..Len(<<>>)
OBVIOUS

\* The first row of a table is one row.
LEMMA FirstRow == 0 + 1 = 1
OBVIOUS

\* One row has one index.
LEMMA OneIndex == 1 \in 1..1 /\ \A n \in 1..1 : n = 1
OBVIOUS

\* The first transition of a transaction is its only one.
LEMMA OneRow ==
    ASSUME NEW x
    PROVE  Len(Append(<<>>, x)) = 1 /\ Append(<<>>, x) # <<>> /\ Append(<<>>, x)[1] = x
OBVIOUS

\* A transaction without writes has nothing to account for.
LEMMA NoWritesAccounted ==
    ASSUME NEW p \in Procs, ws'[p] = NoWrites, ev'[p] \in Rows
    PROVE  Writes(p)' /\ Trail(p)'
<1>1. ev'[p].id \in EventIDs
    BY DEF Rows
<1>2. /\ ws'[p].outcome = [i \in EventIDs |-> ""]
      /\ ws'[p].history = <<>> /\ ws'[p].defer = {} /\ ws'[p].settle = {}
      /\ ws'[p].dead = [i \in EventIDs |-> 0]
    BY NoWritesFields
<1>3. Placed(p)'
  <2>1. \A i \in EventIDs : ~HasId(ws'[p].history, i)
      BY <1>2, EmptyLen DEF HasId
  <2> QED BY <1>2, <2>1 DEF Placed, HasId
<1>4. Fresh(p)'
    BY <1>2 DEF Fresh
<1>5. Settles(p)' /\ Judged(p)'
    BY <1>2 DEF Settles, Judged
<1>6. Defers(p)'
    BY <1>1, <1>2 DEF Defers
<1>7. NoRepeats(p)' /\ Truthful(p)' /\ StartsAnew(p)'
    BY <1>2, EmptyLen DEF NoRepeats, Truthful, StartsAnew
<1> QED BY <1>3, <1>4, <1>5, <1>6, <1>7 DEF Writes, Trail

\* BEGIN, the early returns and the lock: nothing is written.
LEMMA OpeningAccount ==
    ASSUME AccountInv, SerialInv', NEW p \in Procs,
           \/ \E e \in Events : BeginTx(p, e)
           \/ ReturnEarly(p)
           \/ AcquireLock(p)
    PROVE  AccountInv'
<1>1. /\ UNCHANGED <<tables, ws>>
      /\ pc[p] \in {"idle", "lock"} /\ pc'[p] \in {"idle", "lock", "insert"}
      /\ \A q \in Procs \ {p} : pc'[q] = pc[q] /\ ev'[q] = ev[q] /\ result'[q] = result[q]
      /\ pc'[p] = "idle" => result'[p].status # "ok"
      /\ pc'[p] # "idle" => result'[p].status = "none"
  <2>1. Accounts(p) /\ TypeOK
      BY DEF AccountInv, SerialInv
  <2>2. ASSUME NEW e \in Events, BeginTx(p, e) PROVE <1>1!:
      BY <2>1, <2>2 DEF BeginTx, TypeOK, NoResult
  <2>3. CASE ReturnEarly(p)
      BY <2>1, <2>3 DEF ReturnEarly, TypeOK, Failed
  <2>4. CASE AcquireLock(p)
      BY <2>1, <2>4 DEF AcquireLock, TypeOK, Accounts
  <2> QED BY <2>2, <2>3, <2>4
<1>2. ws[p] = NoWrites
    BY <1>1, OutsideLock DEF AccountInv, InLock
<1>3. Accounts(p)'
  <2>1. pc'[p] # "idle" => ev'[p] \in Rows
      BY DEF SerialInv, TypeOK
  <2>2. InLock(p)' => Writes(p)' /\ Trail(p)'
      BY <1>1, <1>2, <2>1, NoWritesAccounted DEF InLock
  <2>3. InLock(p)' => Standing(p)'
      BY <1>1, <1>2 DEF InLock, Standing
  <2> QED BY <1>1, <2>2, <2>3 DEF Accounts
<1>4. \A i \in EventIDs : ws'[p].outcome[i] = ""
    BY <1>1, <1>2, NoWritesFields
<1> QED BY <1>1, <1>3, <1>4, LocalAccount

\* INSERT ... ON CONFLICT DO NOTHING: the event_id is nobody else's.
LEMMA InsertAccount ==
    ASSUME AccountInv, SerialInv', NEW p \in Procs, insertProcessedEvent(p)
    PROVE  AccountInv'
<1>1. /\ pc[p] = "insert" /\ ws[p] = NoWrites /\ ev[p] \in Rows /\ ev[p].id \in EventIDs
      /\ result[p].status = "none" /\ TypeOK
      /\ UNCHANGED <<tables, ev>>
      /\ \A q \in Procs \ {p} : /\ pc'[q] = pc[q] /\ ws'[q] = ws[q]
                                /\ ev'[q] = ev[q] /\ result'[q] = result[q]
    BY InTransaction DEF AccountInv, SerialInv, Accounts, Standing, InLock,
                         insertProcessedEvent, TypeOK
<1>2. CASE processed[ev[p].id] # NotProcessed
  <2>1. /\ pc'[p] = "commit" /\ ws'[p] = NoWrites
        /\ result'[p].class = "DUPLICATE_EVENT" /\ result'[p].status = "none"
    <3>1. pc'[p] = "commit" /\ ws'[p] = NoWrites
        BY <1>1, <1>2 DEF insertProcessedEvent, TypeOK
    <3>2. result[p] \in Results /\ result'[p] = [result[p] EXCEPT !.class = "DUPLICATE_EVENT"]
        BY <1>1, <1>2 DEF insertProcessedEvent, TypeOK
    <3> QED BY <1>1, <3>1, <3>2 DEF Results
  <2>2. Writes(p)' /\ Trail(p)'
      BY <1>1, <2>1, NoWritesAccounted
  <2>3. Standing(p)'
      BY <1>1, <1>2, <2>1 DEF Standing, tables
  <2>4. \A i \in EventIDs : ws'[p].outcome[i] = ""
      BY <2>1, NoWritesFields
  <2> QED BY <1>1, <2>1, <2>2, <2>3, <2>4, LocalAccount DEF Accounts
<1>3. CASE processed[ev[p].id] = NotProcessed
  <2> DEFINE w == updateOutcome(NoWrites, ev[p], "RECEIVED")
  <2>1. /\ pc'[p] = "load" /\ ws'[p] = w /\ result'[p].status = "none"
      BY <1>1, <1>3 DEF insertProcessedEvent, TypeOK
  <2>2. /\ \A i \in EventIDs : w.outcome[i] = IF i = ev[p].id THEN "RECEIVED" ELSE ""
        /\ w.history = <<>> /\ w.defer = {} /\ w.settle = {}
        /\ w.dead = [i \in EventIDs |-> 0]
    <3>1. /\ \A i \in EventIDs :
                w.outcome[i] = IF i = ev[p].id THEN "RECEIVED" ELSE NoWrites.outcome[i]
          /\ w.history = NoWrites.history /\ w.defer = NoWrites.defer
          /\ w.settle = NoWrites.settle /\ w.dead = NoWrites.dead
        BY <1>1, OutcomeFields, NoWritesType
    <3> HIDE DEF w
    <3> QED BY <3>1, NoWritesFields
  <2> HIDE DEF w
  <2>4. Placed(p)'
      BY <2>1, <2>2, EmptyLen DEF Placed, HasId
  <2>5. Fresh(p)'
      BY <1>1, <1>3, <2>1, <2>2 DEF Fresh, tables
  <2>6. Settles(p)' /\ Judged(p)'
      BY <2>1, <2>2 DEF Settles, Judged
  <2>7. Defers(p)'
      BY <1>1, <2>1, <2>2 DEF Defers
  <2>8. NoRepeats(p)' /\ Truthful(p)' /\ StartsAnew(p)'
      BY <2>1, <2>2, EmptyLen DEF NoRepeats, Truthful, StartsAnew
  <2>9. Standing(p)'
      BY <1>1, <2>1, <2>2 DEF Standing
  <2>10. Accounts(p)'
      BY <2>1, <2>4, <2>5, <2>6, <2>7, <2>8, <2>9 DEF Accounts, Writes, Trail
  <2>11. ASSUME NEW q \in Procs \ {p}, NEW i \in EventIDs, ws'[p].outcome[i] # ""
         PROVE  ws[q].outcome[i] = ""
      BY <2>1, <2>2, <2>11 DEF insertProcessedEvent, WrittenElsewhere
  <2> QED BY <1>1, <2>1, <2>10, <2>11, LocalAccount
<1> QED BY <1>2, <1>3

\* Between the INSERT and the classification the transaction has written the
\* RECEIVED row of its own event and nothing else.
LEMMA OnlyReceived ==
    ASSUME AccountInv, NEW p \in Procs, pc[p] \in {"load", "classify"}
    PROVE  /\ ws[p].history = <<>> /\ ws[p].settle = {} /\ ws[p].defer = {}
           /\ \A i \in EventIDs : ws[p].outcome[i] = IF i = ev[p].id THEN "RECEIVED" ELSE ""
           /\ \A i \in EventIDs : ws[p].dead[i] = 0
           /\ processed[ev[p].id] = NotProcessed
           /\ \A q \in Procs \ {p} : ws[q].outcome[ev[p].id] = ""
<1>1. /\ TypeOK /\ Continuation(p) /\ Accounts(p) /\ Exclusive
    BY DEF AccountInv, SerialInv
<1>2. Writes(p) /\ Trail(p) /\ Standing(p)
    BY <1>1 DEF Accounts, InLock
<1>3. ev[p].id \in EventIDs
    BY <1>1, InTransaction
<1>4. ws[p].history = <<>>
    BY <1>1 DEF Continuation
<1>5. ws[p].settle = {}
    BY <1>2, <1>4 DEF Trail, StartsAnew
<1>6. ws[p].outcome[ev[p].id] = "RECEIVED"
    BY <1>2 DEF Standing
<1>7. ws[p].defer = {}
    BY <1>2, <1>6 DEF Writes, Defers
<1>8. \A i \in EventIDs : ws[p].outcome[i] = IF i = ev[p].id THEN "RECEIVED" ELSE ""
    BY <1>2, <1>5, <1>6 DEF Writes, Fresh
<1>9. \A i \in EventIDs : ws[p].dead[i] = 0
    BY <1>2, <1>8 DEF Writes, Placed
<1>10. processed[ev[p].id] = NotProcessed
    BY <1>2, <1>3, <1>6 DEF Writes, Fresh
<1>11. \A q \in Procs \ {p} : ws[q].outcome[ev[p].id] = ""
    BY <1>1, <1>3, <1>6 DEF Exclusive
<1> QED BY <1>4, <1>5, <1>7, <1>8, <1>9, <1>10, <1>11

\* A transaction that has classified its own event, and replayed none, is
\* accounted for.
LEMMA OwnEventAccounted ==
    ASSUME NEW p \in Procs, NEW c \in Classification,
           ev' = ev, processed' = processed,
           ev[p] \in Rows, processed[ev[p].id] = NotProcessed,
           \A i \in EventIDs : ws'[p].outcome[i] = IF i = ev[p].id THEN c ELSE "",
           \A i \in EventIDs :
               ws'[p].dead[i] = IF i = ev[p].id /\ c = "INVALID_TRANSITION" THEN 1 ELSE 0,
           ws'[p].settle = {},
           ws'[p].defer = IF c = "OUT_OF_ORDER" THEN {ev[p]} ELSE {},
           c # "APPLIED" => ws'[p].history = <<>>,
           c = "APPLIED" => /\ Len(ws'[p].history) = 1 /\ ws'[p].history # <<>>
                            /\ ws'[p].history[1].id = ev[p].id
                            /\ ws'[p].history[1].to = ev[p].status
    PROVE  Writes(p)' /\ Trail(p)'
<1>1. ev[p].id \in EventIDs /\ c # ""
    BY DEF Rows, Classification
<1>2. /\ c = "APPLIED" => 1 \in 1..Len(ws'[p].history) /\ \A n \in 1..Len(ws'[p].history) : n = 1
      /\ c # "APPLIED" => \A n : n \notin 1..Len(ws'[p].history)
  <2>1. ASSUME c = "APPLIED"
        PROVE  1 \in 1..Len(ws'[p].history) /\ \A n \in 1..Len(ws'[p].history) : n = 1
    <3>1. Len(ws'[p].history) = 1
        BY <2>1
    <3> QED BY <3>1, OneIndex
  <2>2. ASSUME c # "APPLIED" PROVE \A n : n \notin 1..Len(ws'[p].history)
    <3>1. ws'[p].history = <<>>
        BY <2>2
    <3> QED BY <3>1, EmptyLen
  <2> QED BY <2>1, <2>2
<1>3. \A i \in EventIDs : HasId(ws'[p].history, i) <=> c = "APPLIED" /\ i = ev[p].id
    BY <1>1, <1>2 DEF HasId
<1>4. Placed(p)'
    BY <1>3, <1>1 DEF Placed
<1>5. Fresh(p)'
    BY <1>1 DEF Fresh
<1>6. Settles(p)' /\ Judged(p)'
    BY DEF Settles, Judged
<1>7. Defers(p)'
    BY <1>1 DEF Defers
<1>8. NoRepeats(p)'
  <2>1. \A m, n \in 1..Len(ws'[p].history) : m = n
      BY <1>2
  <2> QED BY <2>1 DEF NoRepeats
<1>9. Truthful(p)'
    BY <1>1, <1>2 DEF Truthful, Recorded
<1>10. StartsAnew(p)'
    BY <1>1, <1>2 DEF StartsAnew
<1> QED BY <1>4, <1>5, <1>6, <1>7, <1>8, <1>9, <1>10 DEF Writes, Trail

\* SELECT current_status writes nothing.
LEMMA LoadAccount ==
    ASSUME AccountInv, SerialInv', NEW p \in Procs, loadCurrentStatus(p)
    PROVE  AccountInv'
<1>1. /\ TypeOK /\ Accounts(p) /\ Writes(p) /\ Trail(p) /\ Exclusive
      /\ ws[p].outcome[ev[p].id] = "RECEIVED" /\ result[p].status = "none"
    BY DEF AccountInv, SerialInv, Accounts, loadCurrentStatus, InLock, Standing
<1>2. /\ pc'[p] = "classify" /\ ws' = ws /\ result' = result /\ ev' = ev
      /\ UNCHANGED tables /\ pending' = pending /\ processed' = processed
      /\ \A q \in Procs \ {p} : pc'[q] = pc[q]
    BY <1>1 DEF loadCurrentStatus, TypeOK, tables
<1>3. \A r \in ws[p].settle : r \in pending'
    BY <1>1, <1>2 DEF Writes, Settles
<1>4. Writes(p)'
    BY <1>1, <1>2, <1>3, WritesFrame
<1>5. Trail(p)'
    BY <1>1, <1>2, TrailFrame DEF Recorded
<1>6. Standing(p)'
    BY <1>1, <1>2 DEF Standing
<1>7. Accounts(p)'
    BY <1>1, <1>2, <1>4, <1>5, <1>6 DEF Accounts
<1>8. \A q \in Procs \ {p}, i \in EventIDs : ws'[p].outcome[i] # "" => ws[q].outcome[i] = ""
    BY <1>1, <1>2 DEF Exclusive
<1> QED BY <1>1, <1>2, <1>7, <1>8, LocalAccount

\* The switch on the classification: the transaction's own event gets the
\* outcome that the committed status of its order calls for.
LEMMA RouteAccount ==
    ASSUME AccountInv, SerialInv', NEW p \in Procs,
           NEW c \in Classification,
           Route(p, c, ws'[p], IF c = "APPLIED" THEN "replay" ELSE "commit"),
           \A i \in EventIDs : ws'[p].outcome[i] = IF i = ev[p].id THEN c ELSE ws[p].outcome[i],
           \A i \in EventIDs :
               ws'[p].dead[i] = IF i = ev[p].id /\ c = "INVALID_TRANSITION"
                           THEN ws[p].dead[i] + 1 ELSE ws[p].dead[i],
           ws'[p].settle = ws[p].settle,
           ws'[p].defer = IF c = "OUT_OF_ORDER" THEN ws[p].defer \cup {ev[p]} ELSE ws[p].defer,
           c # "APPLIED" => ws'[p].history = ws[p].history,
           c = "APPLIED" =>
               ws'[p].history = Append(ws[p].history, [id |-> ev[p].id, from |-> cur[p],
                                                  to |-> ev[p].status, ts |-> ev[p].ts])
    PROVE  AccountInv'
<1>1. TypeOK /\ Accounts(p) /\ Continuation(p) /\ pc[p] = "classify"
    BY DEF AccountInv, SerialInv, Route
<1>2. /\ UNCHANGED tables /\ processed' = processed /\ ev' = ev
      /\ pc'[p] = IF c = "APPLIED" THEN "replay" ELSE "commit"
      /\ EvaluateTransition(cur[p], ev[p].status) = c
      /\ result[p] \in Results /\ result'[p] = [result[p] EXCEPT !.class = c]
    BY <1>1 DEF Route, TypeOK, tables
<1>3. \A q \in Procs \ {p} : /\ pc'[q] = pc[q] /\ ws'[q] = ws[q]
                             /\ ev'[q] = ev[q] /\ result'[q] = result[q]
    BY <1>1 DEF Route, TypeOK
<1>4. /\ ev[p] \in Rows /\ ev[p].id \in EventIDs /\ result[p].status = "none"
      /\ cur[p] = Committed(p)
    BY <1>1, InTransaction DEF Accounts, Continuation
<1>5. ws[p].history = <<>> /\ ws[p].settle = {} /\ ws[p].defer = {}
    BY <1>1, OnlyReceived
<1>6. \A i \in EventIDs : ws[p].outcome[i] = IF i = ev[p].id THEN "RECEIVED" ELSE ""
    BY <1>1, OnlyReceived
<1>7. \A i \in EventIDs : ws[p].dead[i] = 0
    BY <1>1, OnlyReceived
<1>8. processed[ev[p].id] = NotProcessed /\ \A q \in Procs \ {p} : ws[q].outcome[ev[p].id] = ""
    BY <1>1, OnlyReceived
<1>9. \A i \in EventIDs : ws'[p].outcome[i] = IF i = ev[p].id THEN c ELSE ""
    BY <1>2, <1>6
<1>10. \A i \in EventIDs :
          ws'[p].dead[i] = IF i = ev[p].id /\ c = "INVALID_TRANSITION" THEN 1 ELSE 0
    BY <1>2, <1>7
<1>11. ws'[p].settle = {} /\ ws'[p].defer = IF c = "OUT_OF_ORDER" THEN {ev[p]} ELSE {}
    BY <1>2, <1>5
<1>12. c # "APPLIED" => ws'[p].history = <<>>
    BY <1>2, <1>5
<1>13. c = "APPLIED" => /\ Len(ws'[p].history) = 1 /\ ws'[p].history # <<>>
                        /\ ws'[p].history[1].id = ev[p].id
                        /\ ws'[p].history[1].to = ev[p].status
  <2> SUFFICES ASSUME c = "APPLIED"
               PROVE  /\ Len(ws'[p].history) = 1 /\ ws'[p].history # <<>>
                      /\ ws'[p].history[1].id = ev[p].id
                      /\ ws'[p].history[1].to = ev[p].status
      OBVIOUS
  <2> DEFINE x == [id |-> ev[p].id, from |-> cur[p], to |-> ev[p].status, ts |-> ev[p].ts]
  <2>1. x.id = ev[p].id /\ x.to = ev[p].status
      OBVIOUS
  <2>2. ws'[p].history = Append(<<>>, x)
      BY <1>2, <1>5
  <2> HIDE DEF x
  <2> QED BY <2>1, <2>2, OneRow
<1>14. Writes(p)' /\ Trail(p)'
    BY <1>2, <1>4, <1>8, <1>9, <1>10, <1>11, <1>12, <1>13, OwnEventAccounted
<1>15. result'[p].class # "DUPLICATE_EVENT" /\ result'[p].status = "none"
    BY <1>2, <1>4 DEF Results, Classification
<1>16. Standing(p)'
  <2>1. ws'[p].outcome[ev'[p].id] = EvaluateTransition(Committed(p)', ev'[p].status)
      BY <1>2, <1>4, <1>9 DEF Committed, tables
  <2>2. ws'[p].outcome[ev'[p].id] = c /\ pc'[p] \in {"replay", "commit"}
      BY <1>2, <1>4, <1>9
  <2> QED BY <1>2, <1>15, <2>1, <2>2 DEF Standing
<1>17. Accounts(p)'
    BY <1>14, <1>15, <1>16 DEF Accounts
<1>18. \A q \in Procs \ {p}, i \in EventIDs : ws'[p].outcome[i] # "" => ws[q].outcome[i] = ""
    BY <1>8, <1>9
<1> QED BY <1>2, <1>3, <1>15, <1>17, <1>18, LocalAccount

\* The four classifications.
LEMMA ClassifyAccount ==
    ASSUME AccountInv, SerialInv', NEW p \in Procs,
           Apply(p) \/ SkipDuplicateStatus(p) \/ Defer(p) \/ Reject(p)
    PROVE  AccountInv'
<1>1. ev[p] \in Rows /\ ws[p] \in WriteSet /\ cur[p] \in Status \cup {NoStatus}
    BY InTransaction DEF AccountInv, SerialInv, TypeOK, Apply, SkipDuplicateStatus, Defer, Reject, Route
<1>2. /\ "APPLIED" \in Classification /\ "DUPLICATE_STATUS" \in Classification
      /\ "OUT_OF_ORDER" \in Classification /\ "INVALID_TRANSITION" \in Classification
    BY DEF Classification
<1>3. CASE Apply(p)
  <2> DEFINE w == applyEvent(ws[p], ev[p], cur[p])
  <2>1. Route(p, "APPLIED", ws'[p], "replay") /\ ws'[p] = w
      BY <1>1, <1>3 DEF Apply, Route, AccountInv, SerialInv, TypeOK
  <2>2. /\ \A i \in EventIDs :
              w.outcome[i] = IF i = ev[p].id THEN "APPLIED" ELSE ws[p].outcome[i]
        /\ w.dead = ws[p].dead /\ w.settle = ws[p].settle /\ w.defer = ws[p].defer
      BY <1>1, ApplyFields
  <2>3. w.history = Append(ws[p].history, [id |-> ev[p].id, from |-> cur[p],
                                           to |-> ev[p].status, ts |-> ev[p].ts])
      BY <1>1, ApplyHistory, Zenon
  <2> HIDE DEF w
  <2> QED BY <1>2, <2>1, <2>2, <2>3, RouteAccount
<1>4. CASE SkipDuplicateStatus(p)
  <2> DEFINE w == updateOutcome(ws[p], ev[p], "DUPLICATE_STATUS")
  <2>1. Route(p, "DUPLICATE_STATUS", ws'[p], "commit") /\ ws'[p] = w
      BY <1>1, <1>4 DEF SkipDuplicateStatus, Route, AccountInv, SerialInv, TypeOK
  <2>2. /\ \A i \in EventIDs :
              w.outcome[i] = IF i = ev[p].id THEN "DUPLICATE_STATUS" ELSE ws[p].outcome[i]
        /\ w.dead = ws[p].dead
        /\ w.history = ws[p].history
        /\ w.settle = ws[p].settle
        /\ w.defer = ws[p].defer
      BY <1>1, OutcomeFields
  <2> HIDE DEF w
  <2> QED BY <1>2, <2>1, <2>2, RouteAccount
<1>5. CASE Defer(p)
  <2> DEFINE w == insertPendingEvent(ws[p], ev[p])
  <2>1. Route(p, "OUT_OF_ORDER", ws'[p], "commit") /\ ws'[p] = w
      BY <1>1, <1>5 DEF Defer, Route, AccountInv, SerialInv, TypeOK
  <2>2. /\ \A i \in EventIDs :
              w.outcome[i] = IF i = ev[p].id THEN "OUT_OF_ORDER" ELSE ws[p].outcome[i]
        /\ w.dead = ws[p].dead
        /\ w.history = ws[p].history
        /\ w.settle = ws[p].settle
        /\ w.defer = ws[p].defer \cup {ev[p]}
      BY <1>1, DeferFields
  <2> HIDE DEF w
  <2> QED BY <1>2, <2>1, <2>2, RouteAccount
<1>6. CASE Reject(p)
  <2> DEFINE w == insertDeadLetterEvent(ws[p], ev[p])
  <2>1. Route(p, "INVALID_TRANSITION", ws'[p], "commit") /\ ws'[p] = w
      BY <1>1, <1>6 DEF Reject, Route, AccountInv, SerialInv, TypeOK
  <2>2. /\ \A i \in EventIDs :
              w.outcome[i] = IF i = ev[p].id THEN "INVALID_TRANSITION" ELSE ws[p].outcome[i]
        /\ \A i \in EventIDs :
              w.dead[i] = IF i = ev[p].id THEN ws[p].dead[i] + 1 ELSE ws[p].dead[i]
        /\ w.history = ws[p].history
        /\ w.settle = ws[p].settle
        /\ w.defer = ws[p].defer
      BY <1>1, RejectFields
  <2> HIDE DEF w
  <2> QED BY <1>2, <2>1, <2>2, RouteAccount
<1> QED BY <1>3, <1>4, <1>5, <1>6

\* What replayPending relies on of a row it loads.
Loaded(p, row) ==
    /\ row \in Rows /\ row.id \in EventIDs /\ row.id # ev[p].id
    /\ row \in pending /\ row.order = ev[p].order
    /\ processed[row.id].row = row /\ processed[row.id].outcome = "OUT_OF_ORDER"
    /\ ws[p].outcome[row.id] = ""
    /\ \A q \in Procs \ {p} : ws[q].outcome[row.id] = ""

\* The row the replay loop has loaded is a committed deferred event that neither
\* this transaction nor any other has written: its event_id is known, so it is
\* nobody's new event, and its order is locked, so nobody else replays it.
LEMMA LoadedRow ==
    ASSUME AccountInv, NEW p \in Procs, pc[p] = "replay", NEW row \in PendingView(p)
    PROVE  Loaded(p, row)
<1>1. /\ SerialInv /\ TypeOK /\ Accounts(p) /\ EventAccountedOnce /\ Exclusive
    BY DEF AccountInv, SerialInv
<1>2. /\ InLock(p) /\ Writes(p) /\ Standing(p)
    BY <1>1 DEF Accounts, InLock
<1>3. row \in Rows /\ row.id \in EventIDs /\ ev[p].id \in EventIDs
  <2>1. row \in Rows /\ ev[p].id \in EventIDs
      BY <1>1, InTransaction
  <2> QED BY <2>1 DEF Rows
<1>4. ws[p].outcome[ev[p].id] = "APPLIED"
    BY <1>2 DEF Standing
<1>5. ws[p].defer = {}
    BY <1>2, <1>4 DEF Writes, Defers
<1>6. row \in pending /\ row \notin ws[p].settle /\ row.order = ev[p].order
    BY <1>5 DEF PendingView
<1>7. processed[row.id].row = row /\ processed[row.id].outcome = "OUT_OF_ORDER"
    BY <1>1, <1>3, <1>6 DEF EventAccountedOnce
<1>8. processed[row.id] # NotProcessed
  <2>1. NotProcessed.outcome = ""
      BY DEF NotProcessed
  <2> QED BY <1>7, <2>1
<1>9. row.id # ev[p].id
  <2>1. processed[ev[p].id] = NotProcessed
      BY <1>2, <1>3, <1>4 DEF Writes, Fresh
  <2> QED BY <1>8, <2>1
<1>10. ws[p].outcome[row.id] = ""
    BY <1>2, <1>3, <1>6, <1>7, <1>9 DEF Writes, Fresh
<1>11. ASSUME NEW q \in Procs \ {p}, ws[q].outcome[row.id] # "" PROVE FALSE
  <2>1. InLock(q) /\ Accounts(q)
      BY <1>1, <1>3, <1>11, OutsideLock DEF AccountInv
  <2>2. Writes(q)
      BY <2>1 DEF Accounts
  <2>3. row.id # ev[q].id
      BY <1>3, <1>8, <1>11, <2>2 DEF Writes, Fresh
  <2>4. row \in ws[q].settle
      BY <1>3, <1>7, <1>11, <2>2, <2>3 DEF Writes, Fresh
  <2>5. row.order = ev[q].order
      BY <2>2, <2>4 DEF Writes, Settles
  <2> QED BY <1>1, <1>2, <1>6, <2>1, <2>5, OtherOrder
<1> QED BY <1>3, <1>6, <1>7, <1>9, <1>10, <1>11 DEF Loaded

\* A history of transitions, and the same with at most one more row.
Extends(g, h, i, t) ==
    /\ 1..Len(h) \subseteq 1..Len(g)
    /\ \A n \in 1..Len(h) : g[n] = h[n]
    /\ \A n \in 1..Len(g) : \/ n \in 1..Len(h)
                            \/ n = Len(h) + 1 /\ g[n].id = i /\ g[n].to = t

\* applyEvent appends one row to the history.
LEMMA AppendExtends ==
    ASSUME NEW h \in Seq(HistoryRow), NEW x \in HistoryRow
    PROVE  /\ Extends(Append(h, x), h, x.id, x.to)
           /\ HasId(Append(h, x), x.id)
           /\ Append(h, x) # <<>>
<1>1. /\ Len(h) \in Nat
      /\ Len(Append(h, x)) = Len(h) + 1
      /\ \A n \in 1..Len(h) : Append(h, x)[n] = h[n]
      /\ Append(h, x)[Len(h) + 1] = x
      /\ Append(h, x) # <<>>
    BY AppendProperties, LenProperties
<1> DEFINE g == Append(h, x)
<1>2. Len(g) = Len(h) + 1 /\ g[Len(h) + 1] = x /\ \A n \in 1..Len(h) : g[n] = h[n]
    BY <1>1
<1> HIDE DEF g
<1>3. /\ 1..Len(h) \subseteq 1..Len(g)
      /\ Len(h) + 1 \in 1..Len(g)
      /\ \A n \in 1..Len(g) : n \in 1..Len(h) \/ n = Len(h) + 1
    BY <1>1, <1>2
<1>4. Extends(g, h, x.id, x.to) /\ HasId(g, x.id)
    BY <1>2, <1>3 DEF Extends, HasId
<1> QED BY <1>1, <1>4 DEF g

\* What a round of the loop writes for the row it loaded.
SettlesRow(p, row, c) ==
    /\ \A i \in EventIDs : ws'[p].outcome[i] = IF i = row.id THEN c ELSE ws[p].outcome[i]
    /\ \A i \in EventIDs :
           ws'[p].dead[i] = IF i = row.id /\ c = "INVALID_TRANSITION"
                            THEN ws[p].dead[i] + 1 ELSE ws[p].dead[i]
    /\ ws'[p].settle = ws[p].settle \cup {row}
    /\ ws'[p].defer = ws[p].defer
    /\ c # "APPLIED" => ws'[p].history = ws[p].history
    /\ c = "APPLIED" => ws'[p].history =
           Append(ws[p].history, [id |-> row.id, from |-> cur[p],
                                  to |-> row.status, ts |-> row.ts])

\* One round of the loop settles one more deferred event: its writes ...
LEMMA ReplayWrites ==
    ASSUME NEW p \in Procs, Writes(p),
           NEW row, row.id \in EventIDs, row.id # ev[p].id, ev[p].id \in EventIDs,
           row \in pending, row.order = ev[p].order,
           processed[row.id].row = row, processed[row.id].outcome = "OUT_OF_ORDER",
           ws[p].outcome[row.id] = "",
           \A r \in ws[p].settle : r.id \in EventIDs,
           ev' = ev, processed' = processed, pending' = pending,
           NEW c \in Settled,
           SettlesRow(p, row, c),
           \A i \in EventIDs : HasId(ws'[p].history, i) <=>
               HasId(ws[p].history, i) \/ (c = "APPLIED" /\ i = row.id)
    PROVE  Writes(p)'
<1> USE DEF SettlesRow
<1>1. c # "" /\ c # "OUT_OF_ORDER"
    BY DEF Settled
<1>2. ws'[p].outcome[ev[p].id] = ws[p].outcome[ev[p].id]
    OBVIOUS
<1>3. Placed(p)'
  <2> SUFFICES ASSUME NEW i \in EventIDs
               PROVE  /\ ws'[p].outcome[i] = "APPLIED" <=> HasId(ws'[p].history, i)
                      /\ ws'[p].dead[i] =
                            IF ws'[p].outcome[i] = "INVALID_TRANSITION" THEN 1 ELSE 0
      BY DEF Placed
  <2>1. /\ ws[p].outcome[i] = "APPLIED" <=> HasId(ws[p].history, i)
        /\ ws[p].dead[i] = IF ws[p].outcome[i] = "INVALID_TRANSITION" THEN 1 ELSE 0
      BY DEF Writes, Placed
  <2>2. CASE i = row.id
    <3>1. ~HasId(ws[p].history, i) /\ ws[p].dead[i] = 0
        BY <2>1, <2>2
    <3>2. ws'[p].outcome[i] = c /\ (HasId(ws'[p].history, i) <=> c = "APPLIED")
        BY <2>2, <3>1
    <3>3. ws'[p].dead[i] = IF c = "INVALID_TRANSITION" THEN 1 ELSE 0
      <4>1. ws'[p].dead[i] = IF c = "INVALID_TRANSITION"
                             THEN ws[p].dead[i] + 1 ELSE ws[p].dead[i]
          BY <2>2
      <4> QED BY <3>1, <4>1, FirstRow
    <3> QED BY <3>2, <3>3
  <2>3. CASE i # row.id
      BY <2>1, <2>3
  <2> QED BY <2>2, <2>3
<1>4. Fresh(p)'
  <2> SUFFICES ASSUME NEW i \in EventIDs, ws'[p].outcome[i] # ""
               PROVE  /\ i = ev[p].id => processed[i] = NotProcessed
                      /\ i # ev[p].id => /\ processed[i].outcome = "OUT_OF_ORDER"
                                         /\ processed[i].row \in ws'[p].settle
      BY DEF Fresh
  <2>1. CASE i = row.id
      BY <2>1
  <2>2. CASE i # row.id
      BY <2>2 DEF Writes, Fresh
  <2> QED BY <2>1, <2>2
<1>5. Settles(p)'
  <2> SUFFICES ASSUME NEW r \in ws'[p].settle
               PROVE  /\ r \in pending
                      /\ r.order = ev[p].order
                      /\ ws'[p].outcome[r.id] \in Settled
      BY DEF Settles
  <2>1. CASE r = row
      BY <2>1
  <2>2. CASE r \in ws[p].settle
    <3>1. /\ r \in pending /\ r.order = ev[p].order /\ ws[p].outcome[r.id] \in Settled
        BY <2>2 DEF Writes, Settles
    <3>2. r.id \in EventIDs
        BY <2>2
    <3> QED BY <3>1, <3>2
  <2> QED BY <2>1, <2>2
<1>6. Defers(p)'
    BY <1>2 DEF Writes, Defers
<1> QED BY <1>3, <1>4, <1>5, <1>6 DEF Writes

\* ... and its trail.
LEMMA ReplayTrail ==
    ASSUME NEW p \in Procs, Writes(p), Trail(p),
           NEW row, row.id \in EventIDs, row.id # ev[p].id,
           processed[row.id].row = row,
           ws[p].outcome[row.id] = "",
           \A r \in ws[p].settle : r.id \in EventIDs,
           ev' = ev, processed' = processed,
           NEW c \in Settled,
           \A i \in EventIDs : ws'[p].outcome[i] = IF i = row.id THEN c ELSE ws[p].outcome[i],
           ws'[p].settle = ws[p].settle \cup {row},
           Extends(ws'[p].history, ws[p].history, row.id, row.status),
           ws[p].history # <<>>, ws'[p].history # <<>>,
           Len(ws[p].history) \in 1..Len(ws[p].history), 1 \in 1..Len(ws[p].history),
           c = EvaluateTransition(ws[p].history[Len(ws[p].history)].to, row.status)
    PROVE  Trail(p)'
<1> DEFINE h == ws[p].history
           g == ws'[p].history
<1>1. /\ 1..Len(h) \subseteq 1..Len(g)
      /\ \A n \in 1..Len(h) : g[n] = h[n]
      /\ \A n \in 1..Len(g) : \/ n \in 1..Len(h)
                              \/ n = Len(h) + 1 /\ g[n].id = row.id /\ g[n].to = row.status
    BY DEF Extends
<1>2. \A n \in 1..Len(h) : h[n].id # row.id
    BY DEF Writes, Placed, HasId
<1>3. NoRepeats(p)'
  <2>1. \A m, n \in 1..Len(h) : h[m].id = h[n].id => m = n
      BY DEF Trail, NoRepeats
  <2> SUFFICES ASSUME NEW m \in 1..Len(g), NEW n \in 1..Len(g), g[m].id = g[n].id
               PROVE  m = n
      BY DEF NoRepeats
  <2> HIDE DEF g, h
  <2>2. CASE m \in 1..Len(h) /\ n \in 1..Len(h)
      BY <1>1, <2>1, <2>2
  <2>3. CASE m \notin 1..Len(h) /\ n \notin 1..Len(h)
      BY <1>1, <2>3
  <2>4. CASE m \notin 1..Len(h) /\ n \in 1..Len(h)
    <3>1. g[m].id = row.id /\ g[n] = h[n]
        BY <1>1, <2>4
    <3> QED BY <1>2, <2>4, <3>1
  <2>5. CASE m \in 1..Len(h) /\ n \notin 1..Len(h)
    <3>1. g[n].id = row.id /\ g[m] = h[m]
        BY <1>1, <2>5
    <3> QED BY <1>2, <2>5, <3>1
  <2> QED BY <2>2, <2>3, <2>4, <2>5
<1>4. Truthful(p)'
  <2>1. \A n \in 1..Len(h) : h[n].to = Recorded(p, h[n].id).status
      BY DEF Trail, Truthful
  <2>2. \A i : Recorded(p, i)' = Recorded(p, i)
      BY DEF Recorded
  <2>3. Recorded(p, row.id).status = row.status
      BY DEF Recorded
  <2>4. \A n \in 1..Len(g) : g[n].to = Recorded(p, g[n].id).status
    <3> HIDE DEF g, h
    <3> QED BY <1>1, <2>1, <2>3
  <2> QED BY <2>2, <2>4 DEF Truthful, Recorded
<1>5. StartsAnew(p)'
    BY <1>1 DEF Trail, StartsAnew
<1>6. Judged(p)'
  <2> SUFFICES ASSUME NEW r \in ws'[p].settle
               PROVE  \/ ws'[p].outcome[r.id] = "APPLIED"
                      \/ \E n \in 1..Len(g) :
                            ws'[p].outcome[r.id] = EvaluateTransition(g[n].to, r.status)
      BY DEF Judged
  <2>1. CASE r = row
    <3>1. ws'[p].outcome[r.id] = EvaluateTransition(h[Len(h)].to, r.status)
        BY <2>1
    <3>2. Len(h) \in 1..Len(g) /\ g[Len(h)] = h[Len(h)]
        BY <1>1
    <3> QED BY <3>1, <3>2
  <2>2. CASE r # row
    <3>1. r \in ws[p].settle /\ r.id \in EventIDs
      <4>1. r \in ws[p].settle \cup {row}
          OBVIOUS
      <4>2. r \in ws[p].settle
          BY <2>2, <4>1
      <4> QED BY <4>2
    <3>2. ws[p].outcome[r.id] \in Settled
        BY <3>1 DEF Writes, Settles
    <3>3. ws'[p].outcome[r.id] = ws[p].outcome[r.id]
        BY <3>1, <3>2 DEF Settled
    <3>4. CASE ws[p].outcome[r.id] = "APPLIED"
        BY <3>3, <3>4
    <3>5. CASE ws[p].outcome[r.id] # "APPLIED"
      <4>1. PICK n \in 1..Len(h) :
                ws[p].outcome[r.id] = EvaluateTransition(h[n].to, r.status)
          BY <3>1, <3>5 DEF Trail, Judged
      <4>2. n \in 1..Len(g) /\ g[n] = h[n]
          BY <1>1
      <4> QED BY <3>3, <4>1, <4>2
    <3> QED BY <3>4, <3>5
  <2> QED BY <2>1, <2>2
<1> QED BY <1>3, <1>4, <1>5, <1>6 DEF Trail

\* A round of the loop keeps the account.
LEMMA RoundAccount ==
    ASSUME AccountInv, SerialInv', NEW p \in Procs, pc[p] = "replay",
           NEW row \in PendingView(p), NEW c \in Settled,
           EvaluateTransition(cur[p], row.status) = c,
           UNCHANGED <<tables, pc, ev>>,
           \A q \in Procs \ {p} : ws'[q] = ws[q] /\ result'[q] = result[q],
           result'[p].status = result[p].status, result'[p].class = result[p].class,
           SettlesRow(p, row, c)
    PROVE  AccountInv'
<1>1. /\ TypeOK /\ Continuation(p) /\ Accounts(p) /\ Exclusive
    BY DEF AccountInv, SerialInv
<1>2. /\ Writes(p) /\ Trail(p) /\ Standing(p) /\ result[p].status = "none"
    BY <1>1 DEF Accounts, InLock
<1>3. /\ row \in Rows /\ row.id \in EventIDs /\ row.id # ev[p].id
      /\ row \in pending /\ row.order = ev[p].order
      /\ processed[row.id].row = row /\ processed[row.id].outcome = "OUT_OF_ORDER"
      /\ ws[p].outcome[row.id] = ""
      /\ \A q \in Procs \ {p} : ws[q].outcome[row.id] = ""
  <2>1. Loaded(p, row)
      BY LoadedRow
  <2> QED BY <2>1 DEF Loaded
<1>4. /\ ws[p] \in WriteSet /\ ev[p].id \in EventIDs
      /\ cur[p] \in Status \cup {NoStatus}
      /\ ws[p].history \in Seq(HistoryRow) /\ ws[p].settle \subseteq Rows
  <2>1. ws[p] \in WriteSet /\ ev[p].id \in EventIDs /\ cur[p] \in Status \cup {NoStatus}
      BY <1>1, InTransaction DEF TypeOK
  <2> QED BY <2>1 DEF WriteSet
<1>5. \A r \in ws[p].settle : r.id \in EventIDs
    BY <1>4 DEF Rows
<1>6. /\ ws[p].history # <<>>
      /\ Len(ws[p].history) \in 1..Len(ws[p].history)
      /\ 1 \in 1..Len(ws[p].history)
      /\ cur[p] = ws[p].history[Len(ws[p].history)].to
  <2>1. ws[p].history # <<>>
      BY <1>1 DEF Continuation
  <2>2. cur[p] = ws[p].history[Len(ws[p].history)].to
      BY <1>1, <2>1 DEF Continuation, EndOf
  <2>3. Len(ws[p].history) \in Nat /\ Len(ws[p].history) # 0
      BY <1>4, <2>1, EmptySeq, LenProperties
  <2> QED BY <2>1, <2>2, <2>3
<1>7. /\ Extends(ws'[p].history, ws[p].history, row.id, row.status)
      /\ ws'[p].history # <<>>
      /\ \A i \in EventIDs : HasId(ws'[p].history, i) <=>
            HasId(ws[p].history, i) \/ (c = "APPLIED" /\ i = row.id)
  <2>1. CASE c # "APPLIED"
    <3>1. ws'[p].history = ws[p].history
        BY <2>1 DEF SettlesRow
    <3> QED BY <1>6, <2>1, <3>1 DEF Extends
  <2>2. CASE c = "APPLIED"
    <3> DEFINE x == [id |-> row.id, from |-> cur[p], to |-> row.status, ts |-> row.ts]
    <3>1. ws'[p].history = Append(ws[p].history, x)
        BY <2>2 DEF SettlesRow
    <3>2. x \in HistoryRow /\ x.id = row.id /\ x.to = row.status
        BY <1>3, <1>4 DEF HistoryRow, Rows
    <3> HIDE DEF x
    <3>3. /\ Extends(ws'[p].history, ws[p].history, row.id, row.status)
          /\ HasId(ws'[p].history, row.id)
          /\ ws'[p].history # <<>>
        BY <1>4, <3>1, <3>2, AppendExtends
    <3>4. \A i \in EventIDs : HasId(ws'[p].history, i) <=> HasId(ws[p].history, i) \/ i = row.id
        BY <3>3 DEF Extends, HasId
    <3> QED BY <2>2, <3>3, <3>4
  <2> QED BY <2>1, <2>2
<1>8. ev' = ev /\ processed' = processed /\ pending' = pending /\ pc' = pc /\ UNCHANGED tables
    BY DEF tables
<1>9. Writes(p)'
    BY <1>2, <1>3, <1>4, <1>5, <1>7, <1>8, ReplayWrites
<1>10. c = EvaluateTransition(ws[p].history[Len(ws[p].history)].to, row.status)
    BY <1>6
<1>11. Trail(p)'
    BY <1>2, <1>3, <1>5, <1>6, <1>7, <1>8, <1>10, ReplayTrail DEF SettlesRow
<1>12. Standing(p)'
  <2>1. ws'[p].outcome[ev'[p].id] = "APPLIED"
      BY <1>2, <1>3, <1>4, <1>8 DEF Standing, SettlesRow
  <2> QED BY <1>2, <1>8, <2>1 DEF Standing
<1>13. Accounts(p)'
    BY <1>2, <1>9, <1>11, <1>12 DEF Accounts
<1>14. \A q \in Procs \ {p}, i \in EventIDs : ws'[p].outcome[i] # "" => ws[q].outcome[i] = ""
    BY <1>1, <1>3 DEF Exclusive, SettlesRow
<1>15. \A q \in Procs \ {p} : /\ pc'[q] = pc[q] /\ ws'[q] = ws[q]
                              /\ ev'[q] = ev[q] /\ result'[q] = result[q]
    BY <1>8
<1> QED BY <1>2, <1>8, <1>13, <1>14, <1>15, LocalAccount

\* An allowed transition is what EvaluateTransition calls APPLIED.
LEMMA AllowedIsApplied ==
    ASSUME NEW s, NEW t, <<s, t>> \in AppliedPairs
    PROVE  EvaluateTransition(s, t) = "APPLIED"
BY DEF AppliedPairs, EvaluateTransition, isKnown, Status, NoStatus

\* The replay loop.
LEMMA ReplayAccount ==
    ASSUME AccountInv, SerialInv', NEW p \in Procs,
           ReplayApply(p) \/ ReplaySkip(p) \/ ReplayReject(p) \/ ReplayDone(p)
    PROVE  AccountInv'
<1>1. /\ pc[p] = "replay" /\ TypeOK
      /\ UNCHANGED <<tables, ev>>
      /\ \A q \in Procs \ {p} : pc'[q] = pc[q] /\ ws'[q] = ws[q] /\ result'[q] = result[q]
    BY DEF AccountInv, SerialInv, TypeOK,
           ReplayApply, ReplaySkip, ReplayReject, ReplayDone, ReplayRow
<1>2. ws[p] \in WriteSet /\ PendingView(p) \subseteq Rows /\ cur[p] \in Status \cup {NoStatus}
    BY <1>1, InTransaction DEF TypeOK
<1>3. /\ "APPLIED" \in Settled /\ "DUPLICATE_STATUS" \in Settled
      /\ "INVALID_TRANSITION" \in Settled
    BY DEF Settled
<1>4. CASE ReplayApply(p)
  <2>1. PICK row \in PendingView(p) :
          /\ EvaluateTransition(cur[p], row.status) = "APPLIED"
          /\ ws'[p] = deletePending(applyEvent(ws[p], row, cur[p]), row)
          /\ UNCHANGED <<pc, ev>>
          /\ result' = [result EXCEPT ![p].replayed = @ + 1]
      BY <1>1, <1>4 DEF ReplayApply, ReplayRow, TypeOK
  <2>2. result'[p].status = result[p].status /\ result'[p].class = result[p].class
    <3>1. result[p] \in Results /\ result'[p] = [result[p] EXCEPT !.replayed = @ + 1]
        BY <1>1, <2>1 DEF TypeOK
    <3> QED BY <3>1 DEF Results
  <2> DEFINE w == applyEvent(ws[p], row, cur[p])
  <2>3. row \in Rows /\ w \in WriteSet
      BY <1>2, StatementType DEF Outcome
  <2>4. /\ \A i \in EventIDs : w.outcome[i] = IF i = row.id THEN "APPLIED" ELSE ws[p].outcome[i]
        /\ w.dead = ws[p].dead /\ w.settle = ws[p].settle /\ w.defer = ws[p].defer
      BY <1>2, <2>3, ApplyFields
  <2>5. w.history = Append(ws[p].history, [id |-> row.id, from |-> cur[p],
                                           to |-> row.status, ts |-> row.ts])
      BY <1>2, <2>3, ApplyHistory, Zenon
  <2>6. ws'[p] = deletePending(w, row)
      BY <2>1
  <2> HIDE DEF w
  <2>7. /\ ws'[p].outcome = w.outcome /\ ws'[p].history = w.history
        /\ ws'[p].dead = w.dead /\ ws'[p].defer = w.defer
        /\ ws'[p].settle = w.settle \cup {row}
      BY <2>3, <2>6, SettleFields
  <2>8. SettlesRow(p, row, "APPLIED")
      BY <2>4, <2>5, <2>7 DEF SettlesRow
  <2> QED BY <1>1, <1>3, <2>1, <2>2, <2>8, RoundAccount
<1>5. CASE ReplaySkip(p)
  <2>1. PICK row \in PendingView(p) :
          /\ EvaluateTransition(cur[p], row.status) = "DUPLICATE_STATUS"
          /\ ws'[p] = deletePending(updateOutcome(ws[p], row, "DUPLICATE_STATUS"), row)
          /\ UNCHANGED <<pc, ev, result>>
      BY <1>1, <1>5 DEF ReplaySkip, ReplayRow, TypeOK
  <2> DEFINE w == updateOutcome(ws[p], row, "DUPLICATE_STATUS")
  <2>2. row \in Rows /\ w \in WriteSet
      BY <1>2, StatementType DEF Outcome, Classification
  <2>3. /\ \A i \in EventIDs :
              w.outcome[i] = IF i = row.id THEN "DUPLICATE_STATUS" ELSE ws[p].outcome[i]
        /\ w.dead = ws[p].dead /\ w.settle = ws[p].settle /\ w.defer = ws[p].defer
        /\ w.history = ws[p].history
      BY <1>2, <2>2, OutcomeFields
  <2>4. ws'[p] = deletePending(w, row)
      BY <2>1
  <2> HIDE DEF w
  <2>5. /\ ws'[p].outcome = w.outcome /\ ws'[p].history = w.history
        /\ ws'[p].dead = w.dead /\ ws'[p].defer = w.defer
        /\ ws'[p].settle = w.settle \cup {row}
      BY <2>2, <2>4, SettleFields
  <2>6. /\ UNCHANGED <<tables, pc, ev>>
        /\ result'[p].status = result[p].status /\ result'[p].class = result[p].class
      BY <1>1, <2>1
  <2>7. SettlesRow(p, row, "DUPLICATE_STATUS")
      BY <2>3, <2>5 DEF SettlesRow
  <2> QED BY <1>1, <1>3, <2>1, <2>6, <2>7, RoundAccount
<1>6. CASE ReplayReject(p)
  <2>1. PICK row \in PendingView(p) :
          /\ EvaluateTransition(cur[p], row.status) = "INVALID_TRANSITION"
          /\ ws'[p] = deletePending(insertDeadLetterEvent(ws[p], row), row)
          /\ UNCHANGED <<pc, ev, result>>
      BY <1>1, <1>6 DEF ReplayReject, ReplayRow, TypeOK
  <2> DEFINE w == insertDeadLetterEvent(ws[p], row)
  <2>2. row \in Rows /\ w \in WriteSet
      BY <1>2, StatementType DEF Outcome
  <2>3. /\ \A i \in EventIDs :
              w.outcome[i] = IF i = row.id THEN "INVALID_TRANSITION" ELSE ws[p].outcome[i]
        /\ \A i \in EventIDs :
              w.dead[i] = IF i = row.id THEN ws[p].dead[i] + 1 ELSE ws[p].dead[i]
        /\ w.settle = ws[p].settle /\ w.defer = ws[p].defer
        /\ w.history = ws[p].history
      BY <1>2, <2>2, RejectFields
  <2>4. ws'[p] = deletePending(w, row)
      BY <2>1
  <2> HIDE DEF w
  <2>5. /\ ws'[p].outcome = w.outcome /\ ws'[p].history = w.history
        /\ ws'[p].dead = w.dead /\ ws'[p].defer = w.defer
        /\ ws'[p].settle = w.settle \cup {row}
      BY <2>2, <2>4, SettleFields
  <2>6. /\ UNCHANGED <<tables, pc, ev>>
        /\ result'[p].status = result[p].status /\ result'[p].class = result[p].class
      BY <1>1, <2>1
  <2>7. SettlesRow(p, row, "INVALID_TRANSITION")
      BY <2>3, <2>5 DEF SettlesRow
  <2> QED BY <1>1, <1>3, <2>1, <2>6, <2>7, RoundAccount
<1>7. CASE ReplayDone(p)
  <2>1. pc'[p] = "commit" /\ ws' = ws /\ result' = result /\ ev' = ev
      BY <1>1, <1>7 DEF ReplayDone, TypeOK
  <2>2. /\ Writes(p) /\ Trail(p) /\ Standing(p) /\ result[p].status = "none" /\ Exclusive
        /\ Continuation(p) /\ ev[p].id \in EventIDs
      BY <1>1, InTransaction DEF AccountInv, SerialInv, Accounts, InLock
  <2>3. processed' = processed /\ pending' = pending /\ Committed(p)' = Committed(p)
      BY <1>1 DEF tables, Committed
  <2>4. \A r \in ws[p].settle : r \in pending'
      BY <2>2, <2>3 DEF Writes, Settles
  <2>5. Writes(p)'
      BY <2>1, <2>2, <2>3, <2>4, WritesFrame
  <2>6. Trail(p)'
      BY <2>1, <2>2, <2>3, TrailFrame DEF Recorded
  <2>7. EvaluateTransition(Committed(p), ev[p].status) = "APPLIED"
    <3>1. /\ ws[p].history # <<>> /\ LegalChain(ws[p].history, Committed(p))
          /\ ws[p].history \in Seq(HistoryRow)
        BY <1>1, <1>2, <2>2 DEF Continuation, InLock, WriteSet
    <3>2. 1 \in 1..Len(ws[p].history)
        BY <3>1, EmptySeq, LenProperties
    <3>3. <<Committed(p), ws[p].history[1].to>> \in AppliedPairs
        BY <3>1, <3>2 DEF LegalChain
    <3>4. ws[p].history[1].id = ev[p].id
        BY <2>2, <3>1 DEF Trail, StartsAnew
    <3>5. ws[p].history[1].to = ev[p].status
        BY <2>2, <3>2, <3>4 DEF Trail, Truthful, Recorded
    <3> QED BY <3>3, <3>5, AllowedIsApplied
  <2>8. Standing(p)'
      BY <1>1, <2>1, <2>2, <2>3, <2>7 DEF Standing
  <2>9. Accounts(p)'
      BY <2>1, <2>2, <2>5, <2>6, <2>8 DEF Accounts
  <2>10. \A q \in Procs \ {p}, i \in EventIDs : ws'[p].outcome[i] # "" => ws[q].outcome[i] = ""
      BY <2>1, <2>2 DEF Exclusive
  <2> QED BY <1>1, <2>1, <2>2, <2>9, <2>10, LocalAccount
<1> QED BY <1>4, <1>5, <1>6, <1>7

\* ROLLBACK: the write set is discarded.
LEMMA RollbackAccount ==
    ASSUME AccountInv, SerialInv', NEW p \in Procs, Rollback(p)
    PROVE  AccountInv'
<1>1. /\ pc'[p] = "idle" /\ ws'[p] = NoWrites /\ result'[p] = Failed /\ ev' = ev
      /\ UNCHANGED tables
      /\ \A q \in Procs \ {p} : pc'[q] = pc[q] /\ ws'[q] = ws[q] /\ result'[q] = result[q]
    BY DEF Rollback, EndTx, AccountInv, SerialInv, TypeOK
<1>2. Accounts(p)'
    BY <1>1 DEF Accounts, InLock
<1>3. result'[p].status # "ok"
  <2>1. Failed.status = "error"
      BY DEF Failed
  <2> QED BY <1>1, <2>1
<1>4. \A i \in EventIDs : ws'[p].outcome[i] = ""
    BY <1>1, NoWritesFields
<1> QED BY <1>1, <1>2, <1>3, <1>4, LocalAccount

-----------------------------------------------------------------------------
(* COMMIT                                                                  *)

\* An identifier whose row the transaction writes is new, or it is that of a
\* deferred event which the transaction settles.
Upgrade(p, i) ==
    \/ ws[p].outcome[i] = ""
    \/ /\ i = ev[p].id
       /\ ws[p].outcome[i] \in Classification
       /\ processed[i] = NotProcessed
    \/ /\ i # ev[p].id
       /\ ws[p].outcome[i] \in Settled
       /\ processed[i].outcome = "OUT_OF_ORDER"
       /\ processed[i].row \in ws[p].settle
       /\ processed[i].row \in Rows /\ processed[i].row.id = i

\* What COMMIT does to the row of identifier i.
Posted(p, i) ==
    /\ ws[p].outcome[i] = "" => processed'[i] = processed[i]
    /\ ws[p].outcome[i] # "" => /\ processed'[i].row = Recorded(p, i)
                                /\ processed'[i].outcome = ws[p].outcome[i]

\* f is h followed by g.
Joined(f, h, g) ==
    /\ \A n \in 1..Len(h) : n \in 1..Len(f) /\ f[n] = h[n]
    /\ \A m \in 1..Len(g) : Len(h) + m \in 1..Len(f) /\ f[Len(h) + m] = g[m]
    /\ \A n \in 1..Len(f) : \/ n \in 1..Len(h)
                            \/ \E m \in 1..Len(g) : n = Len(h) + m

\* The absence of a row has no outcome.
LEMMA NotProcessedOutcome == NotProcessed.outcome = ""
BY DEF NotProcessed

\* The two columns of a processed_events row.
LEMMA ProcessedFields ==
    \A r, c : [row |-> r, outcome |-> c].row = r /\ [row |-> r, outcome |-> c].outcome = c
OBVIOUS

\* EvaluateTransition knows four answers.
LEMMA EvaluateType == \A s, t : EvaluateTransition(s, t) \in Classification
BY DEF EvaluateTransition, Classification

\* Concatenation joins.
LEMMA ConcatJoins ==
    ASSUME NEW h \in Seq(HistoryRow), NEW g \in Seq(HistoryRow)
    PROVE  Joined(h \o g, h, g)
<1> DEFINE f == h \o g
<1>1. /\ Len(h) \in Nat /\ Len(g) \in Nat
      /\ Len(f) = Len(h) + Len(g)
      /\ \A n \in 1..Len(h) : f[n] = h[n]
      /\ \A m \in 1..Len(g) : f[Len(h) + m] = g[m]
  <2>1. /\ f \in Seq(HistoryRow) /\ Len(f) = Len(h) + Len(g)
        /\ \A n \in 1..Len(h) : f[n] = h[n]
        /\ \A n \in (Len(h) + 1)..(Len(h) + Len(g)) : f[n] = g[n - Len(h)]
        /\ Len(h) \in Nat /\ Len(g) \in Nat
      BY ConcatProperties, LenProperties
  <2> HIDE DEF f
  <2>2. ASSUME NEW m \in 1..Len(g) PROVE f[Len(h) + m] = g[m]
    <3>1. Len(h) + m \in (Len(h) + 1)..(Len(h) + Len(g)) /\ (Len(h) + m) - Len(h) = m
        BY <2>1
    <3> QED BY <2>1, <3>1
  <2> QED BY <2>1, <2>2
<1> HIDE DEF f
<1>2. \A n \in 1..Len(h) : n \in 1..Len(f)
    BY <1>1
<1>3. \A m \in 1..Len(g) : Len(h) + m \in 1..Len(f)
    BY <1>1
<1>4. ASSUME NEW n \in 1..Len(f), n \notin 1..Len(h)
      PROVE  \E m \in 1..Len(g) : n = Len(h) + m
  <2>1. n - Len(h) \in 1..Len(g) /\ n = Len(h) + (n - Len(h))
      BY <1>1, <1>4
  <2> QED BY <2>1
<1>5. Joined(f, h, g)
    BY <1>1, <1>2, <1>3, <1>4 DEF Joined
<1> QED BY <1>5 DEF f

\* What is known of the transaction when it commits.
LEMMA AtCommit ==
    ASSUME AccountInv, NEW p \in Procs, pc[p] = "commit"
    PROVE  /\ \A i \in EventIDs : Upgrade(p, i)
           /\ Writes(p) /\ Trail(p) /\ Standing(p)
           /\ ev[p] \in Rows /\ ev[p].id \in EventIDs /\ ev[p].order \in Orders
           /\ ws[p] \in WriteSet
<1>1. /\ TypeOK /\ Accounts(p) /\ EventAccountedOnce /\ Booked
    BY DEF AccountInv, SerialInv
<1>2. Writes(p) /\ Trail(p) /\ Standing(p)
    BY <1>1 DEF Accounts, InLock
<1>3. ev[p] \in Rows /\ ev[p].id \in EventIDs /\ ev[p].order \in Orders /\ ws[p] \in WriteSet
    BY <1>1, InTransaction
<1>4. ASSUME NEW i \in EventIDs PROVE Upgrade(p, i)
  <2>1. CASE ws[p].outcome[i] = ""
      BY <2>1 DEF Upgrade
  <2>2. CASE ws[p].outcome[i] # "" /\ i = ev[p].id
    <3>1. ws[p].outcome[i] \in Classification
      <4>1. ws[p] # NoWrites
          BY <1>3, <2>2, NoWritesFields
      <4> QED BY <1>2, <2>2, <4>1, EvaluateType DEF Standing
    <3>2. processed[i] = NotProcessed
        BY <1>2, <2>2 DEF Writes, Fresh
    <3> QED BY <2>2, <3>1, <3>2 DEF Upgrade
  <2>3. CASE ws[p].outcome[i] # "" /\ i # ev[p].id
    <3>1. processed[i].outcome = "OUT_OF_ORDER" /\ processed[i].row \in ws[p].settle
        BY <1>2, <2>3 DEF Writes, Fresh
    <3>2. processed[i] # NotProcessed
        BY <3>1, NotProcessedOutcome
    <3>3. processed[i].row \in Rows /\ processed[i].row.id = i
        BY <1>1, <3>2 DEF Booked
    <3>4. ws[p].outcome[processed[i].row.id] \in Settled
        BY <1>2, <3>1 DEF Writes, Settles
    <3> QED BY <2>3, <3>1, <3>3, <3>4 DEF Upgrade
  <2> QED BY <2>1, <2>2, <2>3
<1> QED BY <1>2, <1>3, <1>4

\* What COMMIT makes of the tables.
LEMMA CommitEffect ==
    ASSUME AccountInv, NEW p \in Procs, Commit(p)
    PROVE  /\ \A i \in EventIDs : Posted(p, i)
           /\ Joined(history'[ev[p].order], history[ev[p].order], ws[p].history)
           /\ \A o \in Orders \ {ev[p].order} : history'[o] = history[o]
           /\ pending' = (pending \cup ws[p].defer) \ ws[p].settle
           /\ \A i \in EventIDs : deadLetters'[i] = deadLetters[i] + ws[p].dead[i]
<1>1. /\ TypeOK /\ pc[p] = "commit" /\ MakeVisible(p)
    BY DEF AccountInv, SerialInv, Commit
<1>2. ev[p].order \in Orders /\ ws[p] \in WriteSet
    BY <1>1, InTransaction
<1>3. ASSUME NEW i \in EventIDs PROVE Posted(p, i)
  <2>1. processed'[i] = IF ws[p].outcome[i] = "" THEN processed[i]
                        ELSE [row |-> Recorded(p, i), outcome |-> ws[p].outcome[i]]
      BY <1>1 DEF MakeVisible, Recorded
  <2>2. CASE ws[p].outcome[i] = ""
      BY <2>1, <2>2 DEF Posted
  <2>3. CASE ws[p].outcome[i] # ""
    <3>1. processed'[i] = [row |-> Recorded(p, i), outcome |-> ws[p].outcome[i]]
        BY <2>1, <2>3
    <3>2. processed'[i].row = Recorded(p, i) /\ processed'[i].outcome = ws[p].outcome[i]
        BY <3>1, ProcessedFields
    <3> QED BY <2>3, <3>2 DEF Posted
  <2> QED BY <2>2, <2>3
<1>4. Joined(history'[ev[p].order], history[ev[p].order], ws[p].history)
  <2>1. history'[ev[p].order] = history[ev[p].order] \o ws[p].history
      BY <1>1, <1>2 DEF MakeVisible, TypeOK
  <2>2. history[ev[p].order] \in Seq(HistoryRow) /\ ws[p].history \in Seq(HistoryRow)
      BY <1>1, <1>2 DEF TypeOK, WriteSet
  <2> QED BY <2>1, <2>2, ConcatJoins
<1>5. \A o \in Orders \ {ev[p].order} : history'[o] = history[o]
    BY <1>1, <1>2 DEF MakeVisible, TypeOK
<1>6. pending' = (pending \cup ws[p].defer) \ ws[p].settle
    BY <1>1 DEF MakeVisible
<1>7. \A i \in EventIDs : deadLetters'[i] = deadLetters[i] + ws[p].dead[i]
    BY <1>1 DEF MakeVisible
<1> QED BY <1>3, <1>4, <1>5, <1>6, <1>7

\* The committed history before COMMIT does not mention an identifier whose row
\* the transaction writes.
LEMMA WrittenIsNotHistory ==
    ASSUME AccountInv, NEW p \in Procs, NEW i \in EventIDs, Upgrade(p, i),
           ws[p].outcome[i] # ""
    PROVE  /\ processed[i].outcome \in {"", "OUT_OF_ORDER"}
           /\ \A o \in Orders : ~HasId(history[o], i)
<1>1. processed[i].outcome \in {"", "OUT_OF_ORDER"}
    BY NotProcessedOutcome DEF Upgrade
<1>2. EventAccountedOnce
    BY DEF AccountInv
<1> QED BY <1>1, <1>2 DEF EventAccountedOnce, HasId

\* A row of the history after COMMIT was there before, or p has added it.
Old(o, n) == n \in 1..Len(history[o]) /\ history'[o][n] = history[o][n]

Added(p, o, n) == /\ o = ev[p].order
                  /\ \E m \in 1..Len(ws[p].history) :
                        n = Len(history[o]) + m /\ history'[o][n] = ws[p].history[m]

\* The rows of the committed history after COMMIT: those before it, and the
\* rows the transaction wrote.
LEMMA HistoryAfter ==
    ASSUME NEW p \in Procs, ev[p].order \in Orders, NEW o \in Orders,
           Joined(history'[ev[p].order], history[ev[p].order], ws[p].history),
           \A x \in Orders \ {ev[p].order} : history'[x] = history[x],
           NEW n \in 1..Len(history'[o])
    PROVE  Old(o, n) \/ Added(p, o, n)
<1>1. CASE o # ev[p].order
    BY <1>1 DEF Old
<1>2. CASE o = ev[p].order
  <2>1. CASE n \in 1..Len(history[o])
      BY <1>2, <2>1 DEF Joined, Old
  <2>2. CASE n \notin 1..Len(history[o])
    <3>1. PICK m \in 1..Len(ws[p].history) : n = Len(history[o]) + m
        BY <1>2, <2>2 DEF Joined
    <3>2. history'[o][Len(history[o]) + m] = ws[p].history[m]
        BY <1>2 DEF Joined
    <3> QED BY <1>2, <3>1, <3>2 DEF Added
  <2> QED BY <2>1, <2>2
<1> QED BY <1>1, <1>2

\* An identifier is in the history after COMMIT if it was before, or if the
\* transaction wrote a row for it.
LEMMA IdsAfter ==
    ASSUME NEW p \in Procs, ev[p].order \in Orders, NEW i,
           Joined(history'[ev[p].order], history[ev[p].order], ws[p].history),
           \A x \in Orders \ {ev[p].order} : history'[x] = history[x]
    PROVE  (\E o \in Orders : HasId(history'[o], i)) <=>
               \/ \E o \in Orders : HasId(history[o], i)
               \/ HasId(ws[p].history, i)
<1>1. ASSUME NEW o \in Orders, HasId(history'[o], i)
      PROVE  (\E x \in Orders : HasId(history[x], i)) \/ HasId(ws[p].history, i)
  <2>1. PICK n \in 1..Len(history'[o]) : history'[o][n].id = i
      BY <1>1 DEF HasId
  <2>2. Old(o, n) \/ Added(p, o, n)
      BY HistoryAfter
  <2> QED BY <2>1, <2>2 DEF HasId, Old, Added
<1>2. ASSUME NEW o \in Orders, HasId(history[o], i)
      PROVE  HasId(history'[o], i)
  <2>1. PICK n \in 1..Len(history[o]) : history[o][n].id = i
      BY <1>2 DEF HasId
  <2>2. n \in 1..Len(history'[o]) /\ history'[o][n] = history[o][n]
    <3>1. CASE o # ev[p].order
        BY <3>1
    <3>2. CASE o = ev[p].order
        BY <3>2 DEF Joined
    <3> QED BY <3>1, <3>2
  <2> QED BY <2>1, <2>2 DEF HasId
<1>3. ASSUME HasId(ws[p].history, i)
      PROVE  HasId(history'[ev[p].order], i)
  <2>1. PICK m \in 1..Len(ws[p].history) : ws[p].history[m].id = i
      BY <1>3 DEF HasId
  <2>2. /\ Len(history[ev[p].order]) + m \in 1..Len(history'[ev[p].order])
        /\ history'[ev[p].order][Len(history[ev[p].order]) + m] = ws[p].history[m]
      BY DEF Joined
  <2> QED BY <2>1, <2>2 DEF HasId
<1> QED BY <1>1, <1>2, <1>3

\* The tables agree about identifier i.
AccountedFor(i) ==
    /\ processed[i].outcome # "RECEIVED"
    /\ deadLetters[i] = IF processed[i].outcome = "INVALID_TRANSITION" THEN 1 ELSE 0
    /\ processed[i].outcome = "OUT_OF_ORDER" <=> \E r \in pending : r.id = i
    /\ processed[i].outcome = "APPLIED" <=> \E o \in Orders : HasId(history[o], i)

\* No event has two history rows.
NoEventTwice ==
    \A o1, o2 \in Orders :
        \A n1 \in 1..Len(history[o1]), n2 \in 1..Len(history[o2]) :
            history[o1][n1].id = history[o2][n2].id => o1 = o2 /\ n1 = n2

\* These are the parts of EventAccountedOnce.
LEMMA AccountedParts ==
    EventAccountedOnce <=> /\ \A i \in EventIDs : AccountedFor(i)
                           /\ \A r \in pending : processed[r.id].row = r
                           /\ NoEventTwice
BY DEF EventAccountedOnce, AccountedFor, NoEventTwice, HasId

\* A pending row is that of a deferred event.
LEMMA PendingIsDeferred ==
    ASSUME AccountInv, NEW r \in pending
    PROVE  /\ r \in Rows /\ r.id \in EventIDs
           /\ processed[r.id].row = r /\ processed[r.id].outcome = "OUT_OF_ORDER"
           /\ processed[r.id] # NotProcessed
<1>1. r \in Rows /\ EventAccountedOnce
    BY DEF AccountInv, SerialInv, TypeOK
<1>2. r.id \in EventIDs
    BY <1>1 DEF Rows
<1>3. processed[r.id].row = r
    BY <1>1 DEF EventAccountedOnce
<1>4. processed[r.id].outcome = "OUT_OF_ORDER"
    BY <1>1, <1>2 DEF EventAccountedOnce
<1> QED BY <1>1, <1>2, <1>3, <1>4, NotProcessedOutcome

\* COMMIT leaves the tables in agreement about every identifier.
LEMMA CommitAccountsFor ==
    ASSUME AccountInv, NEW p \in Procs, Commit(p), NEW i \in EventIDs
    PROVE  AccountedFor(i)'
<1>1. /\ Upgrade(p, i) /\ Writes(p)
      /\ ev[p] \in Rows /\ ev[p].id \in EventIDs /\ ev[p].order \in Orders
      /\ ws[p] \in WriteSet
    BY AtCommit DEF Commit
<1>2. Posted(p, i)
    BY CommitEffect
<1>3. /\ Joined(history'[ev[p].order], history[ev[p].order], ws[p].history)
      /\ \A o \in Orders \ {ev[p].order} : history'[o] = history[o]
    BY CommitEffect
<1>4. pending' = (pending \cup ws[p].defer) \ ws[p].settle
    BY CommitEffect
<1>5. deadLetters'[i] = deadLetters[i] + ws[p].dead[i]
    BY CommitEffect
<1>6. AccountedFor(i) /\ deadLetters[i] \in Nat
    BY AccountedParts DEF AccountInv, SerialInv, TypeOK
<1>7. /\ ws[p].outcome[i] = "APPLIED" <=> HasId(ws[p].history, i)
      /\ ws[p].dead[i] = IF ws[p].outcome[i] = "INVALID_TRANSITION" THEN 1 ELSE 0
    BY <1>1 DEF Writes, Placed
<1>8. (\E o \in Orders : HasId(history'[o], i)) <=>
          (\E o \in Orders : HasId(history[o], i)) \/ HasId(ws[p].history, i)
    BY <1>1, <1>3, IdsAfter
<1>9. \A r \in ws[p].settle : ws[p].outcome[r.id] \in Settled
    BY <1>1 DEF Writes, Settles
<1>10. ws[p].defer = IF ws[p].outcome[ev[p].id] = "OUT_OF_ORDER" THEN {ev[p]} ELSE {}
    BY <1>1 DEF Writes, Defers
<1>11. CASE ws[p].outcome[i] = ""
  <2>1. processed'[i] = processed[i]
      BY <1>2, <1>11 DEF Posted
  <2>2. deadLetters'[i] = deadLetters[i]
    <3>1. ws[p].dead[i] = 0
        BY <1>7, <1>11
    <3> QED BY <1>5, <1>6, <3>1
  <2>3. (\E r \in pending' : r.id = i) <=> \E r \in pending : r.id = i
    <3>1. \A r \in ws[p].settle : r.id # i
        BY <1>9, <1>11 DEF Settled
    <3>2. \A r \in ws[p].defer : r.id # i
        BY <1>10, <1>11
    <3> QED BY <1>4, <3>1, <3>2
  <2>4. (\E o \in Orders : HasId(history'[o], i)) <=> \E o \in Orders : HasId(history[o], i)
      BY <1>7, <1>8, <1>11
  <2> QED BY <1>6, <2>1, <2>2, <2>3, <2>4 DEF AccountedFor
<1>12. CASE ws[p].outcome[i] # ""
  <2>1. processed'[i].outcome = ws[p].outcome[i]
      BY <1>2, <1>12 DEF Posted
  <2>2. /\ processed[i].outcome \in {"", "OUT_OF_ORDER"}
        /\ \A o \in Orders : ~HasId(history[o], i)
      BY <1>1, <1>12, WrittenIsNotHistory
  <2>3. ws[p].outcome[i] # "RECEIVED"
      BY <1>1, <1>12 DEF Upgrade, Classification, Settled
  <2>4. deadLetters'[i] = IF ws[p].outcome[i] = "INVALID_TRANSITION" THEN 1 ELSE 0
    <3>1. deadLetters[i] = 0
        BY <1>6, <2>2 DEF AccountedFor
    <3> QED BY <1>5, <1>7, <3>1
  <2>5. ws[p].outcome[i] = "OUT_OF_ORDER" <=> \E r \in pending' : r.id = i
    <3>1. CASE i = ev[p].id
      <4>1. processed[i] = NotProcessed
          BY <1>1, <1>12, <3>1 DEF Upgrade
      <4>2. \A r \in pending : r.id # i
          BY <4>1, PendingIsDeferred
      <4>3. CASE ws[p].outcome[i] = "OUT_OF_ORDER"
        <5>1. ev[p] \notin ws[p].settle
            BY <1>9, <3>1, <4>3 DEF Settled
        <5>2. ev[p] \in ws[p].defer
            BY <1>10, <3>1, <4>3
        <5>3. ev[p] \in pending'
            BY <1>4, <5>1, <5>2
        <5> QED BY <3>1, <4>3, <5>3
      <4>4. CASE ws[p].outcome[i] # "OUT_OF_ORDER"
        <5>1. ws[p].defer = {}
            BY <1>10, <3>1, <4>4
        <5> QED BY <1>4, <4>2, <4>4, <5>1
      <4> QED BY <4>3, <4>4
    <3>2. CASE i # ev[p].id
      <4>1. /\ ws[p].outcome[i] \in Settled
            /\ processed[i].row \in ws[p].settle
          BY <1>1, <1>12, <3>2 DEF Upgrade
      <4>2. ASSUME NEW r \in pending', r.id = i PROVE FALSE
        <5>1. r \notin ws[p].settle /\ (r \in pending \/ r \in ws[p].defer)
            BY <1>4
        <5>2. r \notin ws[p].defer
            BY <1>10, <3>2, <4>2
        <5>3. processed[r.id].row = r
            BY <5>1, <5>2, PendingIsDeferred
        <5> QED BY <4>1, <4>2, <5>1, <5>3
      <4> QED BY <4>1, <4>2 DEF Settled
    <3> QED BY <3>1, <3>2
  <2>6. ws[p].outcome[i] = "APPLIED" <=> \E o \in Orders : HasId(history'[o], i)
      BY <1>7, <1>8, <2>2
  <2> QED BY <2>1, <2>3, <2>4, <2>5, <2>6 DEF AccountedFor
<1> QED BY <1>11, <1>12

\* COMMIT changes the event recorded under an identifier only from none to its own.
LEMMA RowAfter ==
    ASSUME AccountInv, NEW p \in Procs, Commit(p), NEW i \in EventIDs
    PROVE  /\ processed[i] # NotProcessed => processed'[i].row = processed[i].row
           /\ ws[p].outcome[i] # "" => processed'[i].row = Recorded(p, i)
<1>1. Upgrade(p, i) /\ Posted(p, i)
    BY AtCommit, CommitEffect DEF Commit
<1>2. processed[i] # NotProcessed /\ ws[p].outcome[i] # "" => i # ev[p].id
    BY <1>1 DEF Upgrade
<1> QED BY <1>1, <1>2 DEF Posted, Recorded

\* Every pending row after COMMIT is that of its event.
LEMMA CommitPendingRows ==
    ASSUME AccountInv, NEW p \in Procs, Commit(p)
    PROVE  \A r \in pending' : processed'[r.id].row = r
<1>1. Writes(p) /\ ev[p].id \in EventIDs /\ pending' = (pending \cup ws[p].defer) \ ws[p].settle
    BY AtCommit, CommitEffect DEF Commit
<1>2. ASSUME NEW r \in pending' PROVE processed'[r.id].row = r
  <2>1. CASE r \in pending
    <3>1. r.id \in EventIDs /\ processed[r.id].row = r /\ processed[r.id] # NotProcessed
        BY <2>1, PendingIsDeferred
    <3> QED BY <3>1, RowAfter
  <2>2. CASE r \in ws[p].defer
    <3>1. r = ev[p] /\ ws[p].outcome[ev[p].id] # ""
        BY <1>1, <2>2 DEF Writes, Defers
    <3>2. processed'[ev[p].id].row = Recorded(p, ev[p].id)
        BY <1>1, <3>1, RowAfter
    <3> QED BY <3>1, <3>2 DEF Recorded
  <2> QED BY <1>1, <2>1, <2>2
<1> QED BY <1>2

\* A committed history row is that of an APPLIED event.
LEMMA HistoryIsApplied ==
    ASSUME AccountInv, NEW o \in Orders, NEW n \in 1..Len(history[o])
    PROVE  /\ history[o][n].id \in EventIDs
           /\ processed[history[o][n].id].outcome = "APPLIED"
           /\ processed[history[o][n].id] # NotProcessed
<1>1. history[o] \in Seq(HistoryRow)
    BY DEF AccountInv, SerialInv, TypeOK
<1>2. history[o][n].id \in EventIDs
    BY <1>1, HistoryIds
<1>3. HasId(history[o], history[o][n].id)
    BY DEF HasId
<1>4. AccountedFor(history[o][n].id)
    BY <1>2, AccountedParts DEF AccountInv
<1>5. processed[history[o][n].id].outcome = "APPLIED"
    BY <1>3, <1>4 DEF AccountedFor
<1> QED BY <1>2, <1>5, NotProcessedOutcome

\* A history row of the transaction is that of an event it applies.
LEMMA WrittenIsApplied ==
    ASSUME NEW p \in Procs, Writes(p), ws[p] \in WriteSet, NEW m \in 1..Len(ws[p].history)
    PROVE  /\ ws[p].history[m].id \in EventIDs
           /\ ws[p].outcome[ws[p].history[m].id] = "APPLIED"
<1>1. ws[p].history \in Seq(HistoryRow)
    BY DEF WriteSet
<1>2. ws[p].history[m].id \in EventIDs
    BY <1>1, HistoryIds
<1>3. HasId(ws[p].history, ws[p].history[m].id)
    BY DEF HasId
<1> QED BY <1>2, <1>3 DEF Writes, Placed

\* What COMMIT appends is not in the history yet.
LEMMA AddedIsNew ==
    ASSUME AccountInv, NEW p \in Procs, Commit(p),
           NEW o \in Orders, NEW n \in 1..Len(history[o]),
           NEW m \in 1..Len(ws[p].history)
    PROVE  history[o][n].id # ws[p].history[m].id
<1>1. Writes(p) /\ ws[p] \in WriteSet /\ \A i \in EventIDs : Upgrade(p, i)
    BY AtCommit DEF Commit
<1>2. /\ ws[p].history[m].id \in EventIDs
      /\ ws[p].outcome[ws[p].history[m].id] = "APPLIED"
    BY <1>1, WrittenIsApplied
<1>3. ~HasId(history[o], ws[p].history[m].id)
    BY <1>1, <1>2, WrittenIsNotHistory
<1> QED BY <1>3 DEF HasId

\* COMMIT appends no event twice.
LEMMA CommitNoEventTwice ==
    ASSUME AccountInv, NEW p \in Procs, Commit(p)
    PROVE  NoEventTwice'
<1>1. /\ ev[p].order \in Orders /\ Trail(p) /\ NoEventTwice
      /\ Joined(history'[ev[p].order], history[ev[p].order], ws[p].history)
      /\ \A x \in Orders \ {ev[p].order} : history'[x] = history[x]
    BY AtCommit, CommitEffect, AccountedParts DEF Commit, AccountInv
<1> SUFFICES ASSUME NEW o1 \in Orders, NEW o2 \in Orders,
                    NEW n1 \in 1..Len(history'[o1]), NEW n2 \in 1..Len(history'[o2]),
                    history'[o1][n1].id = history'[o2][n2].id
             PROVE  o1 = o2 /\ n1 = n2
    BY DEF NoEventTwice
<1>2. (Old(o1, n1) \/ Added(p, o1, n1)) /\ (Old(o2, n2) \/ Added(p, o2, n2))
    BY <1>1, HistoryAfter
<1>3. CASE Old(o1, n1) /\ Old(o2, n2)
    BY <1>1, <1>3 DEF Old, NoEventTwice
<1>4. CASE Added(p, o1, n1) /\ Added(p, o2, n2)
  <2>1. PICK m1 \in 1..Len(ws[p].history) :
            n1 = Len(history[o1]) + m1 /\ history'[o1][n1] = ws[p].history[m1]
      BY <1>4 DEF Added
  <2>2. PICK m2 \in 1..Len(ws[p].history) :
            n2 = Len(history[o2]) + m2 /\ history'[o2][n2] = ws[p].history[m2]
      BY <1>4 DEF Added
  <2>3. m1 = m2
      BY <1>1, <2>1, <2>2 DEF Trail, NoRepeats
  <2>4. o1 = o2
      BY <1>4 DEF Added
  <2> QED BY <2>1, <2>2, <2>3, <2>4
<1>5. CASE Old(o1, n1) /\ Added(p, o2, n2)
    BY <1>5, AddedIsNew DEF Old, Added
<1>6. CASE Added(p, o1, n1) /\ Old(o2, n2)
    BY <1>6, AddedIsNew DEF Old, Added
<1> QED BY <1>2, <1>3, <1>4, <1>5, <1>6

\* COMMIT keeps the rows complete and the history in agreement with them.
LEMMA CommitBooked ==
    ASSUME AccountInv, NEW p \in Procs, Commit(p)
    PROVE  Booked'
<1>1. /\ \A i \in EventIDs : Upgrade(p, i)
      /\ Writes(p) /\ Trail(p) /\ ev[p] \in Rows /\ ev[p].order \in Orders
      /\ ws[p] \in WriteSet /\ Booked
    BY AtCommit DEF Commit, AccountInv
<1>2. ASSUME NEW i \in EventIDs
      PROVE  /\ processed'[i].outcome = "" <=> processed'[i] = NotProcessed
             /\ processed'[i] # NotProcessed =>
                   processed'[i].row \in Rows /\ processed'[i].row.id = i
  <2>1. Posted(p, i) /\ Upgrade(p, i)
      BY <1>1, CommitEffect
  <2>2. CASE ws[p].outcome[i] = ""
      BY <1>1, <2>1, <2>2 DEF Posted, Booked
  <2>3. CASE ws[p].outcome[i] # ""
    <3>1. processed'[i].outcome = ws[p].outcome[i] /\ processed'[i].row = Recorded(p, i)
        BY <2>1, <2>3 DEF Posted
    <3>2. processed'[i] # NotProcessed
        BY <2>3, <3>1, NotProcessedOutcome
    <3>3. Recorded(p, i) \in Rows /\ Recorded(p, i).id = i
        BY <1>1, <2>1, <2>3 DEF Upgrade, Recorded
    <3> QED BY <2>3, <3>1, <3>2, <3>3
  <2> QED BY <2>2, <2>3
<1>3. ASSUME NEW o \in Orders, NEW n \in 1..Len(history'[o])
      PROVE  /\ processed'[history'[o][n].id].row.order = o
             /\ processed'[history'[o][n].id].row.status = history'[o][n].to
  <2>1. Old(o, n) \/ Added(p, o, n)
      BY <1>1, CommitEffect, HistoryAfter
  <2>2. CASE Old(o, n)
    <3>1. n \in 1..Len(history[o]) /\ history'[o][n] = history[o][n]
        BY <2>2 DEF Old
    <3>2. history[o][n].id \in EventIDs /\ processed[history[o][n].id] # NotProcessed
        BY <3>1, HistoryIsApplied
    <3>3. processed'[history[o][n].id].row = processed[history[o][n].id].row
        BY <3>2, RowAfter
    <3>4. /\ processed[history[o][n].id].row.order = o
          /\ processed[history[o][n].id].row.status = history[o][n].to
        BY <1>1, <3>1 DEF Booked
    <3> QED BY <3>1, <3>3, <3>4
  <2>3. CASE Added(p, o, n)
    <3>1. PICK m \in 1..Len(ws[p].history) : history'[o][n] = ws[p].history[m]
        BY <2>3 DEF Added
    <3> DEFINE i == ws[p].history[m].id
    <3>2. i \in EventIDs /\ ws[p].outcome[i] = "APPLIED"
        BY <1>1, WrittenIsApplied
    <3>3. ws[p].history[m].to = Recorded(p, i).status
        BY <1>1 DEF Trail, Truthful
    <3>4. o = ev[p].order
        BY <2>3 DEF Added
    <3> HIDE DEF i
    <3>5. processed'[i].row = Recorded(p, i)
        BY <3>2, RowAfter
    <3>6. Recorded(p, i).order = ev[p].order
      <4>1. CASE i = ev[p].id
          BY <4>1 DEF Recorded
      <4>2. CASE i # ev[p].id
        <5>1. processed[i].row \in ws[p].settle
            BY <1>1, <3>2, <4>2 DEF Upgrade
        <5> QED BY <1>1, <4>2, <5>1 DEF Recorded, Writes, Settles
      <4> QED BY <4>1, <4>2
    <3> QED BY <3>1, <3>3, <3>4, <3>5, <3>6 DEF i
  <2> QED BY <2>1, <2>2, <2>3
<1> QED BY <1>2, <1>3 DEF Booked

\* COMMIT makes the success it reports durable, and undoes nobody else's.
LEMMA CommitDurable ==
    ASSUME AccountInv, NEW p \in Procs, Commit(p)
    PROVE  SuccessIsDurable'
<1>1. /\ \A i \in EventIDs : Upgrade(p, i)
      /\ Standing(p) /\ ev[p] \in Rows /\ ev[p].id \in EventIDs
      /\ TypeOK /\ SuccessIsDurable /\ EventAccountedOnce /\ Booked /\ pc[p] = "commit"
    BY AtCommit DEF Commit, AccountInv, SerialInv
<1>2. \A i \in EventIDs : Posted(p, i)
    BY CommitEffect
<1>3. /\ ev' = ev
      /\ \A q \in Procs \ {p} : result'[q] = result[q]
      /\ \/ result'[p] = [result[p] EXCEPT !.status = "ok"]
         \/ result'[p] = Failed
      /\ result[p] \in Results
    BY <1>1 DEF Commit, EndTx, TypeOK
<1> SUFFICES ASSUME NEW q \in Procs, result'[q].status = "ok"
             PROVE  /\ processed'[ev[q].id].outcome \in Classification
                    /\ result'[q].class # "DUPLICATE_EVENT" => processed'[ev[q].id].row = ev[q]
    BY <1>3 DEF SuccessIsDurable
<1>4. Settled \subseteq Classification /\ "" \notin Classification
    BY DEF Settled, Classification
<1>5. CASE q # p
  <2>1. /\ processed[ev[q].id].outcome \in Classification
        /\ result[q].class # "DUPLICATE_EVENT" => processed[ev[q].id].row = ev[q]
        /\ result'[q] = result[q]
      BY <1>1, <1>3, <1>5 DEF SuccessIsDurable
  <2>2. processed[ev[q].id] # NotProcessed
      BY <1>4, <2>1, NotProcessedOutcome
  <2>3. ev[q].id \in EventIDs
    <3>1. ev[q] \in Rows
        BY <2>1 DEF AccountInv, Answered
    <3> QED BY <3>1 DEF Rows
  <2>4. Upgrade(p, ev[q].id) /\ Posted(p, ev[q].id)
      BY <1>1, <1>2, <2>3
  <2>5. processed'[ev[q].id].outcome \in Classification
      BY <1>4, <2>1, <2>2, <2>4 DEF Upgrade, Posted
  <2>6. processed'[ev[q].id].row = processed[ev[q].id].row
      BY <2>2, <2>3, RowAfter
  <2> QED BY <2>1, <2>5, <2>6
<1>6. CASE q = p
  <2> DEFINE i == ev[p].id
  <2>1. result'[p].class = result[p].class
    <3>1. Failed.status # "ok"
        BY DEF Failed
    <3>2. result'[p] = [result[p] EXCEPT !.status = "ok"]
        BY <1>3, <1>6, <3>1
    <3> QED BY <1>3, <3>2 DEF Results
  <2>2. Upgrade(p, i) /\ Posted(p, i) /\ i \in EventIDs
      BY <1>1, <1>2
  <2>3. CASE ws[p].outcome[i] # ""
    <3>1. processed'[i].outcome \in Classification
        BY <1>4, <2>2, <2>3 DEF Upgrade, Posted
    <3>2. processed'[i].row = ev[p]
        BY <2>2, <2>3 DEF Posted, Recorded
    <3> QED BY <1>6, <3>1, <3>2
  <2>4. CASE ws[p].outcome[i] = ""
    <3>1. result[p].class = "DUPLICATE_EVENT" /\ processed[i] # NotProcessed
      <4>1. EvaluateTransition(Committed(p), ev[p].status) # ""
          BY <1>4, EvaluateType
      <4> QED BY <1>1, <2>4, <4>1 DEF Standing
    <3>2. processed[i].outcome \in Classification
      <4>1. processed[i].outcome # "" /\ processed[i].outcome # "RECEIVED"
          BY <1>1, <2>2, <3>1 DEF Booked, EventAccountedOnce
      <4>2. processed[i].outcome \in Outcome \cup {""}
          BY <1>1, <2>2 DEF TypeOK
      <4> QED BY <4>1, <4>2 DEF Outcome
    <3>3. processed'[i] = processed[i]
        BY <2>2, <2>4 DEF Posted
    <3> QED BY <1>6, <2>1, <3>1, <3>2, <3>3
  <2> QED BY <2>3, <2>4
<1> QED BY <1>5, <1>6

\* COMMIT leaves the open transactions of the other callers accounted for.
LEMMA CommitOthers ==
    ASSUME AccountInv, NEW p \in Procs, Commit(p), Booked', NEW q \in Procs \ {p}
    PROVE  Accounts(q)'
<1>1. /\ SerialInv /\ TypeOK /\ Accounts(q) /\ Exclusive /\ InLock(p)
    BY DEF AccountInv, SerialInv, InLock, Commit
<1>2. pc'[q] = pc[q] /\ ws'[q] = ws[q] /\ ev' = ev /\ result'[q] = result[q]
    BY <1>1 DEF Commit, EndTx, TypeOK
<1>3. Writes(p) /\ ev[p].order \in Orders /\ \A i \in EventIDs : Posted(p, i)
    BY AtCommit, CommitEffect DEF Commit
<1>4. ASSUME InLock(q)
      PROVE  /\ Committed(q)' = Committed(q)
             /\ \A i \in EventIDs : ws[q].outcome[i] # "" => processed'[i] = processed[i]
             /\ processed[ev[q].id] # NotProcessed => processed'[ev[q].id] # NotProcessed
             /\ \A r \in ws[q].settle : r \in pending'
  <2>1. ev[q].order # ev[p].order /\ ev[q].order \in Orders /\ ev[q].id \in EventIDs
      BY <1>1, <1>4, OtherOrder, InTransaction DEF InLock
  <2>2. Committed(q)' = Committed(q)
    <3>1. orders'[ev[q].order] = orders[ev[q].order]
        BY <1>1, <1>3, <2>1 DEF Commit, MakeVisible, TypeOK
    <3> QED BY <1>2, <3>1 DEF Committed
  <2>3. ASSUME NEW i \in EventIDs, ws[q].outcome[i] # "" PROVE processed'[i] = processed[i]
    <3>1. ws[p].outcome[i] = ""
        BY <1>1, <2>3 DEF Exclusive
    <3>2. Posted(p, i)
        BY <1>3
    <3> QED BY <3>1, <3>2 DEF Posted
  <2>4. processed[ev[q].id] # NotProcessed => processed'[ev[q].id] # NotProcessed
    <3>1. Upgrade(p, ev[q].id) /\ Posted(p, ev[q].id)
        BY <1>3, <2>1, AtCommit DEF Commit
    <3>2. CASE ws[p].outcome[ev[q].id] = ""
        BY <3>1, <3>2 DEF Posted
    <3>3. CASE ws[p].outcome[ev[q].id] # ""
        BY <3>1, <3>3, NotProcessedOutcome DEF Posted
    <3> QED BY <3>2, <3>3
  <2>5. ASSUME NEW r \in ws[q].settle PROVE r \in pending'
    <3>1. r \in pending /\ r.order = ev[q].order
        BY <1>1, <1>4 DEF Accounts, Writes, Settles
    <3>2. r \notin ws[p].settle
        BY <1>3, <2>1, <3>1 DEF Writes, Settles
    <3>3. pending' = (pending \cup ws[p].defer) \ ws[p].settle
        BY CommitEffect
    <3> QED BY <3>1, <3>2, <3>3
  <2> QED BY <2>2, <2>3, <2>4, <2>5
<1> QED BY <1>1, <1>2, <1>4, AccountsFrame

\* COMMIT.
LEMMA CommitAccount ==
    ASSUME AccountInv, SerialInv', NEW p \in Procs, Commit(p)
    PROVE  AccountInv'
<1>1. EventAccountedOnce'
  <2>1. \A i \in EventIDs : AccountedFor(i)'
      BY CommitAccountsFor
  <2>2. /\ \A r \in pending' : processed'[r.id].row = r
        /\ NoEventTwice'
      BY CommitPendingRows, CommitNoEventTwice
  <2>3. (EventAccountedOnce <=> /\ \A i \in EventIDs : AccountedFor(i)
                                /\ \A r \in pending : processed[r.id].row = r
                                /\ NoEventTwice)'
      BY AccountedParts, PTL
  <2> QED BY <2>1, <2>2, <2>3
<1>2. SuccessIsDurable'
    BY CommitDurable
<1>3. Booked'
    BY CommitBooked
<1>4. /\ pc'[p] = "idle" /\ ws'[p] = NoWrites
      /\ \A q \in Procs \ {p} : ws'[q] = ws[q]
    BY DEF Commit, EndTx, AccountInv, SerialInv, TypeOK
<1>5. \A q \in Procs : Accounts(q)'
  <2>1. Accounts(p)'
      BY <1>4 DEF Accounts, InLock
  <2> QED BY <1>3, <2>1, CommitOthers
<1>6. Exclusive'
  <2>1. \A i \in EventIDs : ws'[p].outcome[i] = ""
      BY <1>4, NoWritesFields
  <2> SUFFICES ASSUME NEW q \in Procs, NEW r \in Procs, NEW i \in EventIDs,
                      ws'[q].outcome[i] # "", ws'[r].outcome[i] # ""
               PROVE  q = r
      BY DEF Exclusive
  <2>2. q # p /\ r # p
      BY <2>1
  <2>3. ws'[q] = ws[q] /\ ws'[r] = ws[r]
      BY <1>4, <2>2
  <2>4. ws[q].outcome[i] # "" /\ ws[r].outcome[i] # ""
      BY <2>3
  <2> QED BY <2>4, Zenon DEF AccountInv, Exclusive
<1>7. Answered'
  <2>1. ev[p] \in Rows
      BY AtCommit DEF Commit
  <2>2. ev' = ev /\ \A q \in Procs \ {p} : result'[q] = result[q]
      BY DEF Commit, EndTx, AccountInv, SerialInv, TypeOK
  <2> QED BY <2>1, <2>2 DEF AccountInv, Answered
<1> QED BY <1>1, <1>2, <1>3, <1>5, <1>6, <1>7 DEF AccountInv

-----------------------------------------------------------------------------
(* The inductive invariant and what follows from it                        *)

\* The empty database has nothing to account for.
LEMMA InitAccount == Init => AccountInv
<1> SUFFICES ASSUME Init PROVE AccountInv
    OBVIOUS
<1>1. SerialInv
    BY InitSerial
<1>2. /\ \A i \in EventIDs : processed[i] = NotProcessed /\ deadLetters[i] = 0
      /\ \A o \in Orders : history[o] = <<>>
      /\ pending = {}
      /\ \A p \in Procs : pc[p] = "idle" /\ ws[p] = NoWrites /\ result[p] = NoResult
    BY DEF Init
<1>3. \A o \in Orders : \A n : n \notin 1..Len(history[o])
    BY <1>2, EmptyLen
<1>4. EventAccountedOnce
    BY <1>2, <1>3, NotProcessedOutcome DEF EventAccountedOnce
<1>5. \A p \in Procs : result[p].status = "none"
  <2>1. NoResult.status = "none"
      BY DEF NoResult
  <2> QED BY <1>2, <2>1
<1>6. SuccessIsDurable /\ Answered
    BY <1>5 DEF SuccessIsDurable, Answered
<1>7. Booked
    BY <1>2, <1>3, NotProcessedOutcome DEF Booked
<1>8. \A p \in Procs : Accounts(p)
    BY <1>2 DEF Accounts, InLock
<1>9. Exclusive
    BY <1>2, NoWritesFields DEF Exclusive
<1> QED BY <1>1, <1>4, <1>6, <1>7, <1>8, <1>9 DEF AccountInv

\* Every step of every caller keeps the account.
LEMMA NextAccount == AccountInv /\ [Next]_vars => AccountInv'
<1> SUFFICES ASSUME AccountInv, [Next]_vars PROVE AccountInv'
    OBVIOUS
<1>1. SerialInv'
    BY NextSerial DEF AccountInv
<1>2. ASSUME NEW p \in Procs,
             \/ \E e \in Events : BeginTx(p, e) \/ RefuseEvent(p, e) \/ BeginFails(p, e)
             \/ AcquireLock(p)
             \/ insertProcessedEvent(p)
      PROVE  AccountInv'
    BY <1>1, <1>2, OpeningAccount, InsertAccount DEF RefuseEvent, BeginFails
<1>3. ASSUME NEW p \in Procs, Statement(p) PROVE AccountInv'
    BY <1>1, <1>3, LoadAccount, ClassifyAccount, ReplayAccount, CommitAccount
    DEF Statement, TxBody
<1>4. ASSUME NEW p \in Procs, Rollback(p) PROVE AccountInv'
    BY <1>1, <1>4, RollbackAccount
<1>5. CASE UNCHANGED vars
  <2>1. UNCHANGED <<orders, processed, history, pending, deadLetters, pc, ev, ws, result>>
      BY <1>5 DEF vars, tables, locals
  <2>2. EventAccountedOnce' /\ Booked'
      BY <2>1, BooksFrame DEF AccountInv
  <2>3. SuccessIsDurable' /\ Answered' /\ Exclusive'
      BY <2>1 DEF AccountInv, SuccessIsDurable, Answered, Exclusive
  <2>4. ASSUME NEW q \in Procs PROVE Accounts(q)'
    <3>1. TypeOK /\ Accounts(q)
        BY DEF AccountInv, SerialInv
    <3>2. Committed(q)' = Committed(q)
        BY <2>1 DEF Committed
    <3>3. InLock(q) => \A r \in ws[q].settle : r \in pending'
        BY <2>1, <3>1 DEF Accounts, Writes, Settles
    <3> QED BY <2>1, <3>1, <3>2, <3>3, AccountsFrame
  <2> QED BY <1>1, <2>2, <2>3, <2>4 DEF AccountInv
<1> QED BY <1>2, <1>3, <1>4, <1>5 DEF Next

\* Every event_id that was ever committed is accounted for in exactly one place,
\* the one its outcome names, whatever is redelivered, replayed or rolled back
\* and however the transactions interleave.
THEOREM RepositoryAccountsOnce == Spec => []EventAccountedOnce
<1>1. AccountInv => EventAccountedOnce
    BY DEF AccountInv
<1> QED BY InitAccount, NextAccount, <1>1, PTL DEF Spec

\* What ProcessEventTx reported as a success is in the database.
THEOREM RepositorySuccessIsDurable == Spec => []SuccessIsDurable
<1>1. AccountInv => SuccessIsDurable
    BY DEF AccountInv
<1> QED BY InitAccount, NextAccount, <1>1, PTL DEF Spec

-----------------------------------------------------------------------------
(* What is committed is final                                              *)

\* Only COMMIT writes the tables.
LEMMA OnlyCommitWrites ==
    ASSUME [Next]_vars
    PROVE  UNCHANGED tables \/ \E p \in Procs : Commit(p)
<1>1. CASE UNCHANGED vars
    BY <1>1 DEF vars
<1>2. ASSUME NEW p \in Procs,
             \/ \E e \in Events : BeginTx(p, e) \/ RefuseEvent(p, e) \/ BeginFails(p, e)
             \/ AcquireLock(p) \/ insertProcessedEvent(p) \/ Rollback(p)
      PROVE  UNCHANGED tables
    BY <1>2 DEF BeginTx, RefuseEvent, BeginFails, ReturnEarly, AcquireLock,
                insertProcessedEvent, Rollback
<1>3. ASSUME NEW p \in Procs, TxBody(p) PROVE UNCHANGED tables
    BY <1>3 DEF TxBody, loadCurrentStatus, Apply, SkipDuplicateStatus, Defer, Reject, Route,
                ReplayApply, ReplaySkip, ReplayReject, ReplayDone, ReplayRow
<1> QED BY <1>1, <1>2, <1>3 DEF Next, Statement

\* A sequence is the beginning of its concatenation with another.
LEMMA ConcatBegins ==
    ASSUME NEW S, NEW h \in Seq(S), NEW g \in Seq(S)
    PROVE  Len(h \o g) >= Len(h) /\ SubSeq(h \o g, 1, Len(h)) = h
<1>1. /\ Len(h) \in Nat /\ Len(g) \in Nat /\ Len(h \o g) = Len(h) + Len(g)
      /\ h \o g \in Seq(S)
    BY ConcatProperties, LenProperties
<1>2. CASE h = <<>>
  <2>1. Len(h) = 0
      BY <1>2, EmptySeq
  <2> QED BY <1>1, <1>2, <2>1, SubSeqEmpty
<1>3. CASE h # <<>>
  <2>1. 1 \in 1..Len(h) /\ Len(h) \in 1..Len(h)
      BY <1>1, <1>3, EmptySeq
  <2>2. SubSeq(h \o g, 1, Len(h)) = SubSeq(h, 1, Len(h))
      BY <2>1, SubSeqOfConcat1
  <2> QED BY <1>1, <2>2, SubSeqFull
<1> QED BY <1>2, <1>3

\* A committed outcome never changes, except that a deferred event is settled.
LEMMA OutcomesAreFinal ==
    ASSUME AccountInv, [Next]_vars, NEW i \in EventIDs,
           processed[i].outcome \notin {"", "OUT_OF_ORDER"}
    PROVE  processed'[i] = processed[i]
<1>1. CASE UNCHANGED tables
    BY <1>1 DEF tables
<1>2. ASSUME NEW p \in Procs, Commit(p) PROVE processed'[i] = processed[i]
  <2>1. Upgrade(p, i) /\ Posted(p, i)
      BY <1>2, AtCommit, CommitEffect DEF Commit
  <2>2. ws[p].outcome[i] = ""
      BY <2>1, WrittenIsNotHistory
  <2> QED BY <2>1, <2>2 DEF Posted
<1> QED BY <1>1, <1>2, OnlyCommitWrites

\* Committed history is only ever extended.
LEMMA HistoryIsFinal ==
    ASSUME AccountInv, [Next]_vars, NEW o \in Orders
    PROVE  /\ Len(history'[o]) >= Len(history[o])
           /\ SubSeq(history'[o], 1, Len(history[o])) = history[o]
<1>1. TypeOK /\ history[o] \in Seq(HistoryRow) /\ Len(history[o]) \in Nat
    BY LenProperties DEF AccountInv, SerialInv, TypeOK
<1>0. /\ Len(history[o]) >= Len(history[o])
      /\ SubSeq(history[o], 1, Len(history[o])) = history[o]
    BY <1>1, SubSeqFull
<1>2. CASE history'[o] = history[o]
    BY <1>0, <1>2
<1>3. ASSUME NEW p \in Procs, Commit(p)
      PROVE  /\ Len(history'[o]) >= Len(history[o])
             /\ SubSeq(history'[o], 1, Len(history[o])) = history[o]
  <2>1. /\ ev[p].order \in Orders /\ ws[p].history \in Seq(HistoryRow)
        /\ history' = [history EXCEPT ![ev[p].order] = @ \o ws[p].history]
      BY <1>1, <1>3, InTransaction DEF Commit, MakeVisible, WriteSet
  <2>2. CASE o # ev[p].order
    <3>1. history'[o] = history[o]
        BY <1>1, <2>1, <2>2 DEF TypeOK
    <3> QED BY <1>0, <3>1
  <2>3. CASE o = ev[p].order
    <3>1. history'[o] = history[o] \o ws[p].history
        BY <1>1, <2>1, <2>3 DEF TypeOK
    <3>2. /\ Len(history[o] \o ws[p].history) >= Len(history[o])
          /\ SubSeq(history[o] \o ws[p].history, 1, Len(history[o])) = history[o]
        BY ONLY <1>1, <2>1, ConcatBegins
    <3> QED BY <3>1, <3>2
  <2> QED BY <2>2, <2>3
<1>4. CASE UNCHANGED tables
  <2>1. history'[o] = history[o]
      BY <1>4 DEF tables
  <2> QED BY <1>2, <2>1
<1> QED BY <1>3, <1>4, OnlyCommitWrites

\* A committed outcome is final unless it is a deferral, and committed history
\* is never rewritten, by any redelivery, replay, rollback or late transaction.
THEOREM RepositoryCommittedIsFinal == Spec => CommittedIsFinal
<1> DEFINE Final ==
        /\ \A i \in EventIDs :
             processed[i].outcome \notin {"", "OUT_OF_ORDER"} => processed'[i] = processed[i]
        /\ \A o \in Orders :
             /\ Len(history'[o]) >= Len(history[o])
             /\ SubSeq(history'[o], 1, Len(history[o])) = history[o]
<1>1. AccountInv /\ [Next]_vars => [Final]_<<processed, history>>
  <2> SUFFICES ASSUME AccountInv, [Next]_vars PROVE Final
      OBVIOUS
  <2> QED BY OutcomesAreFinal, HistoryIsFinal
<1> QED BY InitAccount, NextAccount, <1>1, PTL DEF Spec, CommittedIsFinal

-----------------------------------------------------------------------------
(***************************************************************************)
(* The ledger.  ProcessEventTx implements OrderLedger, for every set of    *)
(* callers, orders and events: every COMMIT that writes is one step of the *)
(* ledger, and nothing else moves it.                                      *)
(***************************************************************************)

\* The trail of a history: the identifiers of its rows.
TrailOf(h) == [n \in DOMAIN h |-> h[n].id]

\* An interval that starts at 1 tells where it ends.
LEMMA SameInterval ==
    ASSUME NEW a \in Nat, NEW b \in Nat, 1..a = 1..b
    PROVE  a = b
<1>1. CASE a < b
  <2>1. b \in 1..b /\ b \notin 1..a
      BY <1>1
  <2> QED BY <2>1
<1>2. CASE b < a
  <2>1. a \in 1..a /\ a \notin 1..b
      BY <1>2
  <2> QED BY <2>1
<1> QED BY <1>1, <1>2

\* The trail of a history is a sequence of identifiers as long as the history.
LEMMA TrailOfIsSeq ==
    ASSUME NEW h \in Seq(HistoryRow)
    PROVE  /\ TrailOf(h) \in Seq(EventIDs)
           /\ Len(TrailOf(h)) = Len(h)
           /\ DOMAIN TrailOf(h) = 1..Len(h)
           /\ \A n \in 1..Len(h) : TrailOf(h)[n] = h[n].id
<1>1. DOMAIN h = 1..Len(h) /\ Len(h) \in Nat
    BY LenProperties
<1>2. \A n \in 1..Len(h) : h[n].id \in EventIDs
    BY HistoryIds
<1>3. /\ TrailOf(h) \in [1..Len(h) -> EventIDs]
      /\ \A n \in 1..Len(h) : TrailOf(h)[n] = h[n].id
    BY <1>1, <1>2 DEF TrailOf
<1>4. TrailOf(h) \in Seq(EventIDs)
    BY <1>1, <1>3, SeqDef
<1>5. Len(TrailOf(h)) = Len(h)
  <2>1. DOMAIN TrailOf(h) = 1..Len(TrailOf(h)) /\ Len(TrailOf(h)) \in Nat
      BY <1>4, LenProperties
  <2>2. DOMAIN TrailOf(h) = 1..Len(h)
      BY <1>3
  <2> QED BY <1>1, <2>1, <2>2, SameInterval
<1> QED BY <1>3, <1>4, <1>5

\* An empty history has an empty trail, and only an empty one.
LEMMA EmptyTrail ==
    ASSUME NEW h \in Seq(HistoryRow)
    PROVE  TrailOf(h) = <<>> <=> h = <<>>
<1>1. TrailOf(h) \in Seq(EventIDs) /\ Len(TrailOf(h)) = Len(h)
    BY TrailOfIsSeq
<1>2. (h = <<>> => Len(h) = 0) /\ (h # <<>> => Len(h) # 0)
    BY EmptySeq
<1>3. (TrailOf(h) = <<>> => Len(TrailOf(h)) = 0) /\ (TrailOf(h) # <<>> => Len(TrailOf(h)) # 0)
    BY <1>1, EmptySeq
<1> QED BY <1>1, <1>2, <1>3

\* What a concatenation is made of.
LEMMA ConcatParts ==
    ASSUME NEW S, NEW u \in Seq(S), NEW v \in Seq(S)
    PROVE  /\ u \o v \in Seq(S) /\ Len(u \o v) = Len(u) + Len(v)
           /\ \A n \in 1..(Len(u) + Len(v)) :
                 (u \o v)[n] = IF n <= Len(u) THEN u[n] ELSE v[n - Len(u)]
BY ConcatProperties

\* The trail of a longer history is the trail of its beginning and of its end.
LEMMA TrailConcat ==
    ASSUME NEW h \in Seq(HistoryRow), NEW g \in Seq(HistoryRow)
    PROVE  TrailOf(h \o g) = TrailOf(h) \o TrailOf(g)
<1> DEFINE f == h \o g
           t == TrailOf(h) \o TrailOf(g)
<1>1. /\ f \in Seq(HistoryRow) /\ Len(f) = Len(h) + Len(g)
      /\ Len(h) \in Nat /\ Len(g) \in Nat
      /\ \A n \in 1..(Len(h) + Len(g)) : f[n] = IF n <= Len(h) THEN h[n] ELSE g[n - Len(h)]
    BY ConcatProperties, LenProperties
<1>2. /\ TrailOf(h) \in Seq(EventIDs) /\ Len(TrailOf(h)) = Len(h)
      /\ \A n \in 1..Len(h) : TrailOf(h)[n] = h[n].id
    BY TrailOfIsSeq
<1>3. /\ TrailOf(g) \in Seq(EventIDs) /\ Len(TrailOf(g)) = Len(g)
      /\ \A n \in 1..Len(g) : TrailOf(g)[n] = g[n].id
    BY TrailOfIsSeq
<1>4. /\ t \in Seq(EventIDs) /\ Len(t) = Len(h) + Len(g)
      /\ \A n \in 1..(Len(h) + Len(g)) :
            t[n] = IF n <= Len(h) THEN TrailOf(h)[n] ELSE TrailOf(g)[n - Len(h)]
  <2> HIDE DEF f
  <2> DEFINE u == TrailOf(h)
             v == TrailOf(g)
  <2>1. u \in Seq(EventIDs) /\ v \in Seq(EventIDs) /\ Len(u) = Len(h) /\ Len(v) = Len(g)
      BY <1>2, <1>3
  <2>2. t = u \o v
      OBVIOUS
  <2> HIDE DEF t, u, v
  <2>3. /\ u \o v \in Seq(EventIDs) /\ Len(u \o v) = Len(u) + Len(v)
        /\ \A n \in 1..(Len(u) + Len(v)) :
              (u \o v)[n] = IF n <= Len(u) THEN u[n] ELSE v[n - Len(u)]
      BY ONLY <2>1, ConcatParts
  <2> QED BY <2>1, <2>2, <2>3 DEF u, v
<1> HIDE DEF f, t
<1>5. /\ TrailOf(f) \in Seq(EventIDs) /\ Len(TrailOf(f)) = Len(f)
      /\ \A n \in 1..Len(f) : TrailOf(f)[n] = f[n].id
    BY <1>1, TrailOfIsSeq
<1>6. ASSUME NEW n \in 1..Len(TrailOf(f)) PROVE TrailOf(f)[n] = t[n]
  <2>1. n \in 1..Len(f) /\ n \in 1..(Len(h) + Len(g))
      BY <1>1, <1>5
  <2>2. CASE n <= Len(h)
    <3>1. n \in 1..Len(h)
        BY <1>1, <2>1, <2>2
    <3> QED BY <1>1, <1>2, <1>4, <1>5, <2>1, <2>2, <3>1
  <2>3. CASE ~(n <= Len(h))
    <3>1. n - Len(h) \in 1..Len(g)
        BY <1>1, <2>1, <2>3
    <3> QED BY <1>1, <1>3, <1>4, <1>5, <2>1, <2>3, <3>1
  <2> QED BY <2>2, <2>3
<1>7. TrailOf(f) = t
    BY <1>1, <1>4, <1>5, <1>6, SeqEqual
<1> QED BY <1>7 DEF f, t

\* What follows a sequence in its concatenation with another is the other.
LEMMA ConcatEnds ==
    ASSUME NEW S, NEW h \in Seq(S), NEW g \in Seq(S), g # <<>>
    PROVE  SubSeq(h \o g, Len(h) + 1, Len(h \o g)) = g
<1>1. /\ Len(h) \in Nat /\ Len(g) \in Nat \ {0} /\ Len(h \o g) = Len(h) + Len(g)
    BY ConcatProperties, LenProperties, EmptySeq
<1>2. /\ Len(h) + 1 \in (Len(h) + 1)..(Len(h) + Len(g))
      /\ Len(h) + Len(g) \in (Len(h) + 1)..(Len(h) + Len(g))
      /\ (Len(h) + 1) - Len(h) = 1 /\ (Len(h) + Len(g)) - Len(h) = Len(g)
    BY <1>1
<1>3. SubSeq(h \o g, Len(h) + 1, Len(h) + Len(g)) = SubSeq(g, 1, Len(g))
    BY <1>2, SubSeqOfConcat2
<1> QED BY <1>1, <1>3, SubSeqFull
-----------------------------------------------------------------------------
(* The ledger, as the repository's tables show it                          *)

Fate(i) == [order   |-> processed[i].row.order,
            status  |-> processed[i].row.status,
            outcome |-> processed[i].outcome]

Trails == [o \in Orders |-> TrailOf(history[o])]
Fates  == [i \in EventIDs |-> Fate(i)]

\* The status of an order in the ledger is its current_status.
LEMMA LedgerStatus ==
    ASSUME AccountInv, NEW o \in Orders
    PROVE  Ledger!StatusOf(o) = orders[o].status
<1>1. /\ history[o] \in Seq(HistoryRow) /\ orders[o].status = EndOf(history[o], NoStatus)
      /\ Booked
    BY DEF AccountInv, SerialInv, TypeOK, HistoryIsLifecycle
<1>2. Ledger!StatusOf(o) = IF Trails[o] = <<>> THEN NoStatus
                           ELSE Fates[Trails[o][Len(Trails[o])]].status
    BY DEF Ledger!StatusOf, Trails, Fates, Fate, TrailOf, Ledger!NoStatus, NoStatus
<1>3. Trails[o] = TrailOf(history[o])
    BY DEF Trails
<1>4. CASE history[o] = <<>>
  <2>1. Trails[o] = <<>>
      BY <1>1, <1>3, <1>4, EmptyTrail
  <2> QED BY <1>1, <1>2, <1>4, <2>1 DEF EndOf
<1>5. CASE history[o] # <<>>
  <2> DEFINE n == Len(history[o])
  <2>1. Trails[o] # <<>>
      BY <1>1, <1>3, <1>5, EmptyTrail
  <2>2. n \in 1..n
    <3>1. n \in Nat /\ n # 0
        BY <1>1, <1>5, EmptySeq, LenProperties
    <3> QED BY <3>1
  <2>3. Len(Trails[o]) = n /\ Trails[o][n] = history[o][n].id
      BY <1>1, <1>3, <2>2, TrailOfIsSeq
  <2>4. history[o][n].id \in EventIDs /\ processed[history[o][n].id].row.status = history[o][n].to
      BY <1>1, <2>2, HistoryIds DEF Booked
  <2>5. Fates[history[o][n].id].status = history[o][n].to
      BY <2>4 DEF Fates, Fate
  <2> QED BY <1>1, <1>2, <1>5, <2>1, <2>3, <2>5 DEF EndOf
<1> QED BY <1>4, <1>5

\* COMMIT extends the trail of its order by that of what it wrote.
LEMMA CommitTrails ==
    ASSUME AccountInv, NEW p \in Procs, Commit(p)
    PROVE  /\ Trails' = [Trails EXCEPT ![ev[p].order] = @ \o TrailOf(ws[p].history)]
           /\ Trails[ev[p].order] \in Seq(EventIDs)
           /\ TrailOf(ws[p].history) \in Seq(EventIDs)
           /\ Trails'[ev[p].order] = Trails[ev[p].order] \o TrailOf(ws[p].history)
<1>1. TypeOK /\ pc[p] = "commit" /\ MakeVisible(p)
    BY DEF AccountInv, SerialInv, Commit
<1>2. /\ ev[p].order \in Orders /\ ws[p].history \in Seq(HistoryRow)
      /\ history \in [Orders -> Seq(HistoryRow)]
      /\ history' = [history EXCEPT ![ev[p].order] = @ \o ws[p].history]
    BY <1>1, InTransaction DEF MakeVisible, WriteSet, TypeOK
<1>3. TrailOf(history[ev[p].order] \o ws[p].history)
          = TrailOf(history[ev[p].order]) \o TrailOf(ws[p].history)
    BY <1>2, TrailConcat
<1>4. ASSUME NEW o \in Orders
      PROVE  Trails'[o] = IF o = ev[p].order THEN Trails[o] \o TrailOf(ws[p].history)
                          ELSE Trails[o]
  <2>1. Trails'[o] = TrailOf(history'[o]) /\ Trails[o] = TrailOf(history[o])
      BY DEF Trails
  <2>2. CASE o = ev[p].order
    <3>1. history'[o] = history[ev[p].order] \o ws[p].history
        BY <1>2, <2>2
    <3> QED BY <1>3, <2>1, <2>2, <3>1
  <2>3. CASE o # ev[p].order
    <3>1. history'[o] = history[o]
        BY <1>2, <2>3
    <3> QED BY <2>1, <2>3, <3>1
  <2> QED BY <2>2, <2>3
<1>5. DOMAIN Trails = Orders /\ DOMAIN Trails' = Orders
      /\ Trails = [o \in Orders |-> Trails[o]] /\ Trails' = [o \in Orders |-> Trails'[o]]
    BY DEF Trails
<1>6. Trails' = [Trails EXCEPT ![ev[p].order] = @ \o TrailOf(ws[p].history)]
    BY <1>2, <1>4, <1>5
<1>7. Trails[ev[p].order] \in Seq(EventIDs) /\ TrailOf(ws[p].history) \in Seq(EventIDs)
    BY <1>2, TrailOfIsSeq DEF Trails
<1> QED BY <1>2, <1>4, <1>6, <1>7

\* The ledger and the repository speak of the same lifecycle.
LEMMA SameDomain ==
    /\ Ledger!Status = Status
    /\ Ledger!Classification = Classification
    /\ Ledger!AppliedPairs = AppliedPairs
    /\ \A s, t : Ledger!EvaluateTransition(s, t) = EvaluateTransition(s, t)
<1>1. Ledger!Status = Status /\ Ledger!Classification = Classification
    BY DEF Ledger!Status, Status, Ledger!Classification, Classification
<1>2. /\ Ledger!AppliedPairs = AppliedPairs /\ Ledger!OutOfOrderPairs = OutOfOrderPairs
      /\ Ledger!NoStatus = NoStatus
    BY DEF Ledger!AppliedPairs, AppliedPairs, Ledger!OutOfOrderPairs, OutOfOrderPairs,
           Ledger!NoStatus, NoStatus
<1>3. \A s, t : Ledger!EvaluateTransition(s, t) = EvaluateTransition(s, t)
    BY <1>1, <1>2 DEF Ledger!EvaluateTransition, EvaluateTransition, Ledger!isKnown, isKnown
<1> QED BY <1>1, <1>2, <1>3

\* What COMMIT appends to the history is what the ledger's step adds.
LEMMA CommitAdded ==
    ASSUME AccountInv, NEW p \in Procs, Commit(p), ws[p].history # <<>>
    PROVE  Ledger!Added(ev[p].order) = TrailOf(ws[p].history)
<1>1. /\ Trails[ev[p].order] \in Seq(EventIDs)
      /\ TrailOf(ws[p].history) \in Seq(EventIDs)
      /\ Trails'[ev[p].order] = Trails[ev[p].order] \o TrailOf(ws[p].history)
    BY CommitTrails
<1>2. ws[p].history \in Seq(HistoryRow)
    BY AtCommit DEF Commit, WriteSet
<1>3. TrailOf(ws[p].history) # <<>>
    BY <1>2, EmptyTrail
<1>4. SubSeq(Trails[ev[p].order] \o TrailOf(ws[p].history), Len(Trails[ev[p].order]) + 1,
             Len(Trails[ev[p].order] \o TrailOf(ws[p].history))) = TrailOf(ws[p].history)
    BY <1>1, <1>3, ConcatEnds
<1>5. Ledger!Added(ev[p].order) = SubSeq(Trails'[ev[p].order], Len(Trails[ev[p].order]) + 1,
                                         Len(Trails'[ev[p].order]))
    BY DEF Ledger!Added, Trails, TrailOf
<1> QED BY <1>1, <1>4, <1>5

\* After COMMIT, the event of a history row asks for the status the row leads to.
LEMMA CommitStatuses ==
    ASSUME AccountInv, NEW p \in Procs, Commit(p), NEW n \in 1..Len(ws[p].history)
    PROVE  Fates'[ws[p].history[n].id].status = ws[p].history[n].to
<1>1. Writes(p) /\ Trail(p) /\ ws[p] \in WriteSet
    BY AtCommit DEF Commit
<1>2. ws[p].history[n].id \in EventIDs /\ ws[p].outcome[ws[p].history[n].id] = "APPLIED"
    BY <1>1, WrittenIsApplied
<1>3. processed'[ws[p].history[n].id].row = Recorded(p, ws[p].history[n].id)
    BY <1>2, RowAfter
<1>4. ws[p].history[n].to = Recorded(p, ws[p].history[n].id).status
    BY <1>1 DEF Trail, Truthful
<1>5. Fates'[ws[p].history[n].id].status = processed'[ws[p].history[n].id].row.status
    BY <1>2 DEF Fates, Fate
<1> QED BY <1>3, <1>4, <1>5

\* The events COMMIT appends lead on from the order's committed status through
\* allowed transitions, and no event comes twice.
LEMMA CommitLegalPath ==
    ASSUME AccountInv, NEW p \in Procs, Commit(p)
    PROVE  Ledger!LegalPath(Committed(p), TrailOf(ws[p].history))
<1> DEFINE g == ws[p].history
           path == TrailOf(g)
<1>1. Trail(p) /\ ws[p].history \in Seq(HistoryRow)
    BY AtCommit DEF Commit, WriteSet
<1>2. LegalChain(g, Committed(p))
    BY DEF AccountInv, SerialInv, Continuation, InLock, Commit
<1>3. /\ DOMAIN path = 1..Len(g) /\ Len(g) \in Nat
      /\ \A n \in 1..Len(g) : path[n] = g[n].id
    BY <1>1, TrailOfIsSeq, LenProperties
<1>4. \A n \in 1..Len(g) : Fates'[g[n].id].status = g[n].to
    BY CommitStatuses
<1>5. \A m, n \in 1..Len(g) : g[m].id = g[n].id => m = n
    BY <1>1 DEF Trail, NoRepeats
<1>6. \A n \in 1..Len(g) : /\ <<g[n].from, g[n].to>> \in AppliedPairs
                           /\ g[n].from = IF n = 1 THEN Committed(p) ELSE g[n - 1].to
    BY <1>2 DEF LegalChain
<1> HIDE DEF g, path
<1>7. ASSUME NEW n \in DOMAIN path
      PROVE  <<IF n = 1 THEN Committed(p) ELSE Fates'[path[n - 1]].status,
               Fates'[path[n]].status>> \in AppliedPairs
  <2>1. n \in 1..Len(g) /\ Fates'[path[n]].status = g[n].to
      BY <1>3, <1>4
  <2>2. CASE n = 1
      BY <1>6, <2>1, <2>2
  <2>3. CASE n # 1
    <3>1. n - 1 \in 1..Len(g)
        BY <1>3, <2>1, <2>3
    <3>2. Fates'[path[n - 1]].status = g[n - 1].to
        BY <1>3, <1>4, <3>1
    <3> QED BY <1>6, <2>1, <2>3, <3>2
  <2> QED BY <2>2, <2>3
<1>8. \A m, n \in DOMAIN path : path[m] = path[n] => m = n
    BY <1>3, <1>5
<1>9. Ledger!LegalPath(Committed(p), path)
    BY <1>7, <1>8, SameDomain DEF Ledger!LegalPath, Fates, Fate
<1> QED BY <1>9 DEF g, path

\* What the ledger knows of an event, when its outcome becomes c.
Settle(f, c) == [f EXCEPT !.outcome = c]

\* What becomes of identifier j when p commits and j is not that of its event:
\* nothing, or its deferred event is settled along the path.
OtherFate(o, j, path) ==
    \/ /\ Fates'[j] = Fates[j]
       /\ \A n \in DOMAIN path : path[n] # j
    \/ /\ Fates[j].order = o
       /\ Fates[j].outcome = "OUT_OF_ORDER"
       /\ \E c \in Ledger!Classification \ {"OUT_OF_ORDER"} :
             /\ Fates'[j] = Settle(Fates[j], c)
             /\ (c = "APPLIED") <=> \E n \in DOMAIN path : path[n] = j
             /\ \/ c = "APPLIED"
                \/ \E n \in DOMAIN path :
                      c = Ledger!EvaluateTransition(Fates'[path[n]].status, Fates[j].status)

\* The trail of what a transaction wrote has an event if and only if its history does.
LEMMA PathHasId ==
    ASSUME NEW h \in Seq(HistoryRow), NEW j
    PROVE  (\E n \in DOMAIN TrailOf(h) : TrailOf(h)[n] = j) <=> HasId(h, j)
BY TrailOfIsSeq DEF HasId

\* COMMIT does that to every other identifier.
LEMMA CommitOtherFate ==
    ASSUME AccountInv, NEW p \in Procs, Commit(p), NEW j \in EventIDs, j # ev[p].id,
           NEW path, path = TrailOf(ws[p].history), NEW o, o = ev[p].order
    PROVE  OtherFate(o, j, path)
<1> DEFINE g == ws[p].history
           c == ws[p].outcome[j]
<1>1. /\ Upgrade(p, j) /\ Posted(p, j) /\ Writes(p) /\ Trail(p)
      /\ g \in Seq(HistoryRow)
    BY AtCommit, CommitEffect DEF Commit, WriteSet
<1>2. (\E n \in DOMAIN path : path[n] = j) <=> c = "APPLIED"
    BY <1>1, PathHasId DEF Writes, Placed
<1>3. DOMAIN path = 1..Len(g) /\ \A n \in 1..Len(g) : path[n] = g[n].id
    BY <1>1, TrailOfIsSeq
<1>4. \A n \in 1..Len(g) : Fates'[path[n]].status = g[n].to
    BY <1>3, CommitStatuses
<1>5. Fates[j] = Fate(j) /\ Fates'[j] = Fate(j)'
    BY DEF Fates
<1>6. CASE c = ""
  <2>1. Fates'[j] = Fates[j]
      BY <1>1, <1>5, <1>6 DEF Posted, Fate
  <2>2. \A n \in DOMAIN path : path[n] # j
      BY <1>2, <1>6
  <2> QED BY <2>1, <2>2 DEF OtherFate
<1>7. CASE c # ""
  <2>1. /\ c \in Settled /\ processed[j].outcome = "OUT_OF_ORDER"
        /\ processed[j].row \in ws[p].settle /\ processed[j].row.id = j
      BY <1>1, <1>7 DEF Upgrade
  <2>2. processed'[j].row = processed[j].row /\ processed'[j].outcome = c
      BY <1>1, <1>7 DEF Posted, Recorded
  <2>3. processed[j].row.order = ev[p].order
      BY <1>1, <2>1 DEF Writes, Settles
  <2>4. \/ c = "APPLIED"
        \/ \E n \in 1..Len(g) : c = EvaluateTransition(g[n].to, processed[j].row.status)
      BY <1>1, <2>1 DEF Trail, Judged
  <2>5. /\ Fates[j].order = ev[p].order /\ Fates[j].outcome = "OUT_OF_ORDER"
        /\ Fates[j].status = processed[j].row.status
      BY <1>5, <2>1, <2>3 DEF Fate
  <2>6. Fates'[j] = Settle(Fates[j], c)
      BY <1>5, <2>2 DEF Fate, Settle
  <2>7. c \in Ledger!Classification \ {"OUT_OF_ORDER"}
      BY <2>1, SameDomain DEF Settled, Classification
  <2>8. \/ c = "APPLIED"
        \/ \E n \in DOMAIN path :
              c = Ledger!EvaluateTransition(Fates'[path[n]].status, Fates[j].status)
      BY <1>3, <1>4, <2>4, <2>5, SameDomain
  <2> HIDE DEF c
  <2> QED BY <1>2, <2>5, <2>6, <2>7, <2>8 DEF OtherFate
<1> QED BY <1>6, <1>7

\* The event COMMIT takes in was unknown to the ledger, and is recorded with
\* the outcome the transaction decided on.
LEMMA CommitOwnFate ==
    ASSUME AccountInv, NEW p \in Procs, Commit(p), ws[p].outcome[ev[p].id] # ""
    PROVE  /\ Fates[ev[p].id] = Ledger!Unknown
           /\ Fates'[ev[p].id] = [order |-> ev[p].order, status |-> ev[p].status,
                                  outcome |-> ws[p].outcome[ev[p].id]]
<1>1. /\ Upgrade(p, ev[p].id) /\ Posted(p, ev[p].id) /\ ev[p].id \in EventIDs
    BY AtCommit, CommitEffect DEF Commit
<1>2. processed[ev[p].id] = NotProcessed
    BY <1>1 DEF Upgrade
<1>3. processed'[ev[p].id].row = ev[p] /\ processed'[ev[p].id].outcome = ws[p].outcome[ev[p].id]
    BY <1>1 DEF Posted, Recorded
<1>4. /\ NotProcessed.row.order = "" /\ NotProcessed.row.status = ""
      /\ NotProcessed.outcome = ""
    BY DEF NotProcessed, NoRow
<1>5. Fates[ev[p].id] = [order |-> "", status |-> "", outcome |-> ""]
    BY <1>1, <1>2, <1>4 DEF Fates, Fate
<1>6. Fates'[ev[p].id] = [order |-> processed'[ev[p].id].row.order,
                          status |-> processed'[ev[p].id].row.status,
                          outcome |-> processed'[ev[p].id].outcome]
    BY <1>1 DEF Fates, Fate
<1> QED BY <1>3, <1>5, <1>6 DEF Ledger!Unknown

\* A sequence that is not empty has a first element.
LEMMA FirstIndex ==
    ASSUME NEW S, NEW h \in Seq(S), h # <<>>
    PROVE  1 \in 1..Len(h)
<1>1. Len(h) \in Nat \ {0}
    BY EmptySeq
<1> QED BY <1>1

\* A COMMIT that takes in no event, which is that of a DUPLICATE_EVENT, leaves
\* the ledger as it is.
LEMMA CommitNothing ==
    ASSUME AccountInv, NEW p \in Procs, Commit(p), ws[p].outcome[ev[p].id] = ""
    PROVE  UNCHANGED <<Trails, Fates>>
<1>1. /\ Standing(p) /\ ev[p].id \in EventIDs /\ ev[p].order \in Orders
      /\ \A i \in EventIDs : Posted(p, i)
      /\ pc[p] = "commit" /\ TypeOK /\ MakeVisible(p)
    BY AtCommit, CommitEffect DEF Commit, AccountInv, SerialInv
<1>2. ws[p] = NoWrites
  <2>1. EvaluateTransition(Committed(p), ev[p].status) # ""
      BY EvaluateType DEF Classification
  <2> QED BY <1>1, <2>1 DEF Standing
<1>3. \A i \in EventIDs : ws[p].outcome[i] = ""
    BY <1>2, NoWritesFields
<1>4. \A i \in EventIDs : processed'[i] = processed[i]
    BY <1>1, <1>3 DEF Posted
<1>5. Fates' = Fates
    BY <1>4 DEF Fates, Fate
<1>6. ws[p].history = <<>>
  <2>1. NoWrites.history = <<>>
      BY DEF NoWrites
  <2> QED BY <1>2, <2>1
<1>7. \A o \in Orders : history'[o] = history[o]
  <2>1. ASSUME NEW o \in Orders PROVE history'[o] = history[o]
    <3>1. history[o] \in Seq(HistoryRow)
        BY <1>1 DEF TypeOK
    <3>2. history[o] \o <<>> = history[o]
        BY <3>1, ConcatEmptySeq
    <3> QED BY <1>1, <1>6, <3>2 DEF MakeVisible, TypeOK
  <2> QED BY <2>1
<1>8. Trails' = Trails
    BY <1>7 DEF Trails
<1> QED BY <1>5, <1>8

\* A COMMIT whose event changes no status records it, and nothing else.
LEMMA CommitRecords ==
    ASSUME AccountInv, NEW p \in Procs, Commit(p), ws[p].outcome[ev[p].id] # "",
           ws[p].outcome[ev[p].id] # "APPLIED"
    PROVE  /\ UNCHANGED Trails
           /\ Fates' = [Fates EXCEPT ![ev[p].id] =
                           [order |-> ev[p].order, status |-> ev[p].status,
                            outcome |-> ws[p].outcome[ev[p].id]]]
<1>1. /\ Writes(p) /\ Trail(p) /\ ev[p].id \in EventIDs /\ ws[p].history \in Seq(HistoryRow)
      /\ \A i \in EventIDs : Upgrade(p, i) /\ Posted(p, i)
    BY AtCommit, CommitEffect DEF Commit, WriteSet
<1>2. ws[p].history = <<>>
  <2>1. SUFFICES ASSUME ws[p].history # <<>> PROVE FALSE
      OBVIOUS
  <2>2. 1 \in 1..Len(ws[p].history)
      BY ONLY <1>1, <2>1, FirstIndex
  <2>3. ws[p].history[1].id = ev[p].id
      BY <1>1, <2>1 DEF Trail, StartsAnew
  <2>4. HasId(ws[p].history, ev[p].id)
      BY <2>2, <2>3 DEF HasId
  <2> QED BY <1>1, <2>4 DEF Writes, Placed
<1>3. ws[p].settle = {}
    BY <1>1, <1>2 DEF Trail, StartsAnew
<1>4. \A i \in EventIDs : i # ev[p].id => Fates'[i] = Fates[i]
  <2>1. ASSUME NEW i \in EventIDs, i # ev[p].id PROVE processed'[i] = processed[i]
    <3>1. ws[p].outcome[i] = ""
        BY <1>1, <1>3, <2>1 DEF Upgrade
    <3> QED BY <1>1, <3>1 DEF Posted
  <2> QED BY <2>1 DEF Fates, Fate
<1>5. Fates'[ev[p].id] = [order |-> ev[p].order, status |-> ev[p].status,
                          outcome |-> ws[p].outcome[ev[p].id]]
    BY CommitOwnFate
<1>6. /\ DOMAIN Fates = EventIDs /\ DOMAIN Fates' = EventIDs
      /\ Fates = [i \in EventIDs |-> Fates[i]] /\ Fates' = [i \in EventIDs |-> Fates'[i]]
    BY DEF Fates
<1>7. Fates' = [Fates EXCEPT ![ev[p].id] =
                   [order |-> ev[p].order, status |-> ev[p].status,
                    outcome |-> ws[p].outcome[ev[p].id]]]
    BY <1>1, <1>4, <1>5, <1>6
<1>8. UNCHANGED Trails
  <2>1. /\ Trails' = [Trails EXCEPT ![ev[p].order] = @ \o TrailOf(ws[p].history)]
        /\ Trails[ev[p].order] \in Seq(EventIDs)
      BY CommitTrails
  <2>2. TrailOf(ws[p].history) = <<>>
      BY <1>1, <1>2, EmptyTrail
  <2>3. Trails[ev[p].order] \o <<>> = Trails[ev[p].order]
      BY <2>1, ConcatEmptySeq
  <2>4. Trails = [o \in Orders |-> Trails[o]]
      BY DEF Trails
  <2>5. Trails' = [Trails EXCEPT ![ev[p].order] = Trails[ev[p].order]]
      BY <2>1, <2>2, <2>3
  <2> QED BY <2>4, <2>5
<1> QED BY <1>7, <1>8


\* A COMMIT whose event is applied advances the order along what it wrote.
LEMMA CommitAdvances ==
    ASSUME AccountInv, NEW p \in Procs, Commit(p), ws[p].outcome[ev[p].id] = "APPLIED"
    PROVE  /\ ws[p].history # <<>>
           /\ TrailOf(ws[p].history) # <<>>
           /\ TrailOf(ws[p].history)[1] = ev[p].id
<1>1. /\ Writes(p) /\ Trail(p) /\ ev[p].id \in EventIDs /\ ws[p].history \in Seq(HistoryRow)
    BY AtCommit DEF Commit, WriteSet
<1>2. ws[p].history # <<>>
  <2>1. HasId(ws[p].history, ev[p].id)
      BY <1>1 DEF Writes, Placed
  <2> QED BY <2>1, EmptyLen DEF HasId
<1>3. ws[p].history[1].id = ev[p].id
    BY <1>1, <1>2 DEF Trail, StartsAnew
<1>4. 1 \in 1..Len(ws[p].history)
    BY ONLY <1>1, <1>2, FirstIndex
<1>5. TrailOf(ws[p].history)[1] = ev[p].id
    BY <1>1, <1>3, <1>4, TrailOfIsSeq
<1>6. TrailOf(ws[p].history) # <<>>
    BY <1>1, <1>2, EmptyTrail
<1> QED BY <1>2, <1>5, <1>6

\* Every COMMIT that takes in an event is a step of the ledger.
LEMMA CommitTakesIn ==
    ASSUME AccountInv, NEW p \in Procs, Commit(p), ws[p].outcome[ev[p].id] # ""
    PROVE  Ledger!LedgerNext
<1> DEFINE ord == ev[p].order
           id == ev[p].id
           st == ev[p].status
           cls == ws[p].outcome[id]
           pth == TrailOf(ws[p].history)
<1>1. /\ ord \in Orders /\ id \in EventIDs /\ st \in Status /\ Standing(p) /\ pc[p] = "commit"
    BY AtCommit DEF Commit, Rows
<1>2. cls = EvaluateTransition(Committed(p), st)
  <2>1. ws[p] # NoWrites
      BY <1>1, NoWritesFields
  <2> QED BY <1>1, <2>1 DEF Standing
<1>3. Ledger!StatusOf(ord) = Committed(p)
    BY <1>1, LedgerStatus DEF Committed
<1>4. Fates[id] = Ledger!Unknown /\ Fates'[id] = [order |-> ord, status |-> st, outcome |-> cls]
    BY CommitOwnFate
<1>5. ASSUME cls # "APPLIED" PROVE Ledger!Record(ord, id, st)
  <2>1. /\ UNCHANGED Trails
        /\ Fates' = [Fates EXCEPT ![id] = [order |-> ord, status |-> st, outcome |-> cls]]
      BY <1>5, CommitRecords
  <2>2. Ledger!EvaluateTransition(Ledger!StatusOf(ord), st) = cls
      BY <1>2, <1>3, SameDomain
  <2> QED BY <1>5, <2>1, <2>2 DEF Ledger!Record, Trails, Fates, Fate, TrailOf
<1>6. ASSUME cls = "APPLIED" PROVE Ledger!Advance(ord, id, st, Ledger!Added(ord))
  <2> PICK path \in Seq(EventIDs), o \in Orders : path = TrailOf(ws[p].history) /\ o = ord
      BY <1>1, CommitTrails
  <2>1. path # <<>> /\ path[1] = id /\ ws[p].history # <<>>
      BY <1>6, CommitAdvances
  <2>2. Ledger!LegalPath(Ledger!StatusOf(ord), path)
      BY <1>3, CommitLegalPath DEF Ledger!LegalPath
  <2>3. Trails' = [Trails EXCEPT ![ord] = @ \o path]
      BY CommitTrails
  <2>4. Ledger!Added(ord) = path
      BY <2>1, CommitAdded
  <2>5. ASSUME NEW j \in EventIDs \ {id} PROVE OtherFate(ord, j, Ledger!Added(ord))
    <3>1. OtherFate(o, j, path)
        BY CommitOtherFate
    <3> QED BY <2>4, <3>1 DEF OtherFate
  <2>6. Fates'[id] = [order |-> ord, status |-> st, outcome |-> "APPLIED"]
      BY <1>4, <1>6
  <2> DEFINE add == Ledger!Added(ord)
  <2>7. /\ add # <<>> /\ add[1] = id
        /\ Trails' = [Trails EXCEPT ![ord] = @ \o add]
        /\ Ledger!LegalPath(Ledger!StatusOf(ord), add)
      BY <2>1, <2>2, <2>3, <2>4 DEF Ledger!LegalPath
  <2> HIDE DEF add, ord, id, st
  <2>8. \A j \in EventIDs \ {id} : OtherFate(ord, j, add)
      BY <2>5 DEF OtherFate, add
  <2>9. Ledger!Advance(ord, id, st, add)
      BY <2>6, <2>7, <2>8
         DEF Ledger!Advance, OtherFate, Settle, Trails, Fates, Fate, TrailOf
  <2> QED BY <2>9 DEF add
<1> ord \in Orders /\ id \in EventIDs /\ st \in Ledger!Status
    BY <1>1, SameDomain
<1>7. Ledger!Record(ord, id, st) \/ Ledger!Advance(ord, id, st, Ledger!Added(ord))
    BY <1>5, <1>6
<1>8. \E s \in Ledger!Status : Ledger!Record(ord, id, s)
                              \/ Ledger!Advance(ord, id, s, Ledger!Added(ord))
    BY <1>7 DEF Ledger!Record, Ledger!Advance
<1>9. Ledger!TakeIn(ord, id)
    BY <1>4, <1>8 DEF Ledger!TakeIn, Fates, Fate
<1> HIDE DEF ord, id
<1>10. \E i \in EventIDs : Ledger!TakeIn(ord, i)
    BY <1>9 DEF Ledger!TakeIn, Ledger!Record, Ledger!Advance
<1>11. \E o \in Orders : \E i \in EventIDs : Ledger!TakeIn(o, i)
    BY <1>10 DEF Ledger!TakeIn, Ledger!Record, Ledger!Advance, Ledger!StatusOf,
                Ledger!Added, Ledger!LegalPath
<1> QED BY <1>11 DEF Ledger!LedgerNext

\* The empty tables are an empty ledger.
LEMMA InitLedger == Init => Ledger!LedgerInit
<1> SUFFICES ASSUME Init PROVE Ledger!LedgerInit
    OBVIOUS
<1>1. /\ NotProcessed.row.order = "" /\ NotProcessed.row.status = ""
      /\ NotProcessed.outcome = ""
    BY DEF NotProcessed, NoRow
<1>2. \A i \in EventIDs : Fates[i] = [order |-> "", status |-> "", outcome |-> ""]
    BY <1>1 DEF Init, Fates, Fate
<1>3. Fates = [i \in EventIDs |-> Ledger!Unknown]
    BY <1>2 DEF Fates, Ledger!Unknown
<1>4. TrailOf(<<>>) = <<>>
    BY EmptyTrail, EmptySeq
<1>5. Trails = [o \in Orders |-> <<>>]
    BY <1>4 DEF Init, Trails
<1> QED BY <1>3, <1>5 DEF Ledger!LedgerInit, Trails, Fates, Fate, TrailOf

\* Every step of the repository is a step of the ledger, or leaves it as it is.
LEMMA StepLedger == AccountInv /\ [Next]_vars => [Ledger!LedgerNext]_(Ledger!ledger)
<1> SUFFICES ASSUME AccountInv, [Next]_vars PROVE [Ledger!LedgerNext]_(Ledger!ledger)
    OBVIOUS
<1>1. ASSUME UNCHANGED <<Trails, Fates>> PROVE UNCHANGED Ledger!ledger
    BY <1>1 DEF Ledger!ledger, Trails, Fates, Fate, TrailOf
<1>2. CASE UNCHANGED tables
  <2>1. UNCHANGED <<Trails, Fates>>
      BY <1>2 DEF tables, Trails, Fates, Fate
  <2> QED BY <1>1, <2>1
<1>3. ASSUME NEW p \in Procs, Commit(p) PROVE [Ledger!LedgerNext]_(Ledger!ledger)
  <2>1. CASE ws[p].outcome[ev[p].id] = ""
      BY <1>1, <1>3, <2>1, CommitNothing
  <2>2. CASE ws[p].outcome[ev[p].id] # ""
      BY <1>3, <2>2, CommitTakesIn
  <2> QED BY <2>1, <2>2
<1> QED BY <1>2, <1>3, OnlyCommitWrites

\* The protocol of locks, statements, replays, commits, rollbacks and retries
\* implements the ledger: each event is taken in once, in one indivisible step,
\* which settles events of its own order only and extends the order's trail by
\* exactly the events that become APPLIED, whoever else is at work
\* (order_repository.go:67-213, 464-551).
THEOREM RepositoryImplementsLedger == Spec => ImplementsLedger
BY InitLedger, StepLedger, InitAccount, NextAccount, PTL
   DEF Spec, ImplementsLedger, Ledger!LedgerSpec

-----------------------------------------------------------------------------
(* When the replay loop misses nothing                                     *)

\* As stored, the payment of an order comes before its shipment in the order in
\* which replayPending takes deferred events: by timestamp, then by event_id.
PaidSortsFirst ==
    \A e, f \in Events :
        /\ validateEvent(e) /\ validateEvent(f) /\ e.order = f.order
        /\ e.status = "PAID" /\ f.status = "SHIPPED"
        => ~Before(Row(f), Row(e))

\* r is an event that was submitted.
Submitted(r) == \E e \in Events : validateEvent(e) /\ r = Row(e)

\* Only payments and shipments are ever deferred.
Deferrable(r) == r.status \in {"PAID", "SHIPPED"} /\ Submitted(r)

\* The status the order will have after p's COMMIT
Stored(p) == IF ws[p].order = NoOrder THEN Committed(p) ELSE ws[p].order.status

\* None of the events that p leaves deferred could be applied then.
NothingDue(p) ==
    pc[p] = "commit" =>
        \A r \in PendingView(p) : EvaluateTransition(Stored(p), r.status) # "APPLIED"

ReplayInv == /\ PendingCannotYetBeApplied
             /\ \A r \in pending : Deferrable(r)
             /\ \A p \in Procs : NothingDue(p) /\ (pc[p] # "idle" => Submitted(ev[p]))

\* The state machine defers payments and shipments, and behind an existing order
\* only the shipment of an order that is not paid.
LEMMA OnlyTheseWait ==
    ASSUME NEW s, NEW t, EvaluateTransition(s, t) = "OUT_OF_ORDER"
    PROVE  /\ t \in {"PAID", "SHIPPED"}
           /\ s # NoStatus => s = "CREATED" /\ t = "SHIPPED"
BY DEF EvaluateTransition, OutOfOrderPairs, NoStatus

\* What then follows a creation is a payment.
LEMMA PaymentFollows ==
    ASSUME NEW t \in {"PAID", "SHIPPED"}, EvaluateTransition("CREATED", t) = "APPLIED"
    PROVE  t = "PAID"
BY DEF EvaluateTransition, AppliedPairs, NoStatus

\* A step of p that leaves the tables alone.
LEMMA LocalReplay ==
    ASSUME ReplayInv, NEW p \in Procs, UNCHANGED tables,
           \A q \in Procs \ {p} : pc'[q] = pc[q] /\ ws'[q] = ws[q] /\ ev'[q] = ev[q],
           NothingDue(p)', pc'[p] # "idle" => Submitted(ev'[p])
    PROVE  ReplayInv'
<1>1. UNCHANGED <<orders, pending>>
    BY DEF tables
<1>2. PendingCannotYetBeApplied' /\ \A r \in pending' : Deferrable(r)
    BY <1>1 DEF ReplayInv, PendingCannotYetBeApplied
<1>3. ASSUME NEW q \in Procs \ {p} PROVE NothingDue(q)' /\ (pc'[q] # "idle" => Submitted(ev'[q]))
  <2>1. NothingDue(q) /\ (pc[q] # "idle" => Submitted(ev[q]))
      BY DEF ReplayInv
  <2>2. pc'[q] = pc[q] /\ ws'[q] = ws[q] /\ ev'[q] = ev[q]
      OBVIOUS
  <2> QED BY <1>1, <2>1, <2>2 DEF NothingDue, PendingView, Stored, Committed
<1> QED BY <1>2, <1>3 DEF ReplayInv, Deferrable, Submitted

\* p comes to its COMMIT without a transition of its own: what is deferred stays
\* deferred, and so may the event itself.
LEMMA NoTransitionReplay ==
    ASSUME ReplayInv, TypeOK, NEW p \in Procs, UNCHANGED <<tables, ev>>,
           ws'[p].order = NoOrder,
           ws'[p].defer \subseteq {ev[p]},
           ws'[p].defer # {} => EvaluateTransition(Committed(p), ev[p].status) # "APPLIED"
    PROVE  NothingDue(p)'
<1>1. UNCHANGED <<orders, pending>>
    BY DEF tables
<1>2. Stored(p)' = Committed(p)
    BY <1>1 DEF Stored, Committed
<1>3. ASSUME NEW r \in PendingView(p)' PROVE EvaluateTransition(Committed(p), r.status) # "APPLIED"
  <2>1. r \in pending \cup ws'[p].defer /\ r.order = ev[p].order
      BY <1>1 DEF PendingView
  <2>2. CASE r \in pending
      BY <2>1, <2>2 DEF ReplayInv, PendingCannotYetBeApplied, Committed
  <2>3. CASE r \in ws'[p].defer
      BY <2>3
  <2> QED BY <2>1, <2>2, <2>3
<1> QED BY <1>2, <1>3 DEF NothingDue

\* Up to and including the INSERT
LEMMA OpeningReplay ==
    ASSUME AccountInv, ReplayInv, NEW p \in Procs,
           \/ \E e \in Events : BeginTx(p, e)
           \/ ReturnEarly(p)
           \/ AcquireLock(p)
           \/ insertProcessedEvent(p)
           \/ loadCurrentStatus(p)
           \/ Rollback(p)
    PROVE  ReplayInv'
<1>0. TypeOK /\ Continuation(p)
    BY DEF AccountInv, SerialInv
<1>1. CASE \E e \in Events : BeginTx(p, e)
  <2>1. PICK e \in Events : BeginTx(p, e)
      BY <1>1
  <2>2. /\ UNCHANGED tables /\ pc'[p] = "lock" /\ ev'[p] = Row(e) /\ validateEvent(e)
        /\ \A q \in Procs \ {p} : pc'[q] = pc[q] /\ ws'[q] = ws[q] /\ ev'[q] = ev[q]
      BY <1>0, <2>1 DEF BeginTx, TypeOK
  <2>3. Submitted(ev'[p])
      BY <2>1, <2>2 DEF Submitted
  <2>4. NothingDue(p)'
      BY <2>2 DEF NothingDue
  <2> QED BY <2>2, <2>3, <2>4, LocalReplay
<1>2. CASE ReturnEarly(p) \/ Rollback(p)
  <2>1. /\ UNCHANGED tables /\ pc'[p] = "idle"
        /\ \A q \in Procs \ {p} : pc'[q] = pc[q] /\ ws'[q] = ws[q] /\ ev'[q] = ev[q]
      BY <1>0, <1>2 DEF ReturnEarly, Rollback, EndTx, TypeOK
  <2> QED BY <2>1, LocalReplay DEF NothingDue
<1>3. CASE AcquireLock(p) \/ loadCurrentStatus(p)
  <2>1. /\ UNCHANGED <<tables, ev>> /\ pc'[p] \in {"insert", "classify"} /\ pc[p] # "idle"
        /\ \A q \in Procs \ {p} : pc'[q] = pc[q] /\ ws'[q] = ws[q] /\ ev'[q] = ev[q]
      BY <1>0, <1>3 DEF AcquireLock, loadCurrentStatus, TypeOK
  <2>2. NothingDue(p)' /\ Submitted(ev'[p])
      BY <2>1 DEF NothingDue, ReplayInv
  <2> QED BY <2>1, <2>2, LocalReplay
<1>4. CASE insertProcessedEvent(p)
  <2>1. /\ UNCHANGED <<tables, ev>> /\ pc[p] = "insert"
        /\ pc'[p] = "load" \/ (pc'[p] = "commit" /\ ws'[p] = ws[p])
        /\ \A q \in Procs \ {p} : pc'[q] = pc[q] /\ ws'[q] = ws[q] /\ ev'[q] = ev[q]
      BY <1>0, <1>4 DEF insertProcessedEvent, TypeOK
  <2>2. Submitted(ev'[p])
      BY <2>1 DEF ReplayInv
  <2>3. CASE pc'[p] = "load"
      BY <2>1, <2>2, <2>3, LocalReplay DEF NothingDue
  <2>4. CASE ws'[p] = ws[p]
    <3>1. ws'[p] = NoWrites
        BY <1>0, <2>1, <2>4 DEF Continuation
    <3>2. NoWrites.order = NoOrder
        BY DEF NoWrites
    <3>3. NothingDue(p)'
        BY <1>0, <2>1, <3>1, <3>2, NoWritesFields, NoTransitionReplay
    <3> QED BY <2>1, <2>2, <3>3, LocalReplay
  <2> QED BY <2>1, <2>3, <2>4
<1> QED BY <1>1, <1>2, <1>3, <1>4

\* The branches of the switch
LEMMA ClassifyReplay ==
    ASSUME AccountInv, ReplayInv, NEW p \in Procs,
           Apply(p) \/ SkipDuplicateStatus(p) \/ Defer(p) \/ Reject(p)
    PROVE  ReplayInv'
<1>0. TypeOK /\ Continuation(p) /\ Accounts(p)
    BY DEF AccountInv, SerialInv
<1>1. pc[p] = "classify" /\ UNCHANGED <<tables, ev>>
    BY DEF Apply, SkipDuplicateStatus, Defer, Reject, Route
<1>2. ws[p] \in WriteSet /\ ev[p] \in Rows /\ ev[p].id \in EventIDs
    BY <1>0, <1>1, InTransaction
<1>3. ws[p].order = NoOrder /\ cur[p] = Committed(p) /\ ws[p].defer = {}
  <2>1. Defers(p) /\ ws[p].outcome[ev[p].id] = "RECEIVED"
      BY <1>0, <1>1 DEF Accounts, InLock, Writes, Standing
  <2> QED BY <1>0, <1>1, <2>1 DEF Continuation, Defers
<1>4. \A q \in Procs \ {p} : pc'[q] = pc[q] /\ ws'[q] = ws[q] /\ ev'[q] = ev[q]
    BY <1>0 DEF Apply, SkipDuplicateStatus, Defer, Reject, Route, TypeOK
<1>5. Submitted(ev'[p])
    BY <1>1 DEF ReplayInv
<1>6. CASE Apply(p)
  <2>1. pc'[p] = "replay"
      BY <1>0, <1>6 DEF Apply, Route, TypeOK
  <2> QED BY <1>1, <1>4, <1>5, <2>1, LocalReplay DEF NothingDue
<1>7. ASSUME NEW w, ws'[p] = w, w.order = NoOrder, w.defer \subseteq {ev[p]},
             w.defer # {} => EvaluateTransition(cur[p], ev[p].status) = "OUT_OF_ORDER"
      PROVE  ReplayInv'
  <2>1. NothingDue(p)'
      BY <1>0, <1>1, <1>3, <1>7, NoTransitionReplay
  <2> QED BY <1>1, <1>4, <1>5, <2>1, LocalReplay
<1>8. CASE SkipDuplicateStatus(p)
  <2>1. ws'[p] = updateOutcome(ws[p], ev[p], "DUPLICATE_STATUS")
      BY <1>0, <1>8 DEF SkipDuplicateStatus, Route, TypeOK
  <2>2. ws'[p].order = NoOrder /\ ws'[p].defer = {}
      BY <1>2, <1>3, <2>1, OutcomeFields, RoutingWritesNoTransition
  <2> QED BY <1>7, <2>2
<1>9. CASE Reject(p)
  <2>1. ws'[p] = insertDeadLetterEvent(ws[p], ev[p])
      BY <1>0, <1>9 DEF Reject, Route, TypeOK
  <2>2. ws'[p].order = NoOrder /\ ws'[p].defer = {}
      BY <1>2, <1>3, <2>1, RejectFields, RoutingWritesNoTransition
  <2> QED BY <1>7, <2>2
<1>10. CASE Defer(p)
  <2>1. /\ ws'[p] = insertPendingEvent(ws[p], ev[p])
        /\ EvaluateTransition(cur[p], ev[p].status) = "OUT_OF_ORDER"
      BY <1>0, <1>10 DEF Defer, Route, TypeOK
  <2>2. ws'[p].order = NoOrder /\ ws'[p].defer = {ev[p]}
      BY <1>2, <1>3, <2>1, DeferFields, RoutingWritesNoTransition
  <2> QED BY <1>7, <2>1, <2>2
<1> QED BY <1>6, <1>8, <1>9, <1>10

\* The rounds of the replay loop, and its end
LEMMA RoundReplay ==
    ASSUME PaidSortsFirst, AccountInv, ReplayInv, NEW p \in Procs,
           ReplayApply(p) \/ ReplaySkip(p) \/ ReplayReject(p) \/ ReplayDone(p)
    PROVE  ReplayInv'
<1>0. TypeOK /\ Continuation(p) /\ Accounts(p)
    BY DEF AccountInv, SerialInv
<1>1. pc[p] = "replay" /\ UNCHANGED <<tables, ev>>
    BY DEF ReplayApply, ReplaySkip, ReplayReject, ReplayDone, ReplayRow
<1>2. Submitted(ev'[p])
    BY <1>1 DEF ReplayInv
<1>3. \A q \in Procs \ {p} : pc'[q] = pc[q] /\ ws'[q] = ws[q] /\ ev'[q] = ev[q]
    BY <1>0 DEF ReplayApply, ReplaySkip, ReplayReject, ReplayDone, ReplayRow, TypeOK
<1>4. CASE ReplayApply(p) \/ ReplaySkip(p) \/ ReplayReject(p)
  <2>1. pc'[p] = "replay"
      BY <1>1, <1>4 DEF ReplayApply, ReplaySkip, ReplayReject
  <2> QED BY <1>1, <1>2, <1>3, <2>1, LocalReplay DEF NothingDue
<1>5. CASE ReplayDone(p)
  <2>1. UNCHANGED <<orders, pending, ws, ev>>
      BY <1>1, <1>5 DEF ReplayDone, tables
  <2>2. PendingView(p)' = PendingView(p) /\ Stored(p)' = Stored(p)
      BY <2>1 DEF PendingView, Stored, Committed
  \* the status it has brought the order to
  <2>3. ws[p].order.status = cur[p] /\ cur[p] # NoStatus
    <3>1. /\ ws[p].history # <<>> /\ cur[p] = ws[p].order.status
          /\ ws[p].order.status = EndOf(ws[p].history, NoStatus)
        BY <1>0, <1>1 DEF Continuation
    <3>2. ws[p].history \in Seq(HistoryRow)
        BY <1>0, <1>1, InTransaction DEF WriteSet
    <3>3. Len(ws[p].history) \in 1..Len(ws[p].history)
        BY <3>1, <3>2, LenProperties, EmptySeq
    <3>4. ws[p].history[Len(ws[p].history)] \in HistoryRow
        BY <3>2, <3>3, HistoryIds
    <3>5. EndOf(ws[p].history, NoStatus) \in Status
        BY <3>1, <3>4 DEF EndOf, HistoryRow
    <3> QED BY <3>1, <3>5 DEF Status, NoStatus
  <2>4. Stored(p) = cur[p]
      BY <2>3 DEF Stored, NoOrder
  <2>5. ws[p].defer = {}
    <3>1. Defers(p) /\ ws[p].outcome[ev[p].id] = "APPLIED"
        BY <1>0, <1>1 DEF Accounts, InLock, Writes, Standing
    <3> QED BY <3>1 DEF Defers
  <2>6. \A r \in PendingView(p) : r \in pending /\ r.order = ev[p].order /\ Deferrable(r)
      BY <2>5 DEF PendingView, ReplayInv
  <2>7. ASSUME NEW r \in PendingView(p), EvaluateTransition(cur[p], r.status) = "APPLIED"
        PROVE  FALSE
    <3>1. PICK row \in PendingView(p) :
             IsNextPending(p, row) /\ EvaluateTransition(cur[p], row.status) = "OUT_OF_ORDER"
        BY <1>5, <2>7 DEF ReplayDone
    <3>2. cur[p] = "CREATED" /\ row.status = "SHIPPED"
        BY <2>3, <3>1, OnlyTheseWait
    <3>3. r.status = "PAID"
        BY <2>6, <2>7, <3>2, PaymentFollows DEF Deferrable
    <3>4. PICK e \in Events : validateEvent(e) /\ r = Row(e)
        BY <2>6, <2>7 DEF Deferrable, Submitted
    <3>5. PICK f \in Events : validateEvent(f) /\ row = Row(f)
        BY <2>6, <3>1 DEF Deferrable, Submitted
    <3>6. e.order = f.order /\ e.status = "PAID" /\ f.status = "SHIPPED"
        BY <2>6, <2>7, <3>1, <3>2, <3>3, <3>4, <3>5 DEF Row
    <3>7. ~Before(row, r)
        BY <3>4, <3>5, <3>6 DEF PaidSortsFirst
    <3>8. Before(row, r)
        BY <2>7, <3>1 DEF IsNextPending
    <3> QED BY <3>7, <3>8
  <2>8. NothingDue(p)'
      BY <2>2, <2>4, <2>7 DEF NothingDue
  <2> QED BY <1>1, <1>2, <1>3, <2>8, LocalReplay
<1> QED BY <1>4, <1>5

\* COMMIT
LEMMA CommitReplay ==
    ASSUME AccountInv, ReplayInv, NEW p \in Procs, Commit(p)
    PROVE  ReplayInv'
<1>0. /\ TypeOK /\ SerialInv /\ pc[p] = "commit" /\ InLock(p) /\ NothingDue(p)
      /\ Submitted(ev[p])
    BY DEF AccountInv, SerialInv, Commit, InLock, ReplayInv
<1>1. Defers(p) /\ Standing(p) /\ ev[p].order \in Orders /\ ev[p].id \in EventIDs
    BY <1>0, AtCommit DEF Writes
<1>2. pending' = (pending \cup ws[p].defer) \ ws[p].settle
    BY CommitEffect
<1>3. ws[p].defer \subseteq {ev[p]} /\ (ws[p].defer # {} => Deferrable(ev[p]))
  <2>1. CASE ws[p].outcome[ev[p].id] = "OUT_OF_ORDER"
    <3>1. EvaluateTransition(Committed(p), ev[p].status) = "OUT_OF_ORDER"
        BY <1>0, <1>1, <2>1, NoWritesFields DEF Standing
    <3>2. ev[p].status \in {"PAID", "SHIPPED"}
        BY <3>1, OnlyTheseWait
    <3> QED BY <1>0, <1>1, <2>1, <3>2 DEF Defers, Deferrable
  <2>2. CASE ws[p].outcome[ev[p].id] # "OUT_OF_ORDER"
      BY <1>1, <2>2 DEF Defers
  <2> QED BY <2>1, <2>2
<1>4. \A r \in pending' : Deferrable(r)
    BY <1>2, <1>3 DEF ReplayInv
<1>5. /\ orders'[ev[p].order].status = Stored(p)
      /\ \A o \in Orders \ {ev[p].order} : orders'[o] = orders[o]
    BY <1>0, <1>1 DEF Commit, MakeVisible, Stored, Committed, TypeOK
<1>6. ASSUME NEW r \in pending'
      PROVE  EvaluateTransition(orders'[r.order].status, r.status) # "APPLIED"
  <2>1. CASE r.order = ev[p].order
    <3>1. r \in PendingView(p)
        BY <1>2, <1>6, <2>1 DEF PendingView
    <3> QED BY <1>0, <1>5, <2>1, <3>1 DEF NothingDue
  <2>2. CASE r.order # ev[p].order
    <3>1. r \in pending
        BY <1>2, <1>3, <1>6, <2>2
    <3>2. r.order \in Orders
        BY <1>0, <3>1 DEF TypeOK, Rows
    <3>3. orders'[r.order] = orders[r.order]
        BY <1>5, <2>2, <3>2
    <3> QED BY <3>1, <3>3 DEF ReplayInv, PendingCannotYetBeApplied
  <2> QED BY <2>1, <2>2
<1>7. /\ pc'[p] = "idle" /\ UNCHANGED ev
      /\ \A q \in Procs \ {p} : pc'[q] = pc[q] /\ ws'[q] = ws[q]
    BY <1>0 DEF Commit, EndTx, TypeOK
\* Another caller's COMMIT is about another order.
<1>8. ASSUME NEW q \in Procs \ {p}, pc[q] = "commit" PROVE NothingDue(q)'
  <2>1. ev[q].order # ev[p].order /\ ev[q].order \in Orders
      BY <1>0, <1>8, OtherOrder, InTransaction DEF InLock
  <2>2. ws'[q] = ws[q] /\ ev'[q] = ev[q] /\ NothingDue(q)
      BY <1>7 DEF ReplayInv
  <2>3. Stored(q)' = Stored(q)
      BY <1>5, <2>1, <2>2 DEF Stored, Committed
  <2>4. PendingView(q)' \subseteq PendingView(q)
      BY <1>2, <1>3, <2>1, <2>2 DEF PendingView
  <2> QED BY <1>8, <2>2, <2>3, <2>4 DEF NothingDue
<1>9. ASSUME NEW q \in Procs PROVE NothingDue(q)' /\ (pc'[q] # "idle" => Submitted(ev'[q]))
  <2>1. CASE q = p
      BY <1>7, <2>1 DEF NothingDue
  <2>2. CASE q # p
    <3>1. pc'[q] = pc[q] /\ ev'[q] = ev[q]
        BY <1>7, <2>2
    <3>2. NothingDue(q)'
        BY <1>8, <2>2, <3>1 DEF NothingDue
    <3>3. pc[q] # "idle" => Submitted(ev[q])
        BY DEF ReplayInv
    <3> QED BY <3>1, <3>2, <3>3
  <2> QED BY <2>1, <2>2
<1>10. PendingCannotYetBeApplied'
    BY <1>6 DEF PendingCannotYetBeApplied
<1> QED BY <1>4, <1>9, <1>10 DEF ReplayInv, Deferrable, Submitted

\* Every step of every caller.
LEMMA NextReplay ==
    ASSUME PaidSortsFirst
    PROVE  AccountInv /\ ReplayInv /\ [Next]_vars => ReplayInv'
<1> SUFFICES ASSUME AccountInv, ReplayInv, [Next]_vars PROVE ReplayInv'
    OBVIOUS
<1>1. ASSUME NEW p \in Procs,
             \/ \E e \in Events : BeginTx(p, e) \/ RefuseEvent(p, e) \/ BeginFails(p, e)
             \/ AcquireLock(p) \/ insertProcessedEvent(p) \/ Rollback(p)
      PROVE  ReplayInv'
    BY <1>1, OpeningReplay DEF RefuseEvent, BeginFails
<1>2. ASSUME NEW p \in Procs, Statement(p) PROVE ReplayInv'
    BY <1>2, OpeningReplay, ClassifyReplay, RoundReplay, CommitReplay DEF Statement, TxBody
<1>3. CASE UNCHANGED vars
  <2>1. UNCHANGED <<orders, pending, pc, ev, ws>>
      BY <1>3 DEF vars, tables, locals
  <2> QED BY <2>1 DEF ReplayInv, PendingCannotYetBeApplied, NothingDue, PendingView, Stored,
                      Committed
<1> QED BY <1>1, <1>2, <1>3 DEF Next

\* Nothing is deferred at the beginning.
LEMMA InitReplay == Init => ReplayInv
<1> SUFFICES ASSUME Init PROVE ReplayInv
    OBVIOUS
<1>1. pending = {} /\ \A p \in Procs : pc[p] = "idle"
    BY DEF Init
<1> QED BY <1>1 DEF ReplayInv, PendingCannotYetBeApplied, NothingDue

\* The comment of migration 001 on pending_events is true where the stored
\* timestamps, and event_ids among equal ones, put the payment of an order before
\* its shipment: then no deferred event is ever left behind that the committed
\* status of its order admits, whatever arrives late, twice or at once.  What it
\* takes beyond that is only the lock: nobody defers or replays an event of the
\* order between the end of the loop and COMMIT (order_repository.go:464-551).
THEOREM RepositoryLeavesNothingDue ==
    ASSUME PaidSortsFirst
    PROVE  Spec => []PendingCannotYetBeApplied
<1>1. ReplayInv => PendingCannotYetBeApplied
    BY DEF ReplayInv
<1> QED BY <1>1, InitAccount, NextAccount, InitReplay, NextReplay, PTL DEF Spec
============================================================================
