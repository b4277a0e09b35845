-------------------------- MODULE OrderRepository --------------------------
(***************************************************************************)
(* PostgresOrderRepository.ProcessEventTx at the grain of its SQL          *)
(* statements.  Several callers (worker goroutines, the reclaimer, other   *)
(* service instances) run transactions concurrently against one database.  *)
(*                                                                         *)
(* The committed tables are variables; what a transaction has written and  *)
(* not yet committed is its private write set, invisible to the others     *)
(* (READ COMMITTED, PostgreSQL's default, which the code does not change). *)
(* Two things of an open transaction are visible to the others: the        *)
(* advisory lock it holds and the event_id it has inserted, on which a     *)
(* concurrent INSERT of the same key waits.                                *)
(*                                                                         *)
(* Left out: payload contents, reasons, created_at / updated_at and the    *)
(* log lines.  An event_id is a positive number standing for a TEXT key in *)
(* collation order, a timestamp a number of ticks, 0 the zero time.Time.   *)
(***************************************************************************)
EXTENDS OrderDomain, Integers, Sequences

CONSTANTS Procs,         \* callers of ProcessEventTx
          Orders,        \* order identifiers
          EventIDs,      \* event identifiers
          Events,        \* the events that may be submitted, any number of times
          hashtext,      \* PostgreSQL's hashtext on order identifiers
          TicksPerMicro, \* resolution of time.Time over that of TIMESTAMPTZ
          Free           \* value of an advisory lock nobody holds

\* An event as the queue hands it over.  Fields may be empty, the status may
\* be unknown and the payload may be something other than a JSON object.
OrderEvent == [id : EventIDs \cup {0}, order : Orders \cup {""},
               status : STRING, ts : Nat, payload : {"object", "empty", "other"}]

ASSUME EventAssumption == /\ Events \subseteq OrderEvent
                          /\ EventIDs \subseteq Nat \ {0}
                          /\ "" \notin Orders
ASSUME HashAssumption  == DOMAIN hashtext = Orders
ASSUME TickAssumption  == TicksPerMicro \in Nat \ {0}
ASSUME FreeAssumption  == Free \notin Procs

VARIABLES orders,      \* orders: current_status ("" when there is no row), last_event_timestamp
          processed,   \* processed_events: the row and its outcome ("" when there is no row)
          history,     \* order_status_history, per order in insertion order
          pending,     \* pending_events
          deadLetters, \* dead_letter_events: number of rows per event_id
          lock,        \* holder of each advisory lock
          pc,          \* the statement each caller executes next
          ev,          \* the event each caller is processing
          cur,         \* the status the code calls current
          ws,          \* uncommitted writes of each caller's transaction
          result       \* what ProcessEventTx returned, or is about to return

tables == <<orders, processed, history, pending, deadLetters>>
locals == <<pc, ev, cur, ws, result>>
vars   == <<tables, lock, locals>>

-----------------------------------------------------------------------------
(* Rows                                                                    *)

\* TIMESTAMPTZ keeps microseconds: the nanoseconds of a time.Time are lost.
timestamptz(t) == t \div TicksPerMicro

\* An event in the form the tables store it.
Row(e) == [id |-> e.id, order |-> e.order, status |-> e.status,
           ts |-> timestamptz(e.ts)]

Rows  == [id : EventIDs, order : Orders, status : Status, ts : Nat]
NoRow == [id |-> 0, order |-> "", status |-> "", ts |-> 0]

HistoryRow == [id : EventIDs, from : Status \cup {NoStatus}, to : Status, ts : Nat]

Outcome == Classification \cup {"RECEIVED"}

\* An order row, and the absence of one.
OrderRow == [status : Status \cup {NoStatus}, ts : Nat]
NoOrder  == [status |-> NoStatus, ts |-> 0]

NotProcessed == [row |-> NoRow, outcome |-> ""]

WriteSet == [outcome : [EventIDs -> Outcome \cup {""}],
             order   : OrderRow,
             history : Seq(HistoryRow),
             defer   : SUBSET Rows,
             settle  : SUBSET Rows,
             dead    : [EventIDs -> Nat]]

NoWrites == [outcome |-> [i \in EventIDs |-> ""],
             order   |-> NoOrder,
             history |-> <<>>,
             defer   |-> {},
             settle  |-> {},
             dead    |-> [i \in EventIDs |-> 0]]

NoResult == [status |-> "none", class |-> "", replayed |-> 0]
Failed   == [status |-> "error", class |-> "", replayed |-> 0]

Key(p) == hashtext[ev[p].order]

-----------------------------------------------------------------------------
(* The statements                                                          *)

isPersistableStatus(s) == s \in {"CREATED", "PAID", "SHIPPED", "CANCELLED"}

\* Mutant: the status is not checked.
validateEventAnyStatus(e) == e.id # 0 /\ e.order # "" /\ e.ts # 0 /\ e.payload # "other"

validateEvent(e) == /\ e.id # 0
                    /\ e.order # ""
                    /\ e.ts # 0
                    /\ isPersistableStatus(e.status)
                    /\ e.payload # "other"

\* updateOutcome on the transaction's view of processed_events
updateOutcome(w, row, outcome) == [w EXCEPT !.outcome[row.id] = outcome]

\* applyEvent followed by updateOutcome(APPLIED): upsert orders, append history
applyEvent(w, row, from) ==
    updateOutcome(
        [w EXCEPT !.order   = [status |-> row.status, ts |-> row.ts],
                  !.history = Append(@, [id |-> row.id, from |-> from,
                                         to |-> row.status, ts |-> row.ts])],
        row, "APPLIED")

insertPendingEvent(w, row) ==
    updateOutcome([w EXCEPT !.defer = @ \cup {row}], row, "OUT_OF_ORDER")

insertDeadLetterEvent(w, row) ==
    updateOutcome([w EXCEPT !.dead[row.id] = @ + 1], row, "INVALID_TRANSITION")

deletePending(w, row) == [w EXCEPT !.settle = @ \cup {row}]

\* pending_events of p's order as its transaction sees them
PendingView(p) == { r \in (pending \cup ws[p].defer) \ ws[p].settle :
                        r.order = ev[p].order }

\* ORDER BY event_timestamp, event_id
Before(r, s) == r.ts < s.ts \/ (r.ts = s.ts /\ r.id <= s.id)

\* row is what loadNextPending returns to p
IsNextPending(p, row) == /\ row \in PendingView(p)
                         /\ \A s \in PendingView(p) : Before(row, s)

-----------------------------------------------------------------------------
(* One caller's transaction                                                *)

Init == /\ orders      = [o \in Orders |-> NoOrder]
        /\ processed   = [i \in EventIDs |-> NotProcessed]
        /\ history     = [o \in Orders |-> <<>>]
        /\ pending     = {}
        /\ deadLetters = [i \in EventIDs |-> 0]
        /\ lock        = [k \in {hashtext[o] : o \in Orders} |-> Free]
        /\ pc          = [p \in Procs |-> "idle"]
        /\ ev          = [p \in Procs |-> NoRow]
        /\ cur         = [p \in Procs |-> NoStatus]
        /\ ws          = [p \in Procs |-> NoWrites]
        /\ result      = [p \in Procs |-> NoResult]

\* validateEvent passed and the pool handed out a connection: BEGIN
BeginTx(p, e) ==
    /\ pc[p] = "idle"
    /\ validateEvent(e)
    /\ pc'     = [pc EXCEPT ![p] = "lock"]
    /\ ev'     = [ev EXCEPT ![p] = Row(e)]
    /\ cur'    = [cur EXCEPT ![p] = NoStatus]
    /\ result' = [result EXCEPT ![p] = NoResult]
    /\ UNCHANGED <<tables, lock, ws>>

\* The early returns before a transaction exists: validateEvent refused the
\* event, or BEGIN failed.
ReturnEarly(p) ==
    /\ pc[p] = "idle"
    /\ ev'     = [ev EXCEPT ![p] = NoRow]
    /\ result' = [result EXCEPT ![p] = Failed]
    /\ UNCHANGED <<tables, lock, pc, cur, ws>>

RefuseEvent(p, e) == ~validateEvent(e) /\ ReturnEarly(p)

BeginFails(p, e) == validateEvent(e) /\ ReturnEarly(p)

\* Mutant: pg_try_advisory_xact_lock, its answer ignored.
AcquireLockNoWait(p) ==
    /\ pc[p] = "lock"
    /\ lock' = [lock EXCEPT ![Key(p)] = IF @ = Free THEN p ELSE @]
    /\ pc'   = [pc EXCEPT ![p] = "insert"]
    /\ UNCHANGED <<tables, ev, cur, ws, result>>

\* SELECT pg_advisory_xact_lock(hashtext(order_id)): waits for the lock
AcquireLock(p) ==
    /\ pc[p] = "lock"
    /\ lock[Key(p)] = Free
    /\ lock' = [lock EXCEPT ![Key(p)] = p]
    /\ pc'   = [pc EXCEPT ![p] = "insert"]
    /\ UNCHANGED <<tables, ev, cur, ws, result>>

\* An open transaction other than p's has written the row of event_id i.
WrittenElsewhere(p, i) == \E q \in Procs \ {p} : ws[q].outcome[i] # ""

\* Mutant: RowsAffected is not looked at (and the conflicting row overwritten).
insertProcessedEventAlways(p) ==
    /\ pc[p] = "insert"
    /\ ~WrittenElsewhere(p, ev[p].id)
    /\ pc' = [pc EXCEPT ![p] = "load"]
    /\ ws' = [ws EXCEPT ![p] = updateOutcome(@, ev[p], "RECEIVED")]
    /\ UNCHANGED <<tables, lock, ev, cur, result>>

\* INSERT INTO processed_events ... ON CONFLICT (event_id) DO NOTHING: waits
\* for an open transaction that wrote the row of that key; zero affected rows
\* means a duplicate event, which is committed at once.
insertProcessedEvent(p) ==
    /\ pc[p] = "insert"
    /\ ~WrittenElsewhere(p, ev[p].id)
    /\ \/ /\ processed[ev[p].id] # NotProcessed
          /\ pc'     = [pc EXCEPT ![p] = "commit"]
          /\ result' = [result EXCEPT ![p].class = "DUPLICATE_EVENT"]
          /\ UNCHANGED ws
       \/ /\ processed[ev[p].id] = NotProcessed
          /\ pc' = [pc EXCEPT ![p] = "load"]
          /\ ws' = [ws EXCEPT ![p] = updateOutcome(@, ev[p], "RECEIVED")]
          /\ UNCHANGED result
    /\ UNCHANGED <<tables, lock, ev, cur>>

\* SELECT current_status FROM orders
loadCurrentStatus(p) ==
    /\ pc[p] = "load"
    /\ cur' = [cur EXCEPT ![p] = orders[ev[p].order].status]
    /\ pc'  = [pc EXCEPT ![p] = "classify"]
    /\ UNCHANGED <<tables, lock, ev, ws, result>>

\* The switch on transition.Classification: the transaction's class becomes c,
\* its write set w, and it continues at statement next.
Route(p, c, w, next) ==
    /\ pc[p] = "classify"
    /\ EvaluateTransition(cur[p], ev[p].status) = c
    /\ ws'     = [ws EXCEPT ![p] = w]
    /\ result' = [result EXCEPT ![p].class = c]
    /\ pc'     = [pc EXCEPT ![p] = next]
    /\ UNCHANGED <<tables, lock, ev>>

\* Mutant: replayPending is given current instead of event.Status.
ApplyStaleCurrent(p) ==
    /\ Route(p, "APPLIED", applyEvent(ws[p], ev[p], cur[p]), "replay")
    /\ UNCHANGED cur

Apply(p) ==
    /\ Route(p, "APPLIED", applyEvent(ws[p], ev[p], cur[p]), "replay")
    /\ cur' = [cur EXCEPT ![p] = ev[p].status]

SkipDuplicateStatus(p) ==
    /\ Route(p, "DUPLICATE_STATUS",
             updateOutcome(ws[p], ev[p], "DUPLICATE_STATUS"), "commit")
    /\ UNCHANGED cur

Defer(p) ==
    /\ Route(p, "OUT_OF_ORDER", insertPendingEvent(ws[p], ev[p]), "commit")
    /\ UNCHANGED cur

Reject(p) ==
    /\ Route(p, "INVALID_TRANSITION", insertDeadLetterEvent(ws[p], ev[p]), "commit")
    /\ UNCHANGED cur

\* One iteration of replayPending's loop on the pending row it loaded.
ReplayRow(p, row, c, w) ==
    /\ pc[p] = "replay"
    /\ IsNextPending(p, row)
    /\ EvaluateTransition(cur[p], row.status) = c
    /\ ws' = [ws EXCEPT ![p] = w]

\* Mutant: current is not advanced by a replayed event.
ReplayApplyStaleCurrent(p) ==
    \E row \in PendingView(p) :
        /\ ReplayRow(p, row, "APPLIED",
                     deletePending(applyEvent(ws[p], row, cur[p]), row))
        /\ result' = [result EXCEPT ![p].replayed = @ + 1]
        /\ UNCHANGED <<tables, lock, pc, ev, cur>>

ReplayApply(p) ==
    \E row \in PendingView(p) :
        /\ ReplayRow(p, row, "APPLIED",
                     deletePending(applyEvent(ws[p], row, cur[p]), row))
        /\ cur'    = [cur EXCEPT ![p] = row.status]
        /\ result' = [result EXCEPT ![p].replayed = @ + 1]
        /\ UNCHANGED <<tables, lock, pc, ev>>

ReplaySkip(p) ==
    \E row \in PendingView(p) :
        /\ ReplayRow(p, row, "DUPLICATE_STATUS",
                     deletePending(updateOutcome(ws[p], row, "DUPLICATE_STATUS"), row))
        /\ UNCHANGED <<tables, lock, pc, ev, cur, result>>

ReplayReject(p) ==
    \E row \in PendingView(p) :
        /\ ReplayRow(p, row, "INVALID_TRANSITION",
                     deletePending(insertDeadLetterEvent(ws[p], row), row))
        /\ UNCHANGED <<tables, lock, pc, ev, cur, result>>

\* The loop returns: no pending row is left, or the first one is still out of
\* order.
ReplayDone(p) ==
    /\ pc[p] = "replay"
    /\ \/ PendingView(p) = {}
       \/ \E row \in PendingView(p) :
              /\ IsNextPending(p, row)
              /\ EvaluateTransition(cur[p], row.status) = "OUT_OF_ORDER"
    /\ pc' = [pc EXCEPT ![p] = "commit"]
    /\ UNCHANGED <<tables, lock, ev, cur, ws, result>>

\* Mutant: pg_advisory_lock, which the end of the transaction does not release.
EndTxKeepsLock(p) ==
    /\ pc' = [pc EXCEPT ![p] = "idle"]
    /\ ws' = [ws EXCEPT ![p] = NoWrites]
    /\ UNCHANGED <<lock, ev, cur>>

\* The end of p's transaction, on the server: the lock is released.
EndTx(p) ==
    /\ pc'   = [pc EXCEPT ![p] = "idle"]
    /\ ws'   = [ws EXCEPT ![p] = NoWrites]
    /\ lock' = [k \in DOMAIN lock |-> IF lock[k] = p THEN Free ELSE lock[k]]
    /\ UNCHANGED <<ev, cur>>

\* COMMIT makes p's write set visible.
MakeVisible(p) ==
    /\ orders' = [orders EXCEPT ![ev[p].order] =
                     IF ws[p].order = NoOrder THEN @ ELSE ws[p].order]
    /\ processed' = [i \in EventIDs |->
                        IF ws[p].outcome[i] = "" THEN processed[i]
                        ELSE [row     |-> IF i = ev[p].id THEN ev[p]
                                          ELSE processed[i].row,
                              outcome |-> ws[p].outcome[i]]]
    /\ history'     = [history EXCEPT ![ev[p].order] = @ \o ws[p].history]
    /\ pending'     = (pending \cup ws[p].defer) \ ws[p].settle
    /\ deadLetters' = [i \in EventIDs |-> deadLetters[i] + ws[p].dead[i]]

\* commitResult: success, or an error although the server has committed (the
\* connection was lost before the answer arrived).
Commit(p) ==
    /\ pc[p] = "commit"
    /\ MakeVisible(p)
    /\ EndTx(p)
    /\ \/ result' = [result EXCEPT ![p].status = "ok"]
       \/ result' = [result EXCEPT ![p] = Failed]

\* Mutant: the error of COMMIT is not looked at.
RollbackUnnoticed(p) ==
    /\ pc[p] # "idle"
    /\ EndTx(p)
    /\ result' = IF pc[p] = "commit" THEN [result EXCEPT ![p].status = "ok"]
                 ELSE [result EXCEPT ![p] = Failed]
    /\ UNCHANGED tables

\* Mutant: the statements run on the pool instead of the transaction.
RollbackKeepsWrites(p) ==
    /\ pc[p] # "idle"
    /\ MakeVisible(p)
    /\ EndTx(p)
    /\ result' = [result EXCEPT ![p] = Failed]

\* A statement failed, COMMIT was refused or the caller died: the deferred
\* Rollback (or the server, on the lost connection) discards the write set.
Rollback(p) ==
    /\ pc[p] # "idle"
    /\ EndTx(p)
    /\ result' = [result EXCEPT ![p] = Failed]
    /\ UNCHANGED tables

\* The statements of p's transaction between the insert and the COMMIT
TxBody(p) ==
    \/ loadCurrentStatus(p)
    \/ Apply(p) \/ SkipDuplicateStatus(p) \/ Defer(p) \/ Reject(p)
    \/ ReplayApply(p) \/ ReplaySkip(p) \/ ReplayReject(p) \/ ReplayDone(p)

\* The statements that wait for nobody
Statement(p) == TxBody(p) \/ Commit(p)

Next == \E p \in Procs :
            \/ \E e \in Events : BeginTx(p, e) \/ RefuseEvent(p, e) \/ BeginFails(p, e)
            \/ AcquireLock(p)
            \/ insertProcessedEvent(p)
            \/ Statement(p)
            \/ Rollback(p)

Spec == Init /\ [][Next]_vars

\* Every statement sent is answered in the end, and PostgreSQL queues those who
\* wait for an advisory lock or for another transaction's key, so a waiter is
\* not overtaken for ever.  Nothing forces a failure, and nothing forces a
\* caller to submit an event.
Fairness == \A p \in Procs : /\ WF_vars(Statement(p))
                             /\ SF_vars(AcquireLock(p))
                             /\ SF_vars(insertProcessedEvent(p))

FairSpec == Spec /\ Fairness

-----------------------------------------------------------------------------
(* Properties                                                              *)

Steps == {"idle", "lock", "insert", "load", "classify", "replay", "commit"}

Results == [status   : {"none", "ok", "error"},
            class    : Classification \cup {"", "DUPLICATE_EVENT"},
            replayed : Nat]

\* Every table, and everything a caller of ProcessEventTx holds while it runs,
\* has the shape the schema and the Go types give it.
TypeOK ==
    /\ orders \in [Orders -> OrderRow]
    /\ processed \in [EventIDs -> [row : Rows \cup {NoRow}, outcome : Outcome \cup {""}]]
    /\ history \in [Orders -> Seq(HistoryRow)]
    /\ pending \in SUBSET Rows
    /\ deadLetters \in [EventIDs -> Nat]
    /\ lock \in [{hashtext[o] : o \in Orders} -> Procs \cup {Free}]
    /\ pc \in [Procs -> Steps]
    /\ ev \in [Procs -> Rows \cup {NoRow}]
    /\ \A p \in Procs : pc[p] # "idle" => ev[p] \in Rows
    /\ cur \in [Procs -> Status \cup {NoStatus}]
    /\ ws \in [Procs -> WriteSet]
    /\ result \in [Procs -> Results]

\* What EvaluateTransition was asked about is still true when its answer is
\* written: between loadCurrentStatus and COMMIT no other caller changes the
\* order, so the INSERT INTO orders meets no existing row and the UPDATE
\* overwrites no transition it has not seen (order_repository.go:84-135).
NoStaleWrite ==
    \A p \in Procs :
        LET committed == orders[ev[p].order].status
        IN  /\ pc[p] = "classify" => cur[p] = committed
            /\ ws[p].history # <<>> => ws[p].history[1].from = committed

\* The rows of h lead from status s through allowed transitions, each starting
\* where the previous one ended.
LegalChain(h, s) ==
    \A n \in 1..Len(h) : /\ <<h[n].from, h[n].to>> \in AppliedPairs
                         /\ h[n].from = IF n = 1 THEN s ELSE h[n - 1].to

\* The status they lead to.
EndOf(h, s) == IF h = <<>> THEN s ELSE h[Len(h)].to

\* order_status_history tells one legal lifecycle per order: it starts from no
\* status, every row continues the previous one by an allowed transition, and
\* the last row is the order's current status, although the rows come from
\* many transactions and from replays (order_repository.go:315-379, 484-502).
HistoryIsLifecycle ==
    \A o \in Orders : /\ LegalChain(history[o], NoStatus)
                      /\ orders[o].status = EndOf(history[o], NoStatus)

\* Every event_id ever committed is accounted for in exactly one place, the one
\* its outcome names, whatever was redelivered, replayed or rolled back:
\* APPLIED is one history row, OUT_OF_ORDER one pending row, INVALID_TRANSITION
\* one dead-letter row, and RECEIVED is never visible
\* (order_repository.go:99-212, 464-551).
EventAccountedOnce ==
    /\ \A i \in EventIDs :
           LET out == processed[i].outcome
           IN  /\ out # "RECEIVED"
               /\ deadLetters[i] = IF out = "INVALID_TRANSITION" THEN 1 ELSE 0
               /\ (out = "OUT_OF_ORDER") <=> (\E r \in pending : r.id = i)
               /\ (out = "APPLIED") <=>
                      (\E o \in Orders : \E n \in 1..Len(history[o]) : history[o][n].id = i)
    /\ \A r \in pending : processed[r.id].row = r
    /\ \A o1, o2 \in Orders :
           \A n1 \in 1..Len(history[o1]), n2 \in 1..Len(history[o2]) :
               history[o1][n1].id = history[o2][n2].id => o1 = o2 /\ n1 = n2

\* When ProcessEventTx has returned success, which is what the caller takes as
\* the licence to XACK, the event is durably recorded with a final or deferred
\* outcome; unless the caller was told DUPLICATE_EVENT it is this very event
\* that was recorded (order_repository.go:103-112, 609-623).
SuccessIsDurable ==
    \A p \in Procs :
        result[p].status = "ok" =>
            /\ processed[ev[p].id].outcome \in Classification
            /\ result[p].class # "DUPLICATE_EVENT" => processed[ev[p].id].row = ev[p]

\* A committed outcome is final, except that a deferred event may be settled by
\* a replay, and committed history is never rewritten: a redelivery or a
\* late transaction can only add (order_repository.go:256-286, 439-462).
CommittedIsFinal ==
    [][/\ \A i \in EventIDs :
             processed[i].outcome \notin {"", "OUT_OF_ORDER"} =>
                 processed'[i] = processed[i]
       /\ \A o \in Orders :
             /\ Len(history'[o]) >= Len(history[o])
             /\ SubSeq(history'[o], 1, Len(history[o])) = history[o]]_<<processed, history>>

\* The whole protocol of locks, statements, replays, commits, rollbacks and
\* retries takes effect as one indivisible step of the ledger, at COMMIT: an
\* event is taken in once, settles only events of its own order, and extends
\* the order's trail by exactly the events whose outcome becomes APPLIED
\* (order_repository.go:67-213, 464-551).
Ledger == INSTANCE OrderLedger WITH
    trail <- [o \in Orders |-> [n \in DOMAIN history[o] |-> history[o][n].id]],
    fate  <- [i \in EventIDs |-> [order   |-> processed[i].row.order,
                                  status  |-> processed[i].row.status,
                                  outcome |-> processed[i].outcome]]

ImplementsLedger == Ledger!LedgerSpec

\* A transaction that has begun ends: waiting for the advisory lock and waiting
\* for another transaction's event_id never form a cycle
\* (order_repository.go:87-103).
TransactionEnds == \A p \in Procs : pc[p] # "idle" ~> pc[p] = "idle"

\* The migration's comment on pending_events: it "Holds deferred or retryable
\* events that cannot yet be applied", so the committed status of an order
\* admits none of its pending events (order_repository.go:464-551).
PendingCannotYetBeApplied ==
    \A r \in pending : EvaluateTransition(orders[r.order].status, r.status) # "APPLIED"
=============================================================================
