---------------------------- MODULE OrderLedger ----------------------------
(***************************************************************************)
(* What the order repository promises, without transactions, locks or      *)
(* statements: a ledger that takes in every event at most once, in one     *)
(* indivisible step, and keeps for each order the trail of the events that *)
(* changed its status.                                                     *)
(*                                                                         *)
(* An event whose turn has not come is kept as OUT_OF_ORDER.  Only the     *)
(* acceptance of another event of the same order may settle it: it then    *)
(* continues the trail, or it is found redundant or impossible.            *)
(***************************************************************************)
EXTENDS OrderDomain, Integers, Sequences

CONSTANTS Orders, EventIDs

VARIABLES trail,  \* per order, the identifiers of its applied events
          fate    \* per identifier, the event taken in under it and its outcome

ledger == <<trail, fate>>

Unknown == [order |-> "", status |-> "", outcome |-> ""]

LedgerInit == /\ trail = [o \in Orders |-> <<>>]
              /\ fate  = [i \in EventIDs |-> Unknown]

StatusOf(o) == IF trail[o] = <<>> THEN NoStatus
               ELSE fate[trail[o][Len(trail[o])]].status

\* The events by which the step extends the trail of order o.
Added(o) == SubSeq(trail'[o], Len(trail[o]) + 1, Len(trail'[o]))

\* path is a sequence of distinct events that leads from status s through
\* allowed transitions only.
LegalPath(s, path) ==
    /\ \A n \in DOMAIN path :
           <<IF n = 1 THEN s ELSE fate'[path[n - 1]].status,
             fate'[path[n]].status>> \in AppliedPairs
    /\ \A m, n \in DOMAIN path : path[m] = path[n] => m = n

\* Taking in event i of order o, asking for status s, leaves the order as it
\* is: the event is redundant, early or impossible.
Record(o, i, s) ==
    LET c == EvaluateTransition(StatusOf(o), s)
    IN  /\ c # "APPLIED"
        /\ fate' = [fate EXCEPT ![i] = [order |-> o, status |-> s, outcome |-> c]]
        /\ UNCHANGED trail

\* Taking in event i moves the order along path, whose first event is i and
\* whose others had been deferred.  A deferred event of o that does not join
\* the path stays deferred, or is settled as what it is to a status on the path.
Advance(o, i, s, path) ==
    /\ path # <<>> /\ path[1] = i
    /\ fate'[i] = [order |-> o, status |-> s, outcome |-> "APPLIED"]
    /\ LegalPath(StatusOf(o), path)
    /\ trail' = [trail EXCEPT ![o] = @ \o path]
    /\ \A j \in EventIDs \ {i} :
          \/ /\ fate'[j] = fate[j]
             /\ \A n \in DOMAIN path : path[n] # j
          \/ /\ fate[j].order = o
             /\ fate[j].outcome = "OUT_OF_ORDER"
             /\ \E c \in Classification \ {"OUT_OF_ORDER"} :
                   /\ fate'[j] = [fate[j] EXCEPT !.outcome = c]
                   /\ (c = "APPLIED") <=> \E n \in DOMAIN path : path[n] = j
                   /\ \/ c = "APPLIED"
                      \/ \E n \in DOMAIN path :
                            c = EvaluateTransition(fate'[path[n]].status, fate[j].status)

\* The ledger takes in a new event.
TakeIn(o, i) ==
    /\ fate[i] = Unknown
    /\ \E s \in Status : Record(o, i, s) \/ Advance(o, i, s, Added(o))
    /\ DOMAIN fate' = EventIDs

LedgerNext == \E o \in Orders, i \in EventIDs : TakeIn(o, i)

LedgerSpec == LedgerInit /\ [][LedgerNext]_ledger
=============================================================================
