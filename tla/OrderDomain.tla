---------------------------- MODULE OrderDomain ----------------------------
(***************************************************************************)
(* The order lifecycle of internal/domain: the statuses, the event record  *)
(* and the classification of a requested transition.  The empty string is  *)
(* the code's own representation of "the order does not exist yet".        *)
(***************************************************************************)

Status == {"CREATED", "PAID", "SHIPPED", "CANCELLED"}

NoStatus == ""

Classification ==
    {"APPLIED", "DUPLICATE_STATUS", "OUT_OF_ORDER", "INVALID_TRANSITION"}

isKnown(s) == s \in Status

\* The transitions EvaluateTransition allows, as (current, next) pairs.
AppliedPairs == { <<NoStatus,  "CREATED">>,
                  <<"CREATED", "PAID">>,
                  <<"PAID",    "SHIPPED">>,
                  <<"CREATED", "CANCELLED">>,
                  <<"PAID",    "CANCELLED">> }

\* The transitions whose prerequisite may still arrive.
OutOfOrderPairs == { <<NoStatus,  "PAID">>,
                     <<NoStatus,  "SHIPPED">>,
                     <<"CREATED", "SHIPPED">> }

\* EvaluateTransition(current, next).Classification
EvaluateTransition(current, next) ==
    IF \/ ~isKnown(next)
       \/ current # NoStatus /\ ~isKnown(current)
    THEN "INVALID_TRANSITION"
    ELSE IF current = next
    THEN "DUPLICATE_STATUS"
    ELSE IF <<current, next>> \in AppliedPairs
    THEN "APPLIED"
    ELSE IF <<current, next>> \in OutOfOrderPairs
    THEN "OUT_OF_ORDER"
    ELSE "INVALID_TRANSITION"
=============================================================================
