----------------------------- MODULE MCPipeline -----------------------------
(* Instances of Pipeline for TLC.                                          *)
EXTENDS Pipeline, TLC

CONSTANTS w1, w2, o1

OneLock == [o \in Orders |-> 1]

OrderEvent(i, s, t) ==
    [id |-> i, order |-> o1, status |-> s, ts |-> t, payload |-> "object"]

Created   == OrderEvent(1, "CREATED", 2)
Paid      == OrderEvent(2, "PAID", 4)
Shipped   == OrderEvent(3, "SHIPPED", 6)
Cancelled == OrderEvent(2, "CANCELLED", 8)

\* A creation before a cancellation, one beside an event that validateEvent
\* refuses, and a lifecycle published backwards or with the
\* shipment too early
MixedScripts == {<<Created, Cancelled>>, <<Created, OrderEvent(2, "REFUNDED", 4)>>,
                 <<Shipped, Paid, Created>>, <<Created, Shipped, Paid>>}

\* A creation and a cancellation in lifecycle order
CancelledInOrder == {<<Created, Cancelled>>}
=============================================================================
