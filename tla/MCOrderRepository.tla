------------------------- MODULE MCOrderRepository -------------------------
(* Instances of OrderRepository for TLC.                                   *)
EXTENDS OrderRepository, TLC

CONSTANTS p1, p2, p3, o1, o2

Symmetry == Permutations(Procs)

Event(i, o, s, t) == [id |-> i, order |-> o, status |-> s, ts |-> t, payload |-> "object"]

\* Every order has its own lock.
DistinctHash == [o \in Orders |-> IF o = o1 THEN 1 ELSE 2]

\* One order's lifecycle with a second payment, a cancellation and an event
\* validateEvent refuses, and another order whose events were given two of the
\* same identifiers; timestamps are in lifecycle order.
LifecycleEvents ==
    { Event(1, o1, "CREATED", 2),   Event(2, o1, "PAID", 4),
      Event(3, o1, "SHIPPED", 7),   Event(4, o1, "PAID", 5),
      Event(4, o1, "CANCELLED", 8), Event(4, o1, "REFUNDED", 9),
      Event(1, o2, "CREATED", 2),   Event(3, o2, "PAID", 4) }

\* The creations of two orders under one identifier.
CreationEvents == { Event(1, o1, "CREATED", 2), Event(1, o2, "CREATED", 2) }

\* A shipment stamped in the same microsecond as the payment, with the smaller
\* event_id: 4 and 5 ticks are both 2 microseconds.
SameMicrosecondEvents ==
    { Event(1, o1, "CREATED", 2), Event(3, o1, "PAID", 4), Event(2, o1, "SHIPPED", 5) }
=============================================================================
