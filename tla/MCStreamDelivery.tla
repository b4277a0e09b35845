-------------------------- MODULE MCStreamDelivery --------------------------
(* Instances of StreamDelivery for TLC.                                    *)
EXTENDS StreamDelivery, TLC

CONSTANTS w1, w2

Message1  == [id |-> 1, form |-> "valid"]
Message2  == [id |-> 2, form |-> "valid"]
Malformed == [id |-> 3, form |-> "malformed"]
Refused   == [id |-> 4, form |-> "refused"]

MixedMessages  == {Message1, Message2, Malformed, Refused}
PoisonMessages == {Message1, Malformed}
=============================================================================
