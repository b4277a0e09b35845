------------------------------ MODULE MCStats ------------------------------
(* Instances of Stats for TLC.                                             *)
EXTENDS Stats, TLC

CONSTANTS w1, w2

Symmetry == Permutations(Workers)

MixedMessages == {[id |-> 1, form |-> "valid"], [id |-> 2, form |-> "refused"],
                  [id |-> 3, form |-> "malformed"]}
=============================================================================
