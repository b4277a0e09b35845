----------------------------- MODULE MCProducer -----------------------------
(* Instances of Producer for TLC.                                          *)
EXTENDS Producer

Config(t, d, o, i, b) == [total |-> t, duplicates |-> d, outOfOrder |-> o,
                          invalid |-> i, batchSize |-> b, redis |-> TRUE]

\* Every mixture of ratios for up to seven events and three batch sizes, refused
\* ones and ones with more duplicates than unique events among them.
SmallConfigs ==
    {Config(t, d, o, i, b) :
        t \in 0..7, d \in 0..4, o \in 0..2, i \in 0..1, b \in {0, 2, 3}}
=============================================================================
