--------------------------- MODULE ReclaimTiming ---------------------------
(***************************************************************************)
(* The reclaimer against the clock: every Interval it claims at most Count *)
(* of the pending entries that have been idle for MinIdle, oldest first,   *)
(* and a claim makes an entry young again.  Entries that Process refuses   *)
(* (validateEvent) are never acknowledged and come back for ever.          *)
(*                                                                         *)
(* StreamDelivery has no clock; this module has nothing but it.  Time      *)
(* advances in ticks, handling what was claimed takes up to Work of them   *)
(* and acknowledges as it goes.  Entries that do not parse are left to     *)
(* StreamDelivery.                                                         *)
(***************************************************************************)
EXTENDS Integers, FiniteSets

CONSTANTS Configs,   \* the settings that may be in force
          MaxEntry,  \* bound: entries 1..MaxEntry are pending, in stream order
          MaxFaults  \* bound: failed attempts at an entry that is not refused

\* RECLAIM_INTERVAL_SECONDS, RECLAIM_MIN_IDLE_SECONDS, RECLAIM_COUNT and the
\* longest time one reclaim takes; NewReclaimer insists on the first three.
ASSUME ConfigAssumption ==
    \A c \in Configs : /\ {c.interval, c.minIdle, c.count} \subseteq Nat \ {0}
                       /\ c.work \in Nat
ASSUME BoundAssumption == MaxEntry \in Nat /\ MaxFaults \in Nat

Entries == 1..MaxEntry

VARIABLES config,  \* the settings of this process
          refused, \* the entries that Process refuses
          pel,     \* pending entries
          idle,    \* how long each has been idle, not told apart beyond minIdle
          timer,   \* ticks until the timer fires
          faults   \* bound: failed attempts so far

vars == <<config, refused, pel, idle, timer, faults>>

\* Workers left all entries behind at some time; the first reclaim is at once.
Init == /\ config \in Configs
        /\ refused \in SUBSET Entries
        /\ pel    = Entries
        /\ idle   \in [Entries -> {0, config.minIdle}]
        /\ timer  = 0
        /\ faults = 0

Lesser(m, n) == IF m < n THEN m ELSE n

\* One tick of the clock
Tick ==
    /\ timer > 0
    /\ timer' = timer - 1
    /\ idle'  = [i \in Entries |-> Lesser(idle[i] + 1, config.minIdle)]
    /\ UNCHANGED <<config, refused, pel, faults>>

\* The first n entries of S in stream order
Oldest(S, n) == {i \in S : Cardinality({j \in S : j < i}) < n}

\* Mutant: XAUTOCLAIM is called without a minimum idle time.
ClaimPendingYoung == Oldest(pel, config.count)

\* What ClaimPending returns: it calls XAUTOCLAIM from 0-0 on until it has Count
\* entries or has looked at all.
ClaimPending == Oldest({i \in pel : idle[i] >= config.minIdle}, config.count)

\* Mutant: the timer is reset to the other duration.
ReclaimResetToMinIdle ==
    /\ timer = 0
    /\ pel'   = pel \ (ClaimPending \ refused)
    /\ idle'  = [i \in Entries |-> IF i \in ClaimPending THEN 0 ELSE idle[i]]
    /\ timer' = config.minIdle
    /\ UNCHANGED <<config, refused, faults>>

\* reclaim and timer.Reset: the claimed entries are processed, and acknowledged
\* except the refused ones and those whose processing failed.
Reclaim ==
    /\ timer = 0
    /\ \E failed \in SUBSET (ClaimPending \ refused) :
          /\ failed # {} => faults < MaxFaults
          /\ faults' = IF failed = {} THEN faults ELSE faults + 1
          /\ pel'    = pel \ (ClaimPending \ (refused \cup failed))
    /\ idle'  = [i \in Entries |-> IF i \in ClaimPending THEN 0 ELSE idle[i]]
    /\ timer' \in config.interval .. config.interval + config.work
    /\ UNCHANGED <<config, refused>>

Next == Tick \/ Reclaim

Spec == Init /\ [][Next]_vars

\* The clock runs, and the reclaimer's goroutine is never blocked for ever.
FairSpec == Spec /\ WF_vars(Next)

-----------------------------------------------------------------------------
(* Properties                                                              *)

\* The settings, the clock and the pending list have their types.
TypeOK ==
    /\ config \in Configs
    /\ refused \subseteq Entries
    /\ pel \subseteq Entries
    /\ idle \in [Entries -> 0..config.minIdle]
    /\ timer \in 0..(config.interval + config.work)
    /\ faults \in 0..MaxFaults

\* Rounds of the reclaimer until a claimed entry is old enough again, rounded up
RoundsToAge(c) == (c.minIdle + c.interval + c.work - 1) \div (c.interval + c.work)

\* Every entry that is not refused is acknowledged.
AllRecovered == \A i \in Entries : <>(i \in refused \/ i \notin pel)

\* How much poison the reclaimer stands: while fewer entries are refused than it
\* can claim in the rounds that a claimed entry takes to grow old again, every
\* other pending entry is recovered, wherever it is in the stream
\* (reclaimer.go:95-135, redis_stream.go:149-204).
RecoversBelowCapacity ==
    (Cardinality(refused) < config.count * RoundsToAge(config)) => AllRecovered
=============================================================================
