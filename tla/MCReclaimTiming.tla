-------------------------- MODULE MCReclaimTiming --------------------------
(* Instances of ReclaimTiming for TLC.                                     *)
EXTENDS ReclaimTiming

\* Intervals shorter than, equal to and longer than the minimum idle time
SmallConfigs == [interval : 1..3, minIdle : 1..4, count : 1..2, work : 0..1]
============================================================================
