--------------------------- MODULE MCLogStatistics ---------------------------
(* Instances of LogStatistics for TLC.                                       *)
EXTENDS LogStatistics

CONSTANTS t1, t2, s1, s2, a1
=============================================================================
