--------------------------- MODULE MCQueueManagers ---------------------------
(* Instances of QueueManagers for TLC.                                       *)
EXTENDS QueueManagers, TLC

CONSTANTS t1, t2

TwoManagers == 1..2
Symmetric   == Permutations(Threads)
=============================================================================
