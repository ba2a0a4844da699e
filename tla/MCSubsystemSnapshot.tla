------------------------ MODULE MCSubsystemSnapshot ------------------------
(* A few readers and writers, and a limit of few snapshots. *)
EXTENDS SubsystemSnapshot, TLC

ThreadsSymmetry == Permutations(Readers) \cup Permutations(Writers)
=============================================================================
