----------------------------- MODULE MCChannels -----------------------------
(* Instances of Channels for TLC.                                            *)
EXTENDS Channels, TLC

CONSTANTS t1, t2

ThreadsSymmetry == Permutations({t1, t2})

=============================================================================
