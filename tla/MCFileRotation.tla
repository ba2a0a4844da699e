--------------------------- MODULE MCFileRotation ---------------------------
(* Instances of FileRotation for TLC.                                        *)
EXTENDS FileRotation

Config(async, time, parts, gzip) ==
  [async |-> async, time |-> time, parts |-> parts, gzip |-> gzip, clean |-> TRUE]

OneThreadCompletes ==
  {Config(FALSE, TRUE, 3, TRUE), Config(FALSE, TRUE, 2, FALSE), Config(TRUE, FALSE, 0, TRUE)}
BothThreadsComplete == {Config(TRUE, TRUE, 0, FALSE)}
=============================================================================
