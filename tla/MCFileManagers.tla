---------------------------- MODULE MCFileManagers ----------------------------
(* FileManagers on a small instance. *)
EXTENDS FileManagers

CONSTANTS b1, b2, f, o
=============================================================================
