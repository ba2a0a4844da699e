--------------------------- MODULE MCBufferQueue ---------------------------
(* Two callers and the worker on a queue of small buffers. *)
EXTENDS BufferQueue, TLC

MCRecordSizes == {1, 3}

CallersSymmetry == Permutations(Callers)
============================================================================
