------------------------ MODULE MCAsyncFileBackend ------------------------
(* Two callers and the manager.  A backend that has logged nothing before is *)
(* registered by its first record; Flush() of one is a run of its own.       *)
EXTENDS AsyncFileBackend

FlushOrFreeze ==
  {[operations |-> {"log", "flush"}, registered |-> TRUE],
   [operations |-> {"log", "freeze"}, registered |-> FALSE]}

FlushAndFreeze == {[operations |-> {"log", "flush", "freeze"}, registered |-> TRUE]}

FlushAndOrFreeze == FlushOrFreeze \cup FlushAndFreeze

FlushUnregistered == {[operations |-> {"log", "flush"}, registered |-> FALSE]}

(* Three records fill a buffer of two and begin another one; one is enough   *)
(* to be in the hands of a Flush() when the manager drains.                  *)
UpToThree(ops) == IF {"flush", "freeze"} \subseteq ops THEN 1 ELSE 3

One(ops) == 1
=============================================================================
