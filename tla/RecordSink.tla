----------------------------- MODULE RecordSink -----------------------------
(***************************************************************************)
(* What an asynchronous log queue promises to those who append: a record   *)
(* is accepted or refused when Append returns, an accepted record is        *)
(* handed to the writer once, in some later batch, and nothing is ever      *)
(* taken back.  Records are numbered in the order of the appends.           *)
(***************************************************************************)
EXTENDS Naturals

VARIABLES
  offered,    \* how many records were offered
  pending,    \* accepted, not handed over
  delivered,  \* handed to the writer
  refused

vars == <<offered, pending, delivered, refused>>

Init ==
  /\ offered = 0
  /\ pending = {}
  /\ delivered = {}
  /\ refused = {}

Accept ==
  /\ offered' = offered + 1
  /\ pending' = pending \cup {offered + 1}
  /\ UNCHANGED <<delivered, refused>>

Refuse ==
  /\ offered' = offered + 1
  /\ refused' = refused \cup {offered + 1}
  /\ UNCHANGED <<pending, delivered>>

Deliver(batch) ==
  /\ batch # {}
  /\ pending' = pending \ batch
  /\ delivered' = delivered \cup batch
  /\ UNCHANGED <<offered, refused>>

Next == Accept \/ Refuse \/ \E batch \in SUBSET pending : Deliver(batch)

Spec == Init /\ [][Next]_vars
============================================================================
