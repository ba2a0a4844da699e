----------------------------- MODULE LevelTable -----------------------------
(***************************************************************************)
(* What the subsystem levels of a Logger promise: a table that is updated  *)
(* at once and read by calls that take time.  A call returns an entry of a  *)
(* table that was current at some moment of the call.                       *)
(***************************************************************************)
CONSTANTS Threads, Subsystems, Levels, None

VARIABLES
  table,      \* the current table
  asked,      \* the subsystem each call asks for, None outside a call
  answers,    \* what each call may answer
  answer      \* what the last call of each thread answered

vars == <<table, asked, answers, answer>>

Tables == [Subsystems -> Levels \cup {None}]

Init ==
  /\ table = [sid \in Subsystems |-> None]
  /\ asked = [t \in Threads |-> None]
  /\ answers = [t \in Threads |-> {}]
  /\ answer = [t \in Threads |-> None]

Update ==
  /\ table' \in Tables
  /\ answers' = [t \in Threads |->
                   IF asked[t] = None THEN answers[t]
                   ELSE answers[t] \cup {table'[asked[t]]}]
  /\ UNCHANGED <<asked, answer>>

Ask(t) ==
  /\ asked[t] = None
  /\ \E sid \in Subsystems :
       /\ asked' = [asked EXCEPT ![t] = sid]
       /\ answers' = [answers EXCEPT ![t] = {table[sid]}]
  /\ UNCHANGED <<table, answer>>

Answer(t) ==
  /\ asked[t] # None
  /\ \E level \in answers[t] : answer' = [answer EXCEPT ![t] = level]
  /\ asked' = [asked EXCEPT ![t] = None]
  /\ answers' = [answers EXCEPT ![t] = {}]
  /\ UNCHANGED table

Next == Update \/ \E t \in Threads : Ask(t) \/ Answer(t)

Spec == Init /\ [][Next]_vars
=============================================================================
