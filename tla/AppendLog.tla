------------------------------ MODULE AppendLog ------------------------------
(***************************************************************************)
(* What the DCJ1 journal promises whoever writes it: a log that grows one   *)
(* record at a time and never loses a record it has acknowledged.           *)
(***************************************************************************)
EXTENDS Naturals, Sequences

CONSTANT Entry   \* the records a program may log

VARIABLES
  log,    \* what a reader of the log sees
  acked   \* what append has acknowledged

Init == log = <<>> /\ acked = <<>>

(* A record becomes readable, before append returns. *)
Publish == \E e \in Entry : log' = Append(log, e) /\ UNCHANGED acked

Acknowledge == acked' = log /\ UNCHANGED log

(* A crash takes back what was never acknowledged. *)
Lose ==
  \E n \in Len(acked) .. Len(log) : log' = SubSeq(log, 1, n)
  /\ UNCHANGED acked

Next == Publish \/ Acknowledge \/ Lose

Spec == Init /\ [][Next]_<<log, acked>>

==============================================================================
