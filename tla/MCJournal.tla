------------------------------ MODULE MCJournal ------------------------------
(* Small instances of Journal for TLC. *)
EXTENDS Journal

CONSTANTS p1, p2

TwoProcesses == {p1, p2}
OneProcess   == {p1}

Events(kill, power, full, resume) ==
  [e \in EventKind |-> CASE e = "kill" -> kill [] e = "power" -> power
                         [] e = "full" -> full [] e = "resume" -> resume]

Crashes == Events(1, 1, 1, 2)
Stale   == Events(0, 0, 0, 1)

==============================================================================
