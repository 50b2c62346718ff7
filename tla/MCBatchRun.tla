----------------------------- MODULE MCBatchRun -----------------------------
(* Two commands and two drives; one drive is partitioned, verified and may  *)
(* lose writes, the other has no serial and is not read back.               *)
EXTENDS BatchRun

TwoProcs   == {"p", "q"}
TwoDrives  == {"sda", "sdb"}
\* The same drives in opposite orders, one fault at most; one command alone,
\* with two; a command that names a drive twice.
Opposite   == [p |-> <<"sda", "sdb">>, q |-> <<"sdb", "sda">>]
Alone      == [p |-> <<"sda", "sdb">>, q |-> <<>>]
Twice      == [p |-> <<"sda", "sda">>, q |-> <<"sdb">>]
Lists      == {Opposite, Alone, Twice}
Faults     == [b \in Lists |-> CASE b = Opposite -> 1 [] b = Alone -> 2 [] b = Twice -> 1]
Partitions == [sda |-> 1, sdb |-> 0]
Sda        == {"sda"}
Sdb        == {"sdb"}
=============================================================================
