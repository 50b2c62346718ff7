-------------------------- MODULE MCMeshConsensus --------------------------
(* Four members, the smallest cluster with a fault bound of one. *)
EXTENDS MeshConsensus

FourNodes == 1 .. 4
One       == {4}
None      == {}
TwoBodies == {"a", "b"}

\* Member 3 saw one more transcript arrive between two proposals.
Mixed == [n \in FourNodes |-> IF n = 3 THEN TwoBodies ELSE {"a"}]
Same  == [n \in FourNodes |-> {"a"}]

\* The blocks a Byzantine speaker signs: one that names an honest member a rogue,
\* ruled or not, and an empty one; or two over different evidence.
Loose == {[body |-> "a", rogues |-> {1}], [body |-> "empty", rogues |-> {}]}
Plain == {[body |-> c, rogues |-> {}] : c \in TwoBodies}

\* Which member speaks in views 0 and 1 while all four are live.
OneThenFour == [v \in 0 .. 1 |-> IF v = 0 THEN 0 ELSE 3]
=============================================================================
