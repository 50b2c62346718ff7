--------------------------- MODULE MCMeshWitness ---------------------------
(* Four members, the smallest cluster. *)
EXTENDS MeshWitness

FourNodes == 1 .. 4
Two       == {"a", "b"}

\* Member 4 misbehaves.
Fleet(held, b, m, h) ==
  [drives   |-> held,
   behavior |-> [n \in FourNodes |-> IF n = 4 THEN b ELSE "Honest"],
   met      |-> m,
   hasty    |-> h]

\* One drive, of one member or dual-ported; and one drive each of members 1 and
\* 4, of which the one that is cut off must not make up for the other.
Of(S) == [n \in FourNodes |-> IF n \in S THEN {"a"} ELSE {}]
Each  == [n \in FourNodes |-> CASE n = 1 -> {"a"} [] n = 4 -> {"b"} [] OTHER -> {}]

Rogues == {Fleet(Of({4}), "Liar", FourNodes, {1, 2}), Fleet(Of({4}), "Silent", FourNodes, FourNodes),
           Fleet(Of({1, 4}), "Liar", FourNodes, {}), Fleet(Of({1}), "Silent", FourNodes, {2, 3})}
Prompt   == {Fleet(Each, "Liar", FourNodes, {})}
Booting  == {Fleet(Of({}), "Honest", {1, 2}, {})}
All      == Rogues \cup Prompt \cup Booting
=============================================================================
