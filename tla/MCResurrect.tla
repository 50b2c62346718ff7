----------------------------- MODULE MCResurrect -----------------------------
(* Two dies of two blocks of four pages, sampled pages 0 and 2. *)
EXTENDS Resurrect, TLC

Good      == [marked |-> FALSE, refuses |-> 0, sticky |-> {}, dirty |-> Pages]
Marked    == [Good EXCEPT !.marked = TRUE]
Weak      == [Good EXCEPT !.refuses = 2]
Refuses   == [Good EXCEPT !.refuses = Stuck]
Keeps(p)  == [Good EXCEPT !.sticky = {p}]

Board(scenario, odd, room, a, b, c, d) ==
  [scenario |-> scenario, odd |-> odd, room |-> room,
   blocks |-> (<<0, 0>> :> a) @@ (<<0, 1>> :> b) @@ (<<1, 0>> :> c) @@ (<<1, 1>> :> d)]

OnTheBench ==
  UNION {{Board(s, {}, 5, Weak, Marked, Refuses, Keeps(1)),
          Board(s, {1}, 5, Keeps(2), Good, Good, Good),
          Board(s, {}, 4, Good, Good, Good, Good)} : s \in DOMAIN Alive}
AllModes == {"Off", "Sampled", "Full"}
=============================================================================
