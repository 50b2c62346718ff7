------------------------------ MODULE MCWipeRun ------------------------------
(* Small instances of WipeRun for TLC. *)
EXTENDS WipeRun, TLC

(* Two passes with different patterns; one pass. *)
TwoPatterns == (0 :> "random" @@ 1 :> "zero")
OnePattern  == (0 :> "zero")

Events(resume, kill, power, drop, io, guard, signal, thermal) ==
  [f \in EventKind |->
     CASE f = "resume" -> resume [] f = "kill" -> kill [] f = "power" -> power
       [] f = "drop" -> drop [] f = "io" -> io [] f = "guard" -> guard
       [] f = "signal" -> signal
       [] f = "thermal" -> thermal]

Outage     == Events(2, 1, 1, 1, 0, 0, 1, 1)
Retried    == Events(5, 0, 1, 0, 2, 1, 1, 0)
OutageOnly == Events(1, 0, 1, 0, 0, 0, 0, 0)

==============================================================================
