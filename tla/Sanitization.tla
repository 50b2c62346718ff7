---------------------------- MODULE Sanitization ----------------------------
(***************************************************************************)
(* What `dc' promises of one device, whoever runs it and whatever stops it: *)
(* it is overwritten pass by pass, and a pass reaches the media only behind *)
(* the attested passes before it; a pass is attested when the whole device  *)
(* durably holds it; the device is judged once, behind its last pass, and   *)
(* is not touched afterwards; and every certificate repeats that judgement. *)
(***************************************************************************)
EXTENDS Integers

CONSTANTS
  NumPasses,  \* passes of the plan
  Windows,    \* the windows of the device
  Samples     \* those a judgement answers for

Passes   == 0 .. NumPasses - 1
LastPass == NumPasses - 1

VARIABLES
  erased,     \* the windows that durably hold a pass, or one after it
  matching,   \* the windows that durably read as the last pass
  attested,   \* the passes whose end is on record
  verdicts,   \* the judgements on record
  certs,      \* the certificates handed out
  lossy,      \* the device has dropped a write it acknowledged
  doubtful    \* the run was taken up again and has seen an outage

device == <<erased, matching>>
faults == <<lossy, doubtful>>
vars   == <<device, attested, verdicts, certs, faults>>

Finding == [checked : SUBSET Windows, mismatches : SUBSET Windows]

Init ==
  /\ erased = [p \in Passes |-> {}] /\ matching = {}
  /\ attested = {} /\ verdicts = {} /\ certs = {}
  /\ lossy = FALSE /\ doubtful = FALSE

Behind(p) == \A q \in Passes : q < p => q \in attested

(* Windows take on a pass for good, in the order of the passes and before   *)
(* the judgement; what has gone wrong stays so.                             *)
Overwrite ==
  /\ \A p \in Passes :
       /\ erased[p] \subseteq erased'[p] /\ erased'[p] \subseteq Windows
       /\ erased'[p] # erased[p] => verdicts = {} /\ Behind(p)
  /\ erased'[LastPass] \subseteq matching'
  /\ matching' # matching => verdicts = {}
  /\ lossy => lossy'
  /\ doubtful => doubtful'
  /\ UNCHANGED <<attested, verdicts, certs>>

Attest(p) ==
  /\ verdicts = {} /\ Behind(p)
  /\ ~lossy /\ ~doubtful => erased[p] = Windows
  /\ attested' = attested \cup {p}
  /\ UNCHANGED <<device, verdicts, certs, faults>>

Judge(v) ==
  /\ verdicts = {} /\ LastPass \in attested
  /\ ~lossy => Samples \ v.mismatches \subseteq matching
  /\ verdicts' = {v}
  /\ UNCHANGED <<device, attested, certs, faults>>

Certify(v) ==
  /\ certs' = certs \cup {v}
  /\ UNCHANGED <<device, attested, verdicts, faults>>

Next ==
  \/ Overwrite
  \/ \E p \in Passes : Attest(p)
  \/ \E v \in Finding : Judge(v)
  \/ \E v \in verdicts : Certify(v)

Spec == Init /\ [][Next]_vars

=============================================================================
