---------------------------- MODULE MeshWitness ----------------------------
(***************************************************************************)
(* What a dc-mesh member does before it votes: discovery and the frozen    *)
(* membership (discovery.rs), drive reports and spot proofs (gossip.rs),   *)
(* witness deadlines, accusations and readiness (mesh.rs, rogue.rs).       *)
(* MeshConsensus starts where a member becomes ready here.                 *)
(*                                                                         *)
(* The segment delays and reorders frames without bound, so `frames' only  *)
(* grows, a deadline counted in a member's own ticks may pass before any   *)
(* answer arrives, and transcripts and accusations, read only as "some" or *)
(* "enough", are not tabled per member.  A challenge stands for the spot   *)
(* challenges a witness issues for one report.                             *)
(***************************************************************************)
EXTENDS Integers, FiniteSets

CONSTANTS
  Nodes,       \* the members, by their share index
  Expected,    \* expected_nodes, or 0 for the silence window
  MinCluster,  \* MIN_BYZ_CLUSTER
  Serials,     \* serial numbers of drives
  Fleets       \* the fleets a run may start with: the drives each node sees, how it
               \* behaves, the members whose HELLOs have reached each other and
               \* those a deadline may pass for before an answer arrives

ASSUME NodesAssumption == IsFiniteSet(Nodes) /\ Nodes \subseteq Nat
ASSUME DiscoveryAssumption == Expected \in Nat /\ MinCluster \in Nat
ASSUME FleetsAssumption ==
  /\ IsFiniteSet(Serials)
  /\ Fleets \subseteq [drives   : [Nodes -> SUBSET Serials],
                      behavior : [Nodes -> {"Honest", "Liar", "Silent"}],
                      met      : SUBSET Nodes,
                      hasty    : SUBSET Nodes]

Nobody == 0 - 1

byzantine_tolerance(n) == (n - 1) \div 3
decision_quorum(n)     == 2 * byzantine_tolerance(n) + 1

VARIABLES
  fleet,                     \* the fleet, fixed when the run starts
  hello,                     \* nodes that have broadcast a HELLO
  peers, frozen, state,      \* Discovery and MeshNode
  reports_sent,
  owners,                    \* GossipStore: who reported a serial first, per member
  pending,                   \* the serials a member awaits a proof for
  isolated,                  \* the rogue ledger
  frames                     \* reports, challenges, proofs, transcripts, accusations

discoveryVars == <<hello, peers, frozen>>
witnessVars   == <<reports_sent, owners, pending>>
vars == <<fleet, discoveryVars, state, witnessVars, isolated, frames>>

drives   == fleet.drives
behavior == fleet.behavior

Honest == {n \in Nodes : behavior[n] = "Honest"}

Report(n, s)       == [type |-> "report", from |-> n, serial |-> s]
Challenge(n, m, s) == [type |-> "challenge", from |-> n, to |-> m, serial |-> s]
Proof(m, n, s, ok) == [type |-> "proof", from |-> m, to |-> n, serial |-> s, pattern |-> ok]
Transcript(n, s)   == [type |-> "transcript", from |-> n, serial |-> s]
Accuse(n, m, why)  == [type |-> "accuse", from |-> n, accused |-> m, kind |-> why]

\* Without the check for its own frames, broadcast back to it.
HearsItself(n, from) == from \notin isolated[n]

\* drain_inbox drops what comes from an isolated member or from itself.
Hears(n, from) == from # n /\ from \notin isolated[n]

-----------------------------------------------------------------------------
(* Discovery *)

\* Enough members for an epoch: the operator's fleet size, or the smallest
\* cluster once no new peer appeared for silence_ticks.
Enough(count) == count >= Expected /\ count >= MinCluster

\* One discovery round: a HELLO until the membership is frozen; with no fleet
\* size to wait for, the round may also be the one that ends the silence window.
step_discovering(n) ==
  /\ state[n] = "Discovering"
  /\ IF frozen[n] # {}
       THEN /\ state' = [state EXCEPT ![n] = "Executing"]
            /\ UNCHANGED discoveryVars
       ELSE /\ hello' = hello \cup {n}
            /\ UNCHANGED peers
            /\ \/ UNCHANGED <<frozen, state>>
               \/ /\ Expected = 0
                  /\ Enough(Cardinality(peers[n]) + 1)
                  /\ frozen' = [frozen EXCEPT ![n] = peers[n] \cup {n}]
                  /\ state' = [state EXCEPT ![n] = "Executing"]
  /\ UNCHANGED <<fleet, witnessVars, isolated, frames>>

\* A HELLO of an unknown peer; the one that completes the fleet freezes the
\* epoch, a later one is latched.  Neither is answered: the HELLO_ACK needs a
\* fresh peer and a member past Discovering, and a frozen member reports none.
ingest(n, m) ==
  /\ m \in hello /\ Hears(n, m) /\ m \notin peers[n]
  /\ peers' = [peers EXCEPT ![n] = @ \cup {m}]
  /\ frozen' = IF /\ frozen[n] = {} /\ Expected # 0
                  /\ Enough(Cardinality(peers'[n]) + 1)
               THEN [frozen EXCEPT ![n] = peers'[n] \cup {n}]
               ELSE frozen
  /\ UNCHANGED <<fleet, hello, state, witnessVars, isolated, frames>>

-----------------------------------------------------------------------------
(* Wiping and reporting *)

\* The tick that finds every drive wiped, or a liar's first: the member ingests
\* its own reports and broadcasts them.  A silent member goes dark.
report_drives(n) ==
  /\ state[n] = "Executing" /\ ~reports_sent[n] /\ behavior[n] # "Silent"
  /\ reports_sent' = [reports_sent EXCEPT ![n] = TRUE]
  /\ owners' = [owners EXCEPT ![n] =
       [s \in Serials |-> IF s \in drives[n] /\ @[s] = Nobody THEN n ELSE @[s]]]
  /\ frames' = frames \cup {Report(n, s) : s \in drives[n]}
  /\ UNCHANGED <<fleet, discoveryVars, state, pending, isolated>>

\* A first report is stored and challenged; the serial of another member's
\* report is a duplicate claim, and its reporter is accused.
on_drive_report(n, m, s) ==
  /\ Hears(n, m) /\ Report(m, s) \in frames
  /\ \/ /\ owners[n][s] = Nobody
        /\ owners' = [owners EXCEPT ![n][s] = m]
        /\ pending' = [pending EXCEPT ![n] = @ \cup {s}]
        /\ frames' = frames \cup {Challenge(n, m, s)}
     \/ /\ owners[n][s] \notin {Nobody, m}
        /\ Accuse(n, m, "duplicate_serial") \notin frames
        /\ frames' = frames \cup {Accuse(n, m, "duplicate_serial")}
        /\ UNCHANGED <<owners, pending>>
  /\ UNCHANGED <<fleet, discoveryVars, state, reports_sent, isolated>>

-----------------------------------------------------------------------------
(* Spot proofs *)

\* The wiper answers from its media; a liar's bytes are not the pattern.
answer_challenge(m, n, s) ==
  /\ Hears(m, n) /\ Challenge(n, m, s) \in frames
  /\ behavior[m] # "Silent" /\ s \in drives[m]
  /\ frames' = frames \cup {Proof(m, n, s, behavior[m] # "Liar")}
  /\ UNCHANGED <<fleet, discoveryVars, state, witnessVars, isolated>>

\* SpotTranscript::verify against the pattern the report declares.
Passes(proof) == proof.pattern

\* The challenge is over with the first proof that names its nonce, whoever sent it.
handle_proof(n, m, s) ==
  \E proof \in frames :
    /\ proof.type = "proof" /\ proof.from = m /\ proof.to = n /\ proof.serial = s
    /\ Hears(n, m) /\ s \in pending[n]
    /\ pending' = [pending EXCEPT ![n] = @ \ {s}]
    /\ frames' = frames \cup
         (CASE owners[n][s] # m -> {}
            [] owners[n][s] = m /\ Passes(proof) -> {Transcript(n, s)}
            [] OTHER -> {Accuse(n, m, "failed_spot_proof")})
    /\ UNCHANGED <<fleet, discoveryVars, state, reports_sent, owners, isolated>>

-----------------------------------------------------------------------------
(* Deadlines and the rogue ledger *)

\* enforce_deadlines, for a challenge nobody answered in time ...
challenge_deadline(n, s) ==
  /\ n \in fleet.hasty /\ state[n] = "Executing" /\ s \in pending[n]
  /\ pending' = [pending EXCEPT ![n] = @ \ {s}]
  /\ frames' = IF owners[n][s] \in isolated[n] THEN frames
               ELSE frames \cup {Accuse(n, owners[n][s], "timeout")}
  /\ UNCHANGED <<fleet, discoveryVars, state, reports_sent, owners, isolated>>

\* ... and for a member that advertised drives and never reported one.
report_deadline(n, m) ==
  /\ n \in fleet.hasty /\ state[n] = "Executing" /\ m \in frozen[n] \ {n} /\ m \notin isolated[n]
  /\ drives[m] # {} /\ \A s \in Serials : owners[n][s] # m
  /\ Accuse(n, m, "timeout") \notin frames
  /\ frames' = frames \cup {Accuse(n, m, "timeout")}
  /\ UNCHANGED <<fleet, discoveryVars, state, witnessVars, isolated>>

\* Mutant: everybody in the epoch has to accuse, the accused as well.
EverybodyAccuses(n) == IF frozen[n] = {} THEN 3 ELSE Cardinality(frozen[n])

\* Until the epoch is frozen the quorum falls back to 3.
frozen_quorum(n) ==
  IF frozen[n] = {} THEN 3 ELSE decision_quorum(Cardinality(frozen[n]))

Accusers(who, why) == {m \in Nodes \ {who} : Accuse(m, who, why) \in frames}

\* The accusation of one kind that completes the quorum, and drop_pending_for.
maybe_isolate(n, who, why) ==
  /\ who \notin isolated[n]
  /\ Cardinality(Accusers(who, why)) >= frozen_quorum(n)
  /\ isolated' = [isolated EXCEPT ![n] = @ \cup {who}]
  /\ pending' = [pending EXCEPT ![n] = {s \in @ : owners[n][s] # who}]
  /\ UNCHANGED <<fleet, discoveryVars, state, reports_sent, owners, frames>>

-----------------------------------------------------------------------------
(* Readiness *)

Advertised(S) == Cardinality({ms \in S \X Serials : ms[2] \in drives[ms[1]]})

\* The drives the epoch still owes: a member finds no peer entry for itself, so
\* its own drives count even after its own isolation.
ExpectedDrives(n) == Advertised(frozen[n]) - Advertised((frozen[n] \cap isolated[n]) \ {n})

\* Those reported at all, by members cut off as well.
CertifiableAny(n) == {s \in Serials : owners[n][s] # Nobody}

Certifiable(n) == {s \in Serials : owners[n][s] \notin isolated[n] \cup {Nobody}}

Witnessed(n, s) == \E w \in Nodes \ {owners[n][s]} : Transcript(w, s) \in frames

\* Mutant: the reports of members cut off count towards the drives still owed.
ReadyCountsConvicted(n) ==
  /\ reports_sent[n]
  /\ Cardinality(CertifiableAny(n)) >= ExpectedDrives(n)
  /\ \A s \in Certifiable(n) : Witnessed(n, s)
  /\ pending[n] = {}

is_ready(n) ==
  /\ reports_sent[n]
  /\ Cardinality(Certifiable(n)) >= ExpectedDrives(n)
  /\ \A s \in Certifiable(n) : Witnessed(n, s)
  /\ pending[n] = {}

become_ready(n) ==
  /\ state[n] = "Executing" /\ frozen[n] # {} /\ is_ready(n)
  /\ state' = [state EXCEPT ![n] = "Sealing"]
  /\ UNCHANGED <<fleet, discoveryVars, witnessVars, isolated, frames>>

-----------------------------------------------------------------------------
\* Members of `met' have heard each other's HELLOs; the others just boot.
Init ==
  /\ fleet \in Fleets
  /\ hello = fleet.met
  /\ peers = [n \in Nodes |-> IF n \in hello THEN hello \ {n} ELSE {}]
  /\ frozen = [n \in Nodes |->
       IF n \in hello /\ Expected # 0 /\ Enough(Cardinality(hello)) THEN hello ELSE {}]
  /\ state = [n \in Nodes |-> "Discovering"]
  /\ reports_sent = [n \in Nodes |-> FALSE]
  /\ owners = [n \in Nodes |-> [s \in Serials |-> Nobody]]
  /\ pending = [n \in Nodes |-> {}]
  /\ isolated = [n \in Nodes |-> {}]
  /\ frames = {}

Discover(n) == step_discovering(n) \/ \E m \in Nodes : ingest(n, m)

Witness(n) ==
  \/ report_drives(n)
  \/ \E m \in Nodes, s \in Serials : \/ on_drive_report(n, m, s)
                                     \/ answer_challenge(n, m, s)
                                     \/ handle_proof(n, m, s)

Deadline(n) ==
  \/ \E s \in Serials : challenge_deadline(n, s)
  \/ \E m \in Nodes : report_deadline(n, m)

Convict(n) ==
  \E who \in Nodes, why \in {"duplicate_serial", "failed_spot_proof", "timeout"} :
    maybe_isolate(n, who, why)

Progress == \E n \in Nodes : Discover(n) \/ Witness(n) \/ Convict(n) \/ become_ready(n)
Next     == Progress \/ \E n \in Nodes : Deadline(n)

Spec == Init /\ [][Next]_vars

\* Members keep ticking and every frame between them arrives: no step of theirs
\* is taken back, so as long as one is possible another one follows.
Fairness == WF_vars(Progress)
LiveSpec == Spec /\ Fairness

-----------------------------------------------------------------------------
(* Properties *)

Kinds  == {"duplicate_serial", "failed_spot_proof", "timeout"}
Frames ==
       [type : {"report", "transcript"}, from : Nodes, serial : Serials]
  \cup [type : {"challenge"}, from : Nodes, to : Nodes, serial : Serials]
  \cup [type : {"proof"}, from : Nodes, to : Nodes, serial : Serials, pattern : BOOLEAN]
  \cup [type : {"accuse"}, from : Nodes, accused : Nodes, kind : Kinds]

\* The types of the state of Discovery, GossipStore and MeshNode; no member takes
\* itself for a peer.
TypeOK ==
  /\ fleet \in Fleets
  /\ hello \subseteq Nodes
  /\ peers \in [Nodes -> SUBSET Nodes] /\ \A n \in Nodes : n \notin peers[n]
  /\ frozen \in [Nodes -> SUBSET Nodes]
  /\ state \in [Nodes -> {"Discovering", "Executing", "Sealing"}]
  /\ reports_sent \in [Nodes -> BOOLEAN]
  /\ owners \in [Nodes -> [Serials -> Nodes \cup {Nobody}]]
  /\ pending \in [Nodes -> SUBSET Serials]
  /\ isolated \in [Nodes -> SUBSET Nodes]
  /\ frames \subseteq Frames

\* A member that is ready counts no drive that nobody wiped: every report it did
\* not cut off was checked against the media by some witness (is_ready).
ReadyDrivesWiped ==
  \A n \in Nodes : state[n] = "Sealing" =>
    \A s \in Certifiable(n) : \E m \in Honest : s \in drives[m] /\ reports_sent[m]

\* A member that is ready heard from every member of the epoch that has drives
\* and that it has not cut off, though readiness only compares two counts.
ReadyCoversMembers ==
  \A n \in Nodes : state[n] = "Sealing" =>
    \A m \in frozen[n] \ isolated[n] : \A s \in drives[m] : owners[n][s] # Nobody

\* The members of one epoch froze the same membership (a declared fleet size).
MembershipAgrees ==
  \A n, m \in Nodes : frozen[n] # {} /\ frozen[m] # {} => frozen[n] = frozen[m]

\* What readiness stands for: the same epoch everywhere, each of its drives
\* accounted for, and none of them on its reporter's word alone.
ReadyIsWitnessed == ReadyDrivesWiped /\ ReadyCoversMembers /\ MembershipAgrees

\* No member that answers from wiped media is ever accused of a failed proof,
\* whatever is lost or late.
FailedProofsAreReal ==
  \A n, m \in Nodes :
    Accuse(n, m, "failed_spot_proof") \in frames => behavior[m] = "Liar"

\* The verdicts of the spot proofs are true both ways: what is ready has been
\* witnessed, and who is accused of a failed proof had one.
VerdictsAreTrue == ReadyIsWitnessed /\ FailedProofsAreReal

\* Every honest member becomes ready when no deadline passes early and no serial
\* is claimed twice: a liar is cut off by everybody, and nobody waits for it.
EventuallyReady ==
  (/\ fleet.hasty = {} /\ hello = Nodes
   /\ \A m, k \in Nodes : behavior[m] # "Silent" /\ (m # k => drives[m] \cap drives[k] = {}))
  ~> (\A n \in Honest : state[n] = "Sealing")
=============================================================================
