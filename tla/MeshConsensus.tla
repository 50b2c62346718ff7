--------------------------- MODULE MeshConsensus ---------------------------
(***************************************************************************)
(* The single-shot, rotating-speaker consensus of dc-mesh and the seal     *)
(* that follows it: Consensus (consensus.rs) as MeshNode::dispatch,        *)
(* consensus_clock and step_seal (mesh.rs) drive it, with the rogue        *)
(* ledger's isolations (rogue.rs) and the FROST session (threshold.rs).    *)
(*                                                                         *)
(* The segment loses, delays and reorders frames, so `frames' only grows   *)
(* and a member that received some frames of a kind may have received any  *)
(* subset of those sent.  The code keeps votes, accusations and seal       *)
(* shares in tables that it reads only against a quorum, and clears the    *)
(* vote tables on every new view; the tables are not state here: a         *)
(* threshold is reached when enough frames were sent, and the step that    *)
(* reaches it stands for the arrival of the frame that completes it.       *)
(*                                                                         *)
(* Byzantine members may have signed any frame; crashed members sign none. *)
(***************************************************************************)
EXTENDS Integers, FiniteSets

CONSTANTS
  Nodes,        \* the frozen membership, as its sorted share indices 1..n
  Byzantine,    \* members that may sign anything
  Crashed,      \* members that went dark after reporting their drives
  Bodies,       \* the report and transcript sets a block may commit to
  Forged,       \* the bodies and rogue sets a Byzantine speaker may sign together
  Evidence,     \* Evidence[n]: those member n may hold as proposals come and go
  Late,         \* members still challenging drives when the others are ready
  Digest,       \* Digest[v]: the hash of membership and view, as a number
  Threshold,    \* ThresholdParams::threshold of the group key
  MaxView       \* bound on the views explored

ASSUME NodesAssumption == IsFiniteSet(Nodes) /\ Nodes \subseteq Nat
ASSUME FaultsAssumption == /\ Byzantine \subseteq Nodes
                           /\ Crashed \subseteq Nodes
ASSUME EvidenceAssumption == /\ Evidence \in [Nodes -> SUBSET Bodies]
                             /\ Forged \subseteq [body : Bodies \cup {"empty"}, rogues : SUBSET Nodes]
ASSUME ViewAssumption == MaxView \in Nat /\ Digest \in [0 .. MaxView -> Nat]

Honest == Nodes \ (Byzantine \cup Crashed)
Views  == 0 .. MaxView

\* A block names the view it was built in; report_root covers the reports of
\* the members its speaker had not isolated, rogue_entries names the others.  An
\* empty one has a report_count and a spot_count of 0.
Blocks  == [view : Views, body : Bodies \cup {"empty"}, rogues : SUBSET Nodes]
NoBlock == [view |-> 0 - 1, body |-> "none", rogues |-> {}]

byzantine_tolerance(n) == (n - 1) \div 3
decision_quorum(n)     == 2 * byzantine_tolerance(n) + 1
QuorumOfOneHonest      == byzantine_tolerance(Cardinality(Nodes)) + 1
frozen_quorum          == decision_quorum(Cardinality(Nodes))

VARIABLES
  view, phase, proposal, seen_proposals,  \* Consensus, per member
  isolated,                               \* Consensus.isolated and the ledger
  decided,                                \* Consensus.decided
  electorate,                             \* history: the live set it was decided in
  state, last_proposed_view,              \* MeshNode
  seal_commit_sent, seal_share_sent, certificate,
  frames                                  \* every frame an honest member sent

consensusVars == <<view, phase, proposal, seen_proposals, isolated, decided,
                   electorate>>
sealVars      == <<seal_commit_sent, seal_share_sent, certificate>>
vars == <<consensusVars, state, last_proposed_view, sealVars, frames>>

-----------------------------------------------------------------------------
(* Frames *)

Proposal(n, b)      == [type |-> "proposal", from |-> n, block |-> b]
Vote(kind, n, b)    == [type |-> kind, from |-> n, block |-> b]
Accuse(n, who, why) == [type |-> "accuse", from |-> n, accused |-> who, kind |-> why]
SealCommit(n)       == [type |-> "seal_commit", from |-> n]
SealShare(n, s, m)  == [type |-> "seal_share", from |-> n, set |-> s, message |-> m]

\* A member may have received a frame if its signer sent it or may sign anything.
Signed(f) == f.from \in Byzantine \/ f \in frames

\* Every handler runs in a member that is up, on a frame of a sender it has not
\* isolated (drain_inbox drops the rest unread and never sees its own).
Hears(n, from) == /\ state[n] # "Failed"
                  /\ from # n
                  /\ from \notin isolated[n]

-----------------------------------------------------------------------------
(* Consensus: the live set, its quorum and the speaker of a view *)

live(n)   == Nodes \ isolated[n]
quorum(n) == decision_quorum(Cardinality(live(n)))

Nth(S, i) == CHOOSE m \in S : Cardinality({k \in S : k < m}) = i

speaker_of(n, v) ==
  IF live(n) = {} THEN n ELSE Nth(live(n), Digest[v] % Cardinality(live(n)))

\* enter_view clears the phase, the proposal, the digests seen and every vote.
enter_view(n, v) ==
  /\ view' = [view EXCEPT ![n] = v]
  /\ phase' = [phase EXCEPT ![n] = "AwaitProposal"]
  /\ proposal' = [proposal EXCEPT ![n] = NoBlock]
  /\ seen_proposals' = [seen_proposals EXCEPT ![n] = [m \in Nodes |-> NoBlock]]

\* Mutant: the votes of a view are counted whichever block they name.
VotersOfAnyBlock(n, kind, b) ==
  {n} \cup {m \in live(n) : \E c \in Blocks : c.view = b.view /\ Signed(Vote(kind, m, c))}

\* The voters a member may hold for a block: itself and everyone not isolated
\* whose vote was sent.
Voters(n, kind, b) ==
  {n} \cup {m \in live(n) : Signed(Vote(kind, m, b))}

-----------------------------------------------------------------------------
(* MsgType::Proposal *)

\* Two different digests from one sender while this view lasts: accuse it of
\* equivocation and drop the frame, before any validation.
ProposalEquivocates(n, from, b) ==
  /\ Hears(n, from) /\ Signed(Proposal(from, b))
  /\ seen_proposals[n][from] \notin {NoBlock, b}
  /\ Accuse(n, from, "equivocation") \notin frames
  /\ frames' = frames \cup {Accuse(n, from, "equivocation")}
  /\ UNCHANGED <<consensusVars, state, last_proposed_view, sealVars>>

\* The evidence gate: an empty block passes unread; any other must have the roots
\* of the evidence held and name every member isolated here.  It may name more.
PassesGate(n, b) ==
  b.body = "empty" \/ (b.body \in Evidence[n] /\ isolated[n] \subseteq b.rogues)

\* And may fail it: the evidence held is another, or the block is of other
\* isolations, whose reports its roots leave out.
FailsGate(n, b) ==
  b.body # "empty" /\ ((\E held \in Evidence[n] : held # b.body) \/ b.rogues # isolated[n])

\* The block fails the gate, or the member has decided: only the digest is kept.
ProposalDivergent(n, from, b) ==
  /\ Hears(n, from) /\ Signed(Proposal(from, b))
  /\ seen_proposals[n][from] = NoBlock
  /\ FailsGate(n, b) \/ decided[n] # NoBlock
  /\ seen_proposals' = [seen_proposals EXCEPT ![n][from] = b]
  /\ UNCHANGED <<view, phase, proposal, isolated, decided, electorate, state,
                 last_proposed_view, sealVars, frames>>

\* The block passes the gate: on_proposal.
ProposalValidated(n, from, b) ==
  /\ Hears(n, from) /\ Signed(Proposal(from, b))
  /\ seen_proposals[n][from] \in {NoBlock, b}
  /\ PassesGate(n, b) /\ decided[n] = NoBlock
  /\ LET ahead   == b.view > view[n]
         v       == IF ahead THEN b.view ELSE view[n]
         seen    == IF ahead THEN [m \in Nodes |-> NoBlock] ELSE seen_proposals[n]
         accepts == /\ speaker_of(n, v) = from
                    /\ b.view = v
                    /\ ahead \/ proposal[n] = NoBlock
     IN /\ ahead \/ accepts \/ seen[from] # b
        /\ view' = [view EXCEPT ![n] = v]
        /\ seen_proposals' = [seen_proposals EXCEPT ![n] = [seen EXCEPT ![from] = b]]
        /\ IF accepts
             THEN /\ proposal' = [proposal EXCEPT ![n] = b]
                  /\ phase' = [phase EXCEPT ![n] = "Prepared"]
                  /\ frames' = frames \cup {Vote("prepare", n, b)}
             ELSE /\ proposal' = [proposal EXCEPT ![n] = IF ahead THEN NoBlock ELSE @]
                  /\ phase' = [phase EXCEPT ![n] = IF ahead THEN "AwaitProposal" ELSE @]
                  /\ UNCHANGED frames
  /\ UNCHANGED <<isolated, decided, electorate, state, last_proposed_view, sealVars>>

-----------------------------------------------------------------------------
(* MsgType::Prepare and MsgType::Commit: Consensus::on_vote *)

\* A vote of a later view is adopted, by a member that has decided as well.
VoteFromLaterView(n, v) ==
  /\ v > view[n]
  /\ \/ \E from \in Byzantine : Hears(n, from)
     \/ \E f \in frames : /\ f.type \in {"prepare", "commit"}
                          /\ f.block.view = v
                          /\ Hears(n, f.from)
  /\ enter_view(n, v)
  /\ UNCHANGED <<isolated, decided, electorate, state, last_proposed_view, sealVars, frames>>

VoteArrives(n, kind, b) ==
  \E from \in Nodes : Hears(n, from) /\ Signed(Vote(kind, from, b))

\* Mutant: a prepare is counted whatever block it names.
PrepareOfAnyBlock(n) ==
  /\ decided[n] = NoBlock
  /\ VoteArrives(n, "prepare", proposal[n])
  /\ phase' = [phase EXCEPT ![n] = "Committing"]
  /\ frames' = frames \cup {Vote("commit", n, proposal[n])}
  /\ UNCHANGED <<view, proposal, seen_proposals, isolated, decided, electorate, state,
                 last_proposed_view, sealVars>>

\* The prepare that completes the quorum: record our own commit, broadcast it.
PrepareQuorum(n) ==
  LET b == proposal[n] IN
  /\ phase[n] = "Prepared" /\ decided[n] = NoBlock
  /\ VoteArrives(n, "prepare", b)
  /\ Cardinality(Voters(n, "prepare", b)) >= quorum(n)
  /\ phase' = [phase EXCEPT ![n] = "Committing"]
  /\ frames' = frames \cup {Vote("commit", n, b)}
  /\ UNCHANGED <<view, proposal, seen_proposals, isolated, decided, electorate, state,
                 last_proposed_view, sealVars>>

\* The commit that completes the quorum, arriving once we are committing.
CommitQuorum(n) ==
  LET b == proposal[n] IN
  /\ phase[n] = "Committing" /\ decided[n] = NoBlock
  /\ VoteArrives(n, "commit", b)
  /\ Cardinality(Voters(n, "commit", b)) >= quorum(n)
  /\ phase' = [phase EXCEPT ![n] = "Decided"]
  /\ decided' = [decided EXCEPT ![n] = b]
  /\ electorate' = [electorate EXCEPT ![n] = live(n)]
  /\ state' = [state EXCEPT ![n] = "Sealing"]
  /\ UNCHANGED <<view, proposal, seen_proposals, isolated, last_proposed_view,
                 sealVars, frames>>

-----------------------------------------------------------------------------
(* MsgType::Accuse and MsgType::Isolate *)

\* Distinct accusers of one kind, this member among them if it accused.
Accusers(who, why) == {m \in Nodes \ {who} : Signed(Accuse(m, who, why))}

\* The accusation that completes the quorum of the frozen membership: the ledger
\* entry, and apply_isolation, which restarts the view over the smaller live set.
\* An Isolate frame re-checks the same quorum against the same accusations.
try_isolate(n, who, why) ==
  /\ state[n] # "Failed"
  /\ who \notin isolated[n]
  /\ view[n] < MaxView
  /\ Cardinality(Accusers(who, why)) >= frozen_quorum
  /\ isolated' = [isolated EXCEPT ![n] = @ \cup {who}]
  /\ enter_view(n, view[n] + 1)
  /\ UNCHANGED <<decided, electorate, state, last_proposed_view, sealVars, frames>>

-----------------------------------------------------------------------------
(* One tick of an active member: step_active, consensus_clock and           *)
(* consensus_step_sealing.  `rotated' is Consensus::tick running out of     *)
(* view_timeout_ticks, `ready' is_ready turning true (the evidence is in).  *)

step_active(n, rotated, ready, body) ==
  /\ state[n] \in {"Executing", "Sealing"}
  /\ rotated => decided[n] = NoBlock /\ view[n] < MaxView
  /\ ready => state[n] = "Executing"
  /\ LET v       == IF rotated THEN view[n] + 1 ELSE view[n]
         held    == IF rotated THEN NoBlock ELSE proposal[n]
         stalled == speaker_of(n, view[n])
         accuses == rotated /\ ready /\ stalled \in live(n) \ {n}
         speaks  == /\ ready \/ state[n] = "Sealing"
                    /\ speaker_of(n, v) = n
                    /\ decided[n] = NoBlock /\ held = NoBlock
                    /\ last_proposed_view[n] # v
         b       == [view |-> v, body |-> body, rogues |-> isolated[n]]
         blank   == [m \in Nodes |-> NoBlock]
     IN /\ rotated \/ ready \/ speaks
        /\ view' = [view EXCEPT ![n] = v]
        /\ state' = [state EXCEPT ![n] = IF ready THEN "Sealing" ELSE @]
        /\ phase' = [phase EXCEPT ![n] = CASE speaks  -> "Prepared"
                                           [] rotated /\ ~speaks -> "AwaitProposal"
                                           [] OTHER   -> @]
        /\ proposal' = [proposal EXCEPT ![n] = IF speaks THEN b ELSE held]
        /\ seen_proposals' =
             [seen_proposals EXCEPT ![n] =
                LET seen == IF rotated THEN blank ELSE @
                IN IF speaks THEN [seen EXCEPT ![n] = b] ELSE seen]
        /\ last_proposed_view' = [last_proposed_view EXCEPT ![n] = IF speaks THEN v ELSE @]
        /\ frames' = frames
             \cup (IF accuses THEN {Accuse(n, stalled, "timeout")} ELSE {})
             \cup (IF speaks THEN {Proposal(n, b)} ELSE {})
  /\ UNCHANGED <<isolated, decided, electorate, sealVars>>

-----------------------------------------------------------------------------
(* step_seal, once decided *)

\* The lowest `Threshold' share indices among live members.
seal_set(n) == {m \in live(n) : Cardinality({k \in live(n) : k < m}) < Threshold}

\* The message a member signs names the block it holds and the view it is in;
\* a member whose view moved on after the decision holds none.
sealing_message(n) == IF proposal[n] = NoBlock THEN NoBlock ELSE proposal[n]

Sealing(n) == state[n] = "Sealing" /\ decided[n] # NoBlock

SealRoundOne(n) ==
  /\ Sealing(n)
  /\ ~seal_commit_sent[n] /\ n \in seal_set(n)
  /\ seal_commit_sent' = [seal_commit_sent EXCEPT ![n] = TRUE]
  /\ frames' = frames \cup {SealCommit(n)}
  /\ UNCHANGED <<consensusVars, state, last_proposed_view, seal_share_sent, certificate>>

\* The session is taken whether or not the coordinator accepts the set, so a
\* member answers round 2 at most once.
SealRoundTwo(n) ==
  /\ Sealing(n)
  /\ seal_commit_sent[n] /\ ~seal_share_sent[n] /\ n \in seal_set(n)
  /\ \A m \in seal_set(n) : Signed(SealCommit(m))
  /\ seal_share_sent' = [seal_share_sent EXCEPT ![n] = TRUE]
  /\ frames' = IF Cardinality(seal_set(n)) < Threshold THEN frames
               ELSE frames \cup {SealShare(n, seal_set(n), sealing_message(n))}
  /\ UNCHANGED <<consensusVars, state, last_proposed_view, seal_commit_sent, certificate>>

\* One share per signer, whatever it covers: the first that arrived.
HoldsShares(n) ==
  \A m \in seal_set(n) :
    m \in Byzantine \/ \E f \in frames : f.type = "seal_share" /\ f.from = m

\* Mutant: the shares are summed without verifying the signature.
SharesUnverified(n) == HoldsShares(n)

\* Summing shares made over another set or another message gives no signature.
SharesAgree(n) ==
  \A m \in seal_set(n) : Signed(SealShare(m, seal_set(n), sealing_message(n)))

\* assemble_certificate and the self-verification that ends it: the reports held
\* must have the roots of the block.
Verifies(n) ==
  /\ SharesAgree(n)
  /\ Cardinality(seal_set(n)) >= Threshold
  /\ proposal[n] # NoBlock
  /\ proposal[n].body \in Evidence[n]
  /\ Cardinality(Voters(n, "commit", decided[n])) >= frozen_quorum

Assemble(n) ==
  /\ Sealing(n)
  /\ HoldsShares(n) /\ seal_set(n) # {}
  /\ Verifies(n)
  /\ certificate' = [certificate EXCEPT ![n] = proposal[n]]
  /\ state' = [state EXCEPT ![n] = "Certified"]
  /\ UNCHANGED <<consensusVars, last_proposed_view, seal_commit_sent,
                 seal_share_sent, frames>>

\* A missing block panics, a certificate that does not verify is an error out of
\* step(): the member stops.  Shares of a Byzantine signer, a block that names
\* members whose drives are reported or nowhere accounted for, and a committer list
\* still short of the frozen quorum fail even when a later attempt would not.
AssembleFails(n) ==
  /\ Sealing(n)
  /\ HoldsShares(n) /\ seal_set(n) # {}
  /\ \/ ~Verifies(n)
     \/ seal_set(n) \cap Byzantine # {}
     \/ proposal[n].rogues # isolated[n]
     \/ quorum(n) < frozen_quorum
  /\ state' = [state EXCEPT ![n] = "Failed"]
  /\ UNCHANGED <<consensusVars, last_proposed_view, sealVars, frames>>

-----------------------------------------------------------------------------
Init ==
  /\ view = [n \in Nodes |-> 0]
  /\ phase = [n \in Nodes |-> "AwaitProposal"]
  /\ proposal = [n \in Nodes |-> NoBlock]
  /\ seen_proposals = [n \in Nodes |-> [m \in Nodes |-> NoBlock]]
  /\ isolated = [n \in Nodes |-> {}]
  /\ decided = [n \in Nodes |-> NoBlock]
  /\ electorate = [n \in Nodes |-> Nodes]
  /\ state = [n \in Nodes |-> IF n \in Late THEN "Executing" ELSE "Sealing"]
  /\ last_proposed_view = [n \in Nodes |-> 0 - 1]
  /\ seal_commit_sent = [n \in Nodes |-> FALSE]
  /\ seal_share_sent = [n \in Nodes |-> FALSE]
  /\ certificate = [n \in Nodes |-> NoBlock]
  /\ frames = {}

\* The blocks of proposals an honest member sent, and those a Byzantine one may
\* sign: any evidence or none, over the isolations n has ruled or others, in the
\* views it speaks for n (elsewhere a block is only a digest).
Offered(n, from) ==
  IF from \in Byzantine
    THEN {[view |-> v, body |-> x.body, rogues |-> x.rogues] :
            v \in {w \in Views : speaker_of(n, w) = from}, x \in Forged}
    ELSE {f.block : f \in {g \in frames : g.type = "proposal" /\ g.from = from}}

Receive(n) ==
  \/ \E from \in Nodes \ {n} : \E b \in Offered(n, from) :
       \/ ProposalEquivocates(n, from, b)
       \/ ProposalDivergent(n, from, b)
       \/ ProposalValidated(n, from, b)
  \/ \E v \in Views : VoteFromLaterView(n, v)
  \/ PrepareQuorum(n)
  \/ CommitQuorum(n)

Isolate(n) ==
  \E who \in Nodes, why \in {"equivocation", "timeout"} : try_isolate(n, who, why)

Tick(n) ==
  \E rotated, ready \in BOOLEAN, body \in Evidence[n] : step_active(n, rotated, ready, body)

Seal(n) == SealRoundOne(n) \/ SealRoundTwo(n) \/ Assemble(n) \/ AssembleFails(n)

Next == \E n \in Honest : \/ Receive(n)
                          \/ Isolate(n)
                          \/ Tick(n)
                          \/ Seal(n)

Spec == Init /\ [][Next]_vars

-----------------------------------------------------------------------------
(* Properties *)

Phases == {"AwaitProposal", "Prepared", "Committing", "Decided"}
Kinds  == {"equivocation", "timeout"}
Frames ==
       [type : {"proposal", "prepare", "commit"}, from : Honest, block : Blocks]
  \cup [type : {"accuse"}, from : Honest, accused : Nodes, kind : Kinds]
  \cup [type : {"seal_commit"}, from : Honest]
  \cup [type : {"seal_share"}, from : Honest, set : SUBSET Nodes,
        message : Blocks \cup {NoBlock}]

\* The types of the state of Consensus and MeshNode.
TypeOK ==
  /\ view \in [Nodes -> Views]
  /\ phase \in [Nodes -> Phases]
  /\ proposal \in [Nodes -> Blocks \cup {NoBlock}]
  /\ seen_proposals \in [Nodes -> [Nodes -> Blocks \cup {NoBlock}]]
  /\ isolated \in [Nodes -> SUBSET Nodes]
  /\ decided \in [Nodes -> Blocks \cup {NoBlock}]
  /\ electorate \in [Nodes -> SUBSET Nodes]
  /\ state \in [Nodes -> {"Executing", "Sealing", "Certified", "Failed"}]
  /\ last_proposed_view \in [Nodes -> Views \cup {0 - 1}]
  /\ seal_commit_sent \in [Nodes -> BOOLEAN]
  /\ seal_share_sent \in [Nodes -> BOOLEAN]
  /\ certificate \in [Nodes -> Blocks \cup {NoBlock}]
  /\ frames \subseteq Frames

\* Members that decide in one view before any isolation decide one block, even
\* when the speaker signs two (the safety sketch of consensus.rs).
AgreementInView ==
  \A a, b \in Honest :
    /\ decided[a] # NoBlock /\ decided[b] # NoBlock
    /\ decided[a].view = decided[b].view
    /\ electorate[a] = Nodes /\ electorate[b] = Nodes
    => decided[a] = decided[b]

\* Whose commits n may have counted for its decision, and how many it took: a
\* quorum of its live set, in any case one that arrived besides its own.
Electorate(n) == {n} \cup electorate[n]

CommitsNeeded(n) ==
  LET q == decision_quorum(Cardinality(electorate[n])) IN IF q < 2 THEN 2 ELSE q

\* The commits of a and b cannot all lie outside the honest members they share.
QuorumsOverlap(a, b) ==
  CommitsNeeded(a) + CommitsNeeded(b) >
    Cardinality(Electorate(a) \cup Electorate(b))
      + Cardinality(Byzantine \cap Electorate(a) \cap Electorate(b))

\* The same across isolations that members rule at different times: a smaller
\* live set has a smaller quorum and another speaker, and still no member decides
\* against another in one view, as long as the two quorums have to share an honest
\* member (apply_isolation restarting the view).  Of four members with one faulty
\* they do unless an honest one was cut off.
AgreementAcrossLiveSets ==
  \A a, b \in Honest :
    /\ decided[a] # NoBlock /\ decided[b] # NoBlock
    /\ decided[a].view = decided[b].view
    /\ QuorumsOverlap(a, b)
    => decided[a] = decided[b]

\* No two members assemble certificates of different blocks, whatever views they
\* decided in: each member of the seal set answers round 2 once, over one block
\* (seal_share_sent and the session that round 2 consumes).
CertificateAgreement ==
  \A a, b \in Honest :
    certificate[a] # NoBlock /\ certificate[b] # NoBlock => certificate[a] = certificate[b]

\* A member is isolated only on the word of more honest members than the fault
\* bound: faulty members alone can convict nobody (try_isolate counts distinct
\* accusers against the quorum of the frozen membership).
ConvictedByHonest ==
  \A n \in Honest : \A who \in isolated[n] :
    \E why \in Kinds :
      Cardinality({m \in Honest : Accuse(m, who, why) \in frames})
        > byzantine_tolerance(Cardinality(Nodes))

\* A live set never shrinks under votes already cast: the view restarts with it.
QuorumChangeRestartsView ==
  [][\A n \in Nodes : isolated'[n] # isolated[n] => view'[n] > view[n]]_vars

\* What the documentation promises and the code does not keep.

\* "safety (no two honest nodes decide different blocks)", consensus.rs:32.
Agreement ==
  \A a, b \in Honest :
    decided[a] # NoBlock /\ decided[b] # NoBlock => decided[a] = decided[b]
=============================================================================
