------------------------ MODULE MeshConsensusProofs ------------------------
(* What MeshConsensus guarantees for every membership, fault set, view hash *)
(* and bound: types, the view restart that comes with an isolation, and,    *)
(* from quorum intersection, agreement within a view, convictions and       *)
(* certificates.                                                            *)
EXTENDS MeshConsensus, FiniteSetTheorems, TLAPS

N == Cardinality(Nodes)
F == byzantine_tolerance(N)

-----------------------------------------------------------------------------
(* The inductive invariant *)

\* What a member holds belongs to the view it is in, whichever isolations it
\* names, and a committing member has sent its commit (enter_view, EnteredCommit).
MemberFits ==
  \A n \in Nodes :
    /\ proposal[n] # NoBlock => proposal[n].view = view[n]
    /\ phase[n] \in {"Prepared", "Committing"} => proposal[n] # NoBlock
    /\ phase[n] = "Committing" => Vote("commit", n, proposal[n]) \in frames

\* A commit names a view its sender reached; while the sender stays in that
\* view the block is still the one it holds.
CommitsFit ==
  \A f \in frames : f.type = "commit" =>
    /\ f.block.view <= view[f.from]
    /\ f.block.view = view[f.from] => proposal[f.from] = f.block

OneCommit ==
  \A f, g \in frames :
    f.type = "commit" /\ g.type = "commit" /\ f.from = g.from
      /\ f.block.view = g.block.view => f.block = g.block

OneShare ==
  /\ \A f \in frames : f.type = "seal_share" => seal_share_sent[f.from]
  /\ \A f, g \in frames :
       f.type = "seal_share" /\ g.type = "seal_share" /\ f.from = g.from => f = g

\* The frames behind a decision, an isolation and a certificate stay sent.
DecidedBacked ==
  \A n \in Honest : decided[n] # NoBlock =>
    \E Q \in SUBSET Electorate(n) :
      /\ Cardinality(Q) >= CommitsNeeded(n)
      /\ \A m \in Q : Signed(Vote("commit", m, decided[n]))

IsolatedBacked ==
  \A n \in Honest : \A who \in isolated[n] : \E why \in Kinds :
    \E Q \in SUBSET Nodes :
      /\ Cardinality(Q) >= frozen_quorum
      /\ \A m \in Q : Signed(Accuse(m, who, why))

CertificateBacked ==
  \A n \in Honest : certificate[n] # NoBlock =>
    \E Q \in SUBSET Nodes :
      /\ Cardinality(Q) >= Threshold
      /\ \A m \in Q : Signed(SealShare(m, Q, certificate[n]))

Backed == DecidedBacked /\ IsolatedBacked /\ CertificateBacked

IInv == TypeOK /\ MemberFits /\ CommitsFit /\ OneCommit /\ OneShare /\ Backed

-----------------------------------------------------------------------------
(* Types *)

LEMMA BlockIsReal == NoBlock \notin Blocks
  BY ViewAssumption DEF NoBlock, Blocks, Views

\* A proposal on offer carries a block.
LEMMA OfferedAreBlocks ==
  ASSUME TypeOK, NEW n \in Nodes, NEW from \in Nodes, NEW b \in Offered(n, from)
  PROVE  b \in Blocks
<1>1. CASE from \in Byzantine
  BY <1>1, EvidenceAssumption DEF Offered, Blocks
<1>2. CASE from \notin Byzantine
  <2>1. PICK f \in frames : f.type = "proposal" /\ f.block = b
    BY <1>2 DEF Offered
  <2>2. f \in Frames
    BY DEF TypeOK
  <2> QED
    BY <2>1, <2>2 DEF Frames
<1> QED
  BY <1>1, <1>2

LEMMA HonestAreNodes == Honest \subseteq Nodes
  BY DEF Honest

LEMMA TypeStep ==
  ASSUME TypeOK, MemberFits, [Next]_vars
  PROVE  TypeOK'
<1>1. CASE UNCHANGED vars
  BY <1>1 DEF vars, consensusVars, sealVars, TypeOK
<1>2. ASSUME NEW n \in Honest, NEW from \in Nodes \ {n}, NEW b \in Offered(n, from),
             ProposalEquivocates(n, from, b)
      PROVE  TypeOK'
  BY <1>2 DEF ProposalEquivocates, consensusVars, sealVars, TypeOK, Frames, Accuse, Kinds
<1>3. ASSUME NEW n \in Honest, NEW from \in Nodes \ {n}, NEW b \in Offered(n, from),
             ProposalDivergent(n, from, b)
      PROVE  TypeOK'
  <2>1. b \in Blocks
    BY OfferedAreBlocks, HonestAreNodes
  <2> QED
    BY <1>3, <2>1, HonestAreNodes DEF ProposalDivergent, sealVars, TypeOK
<1>4. ASSUME NEW n \in Honest, NEW from \in Nodes \ {n}, NEW b \in Offered(n, from),
             ProposalValidated(n, from, b)
      PROVE  TypeOK'
  <2>1. b \in Blocks /\ b.view \in Views
    BY OfferedAreBlocks, HonestAreNodes DEF Blocks
  <2>2. frames' \subseteq frames \cup {Vote("prepare", n, b)}
    BY <1>4 DEF ProposalValidated
  <2>3. frames' \subseteq Frames
    BY <2>1, <2>2 DEF TypeOK, Frames, Vote
  <2> QED
    BY <1>4, <2>1, <2>3, HonestAreNodes DEF ProposalValidated, sealVars, TypeOK, Phases
<1>5. ASSUME NEW n \in Honest, NEW v \in Views, VoteFromLaterView(n, v)
      PROVE  TypeOK'
  BY <1>5, HonestAreNodes DEF VoteFromLaterView, enter_view, sealVars, TypeOK, Phases
<1>6. ASSUME NEW n \in Honest, PrepareQuorum(n)
      PROVE  TypeOK'
  <2>1. proposal[n] \in Blocks
    BY <1>6, HonestAreNodes DEF PrepareQuorum, MemberFits, TypeOK
  <2>2. frames' \subseteq Frames
    BY <1>6, <2>1 DEF PrepareQuorum, TypeOK, Frames, Vote
  <2> QED
    BY <1>6, <2>2, HonestAreNodes DEF PrepareQuorum, sealVars, TypeOK, Phases
<1>7. ASSUME NEW n \in Honest, CommitQuorum(n)
      PROVE  TypeOK'
  BY <1>7, HonestAreNodes DEF CommitQuorum, live, sealVars, TypeOK, Phases
<1>8. ASSUME NEW n \in Honest, NEW who \in Nodes, NEW why \in Kinds, try_isolate(n, who, why)
      PROVE  TypeOK'
  <2>1. view[n] + 1 \in Views
    BY <1>8, ViewAssumption, HonestAreNodes DEF try_isolate, TypeOK, Views
  <2>2. isolated[n] \cup {who} \in SUBSET Nodes
    BY HonestAreNodes DEF TypeOK
  <2> QED
    BY <1>8, <2>1, <2>2, HonestAreNodes DEF try_isolate, enter_view, sealVars, TypeOK, Phases
<1>9. ASSUME NEW n \in Honest, NEW rotated \in BOOLEAN, NEW ready \in BOOLEAN,
             NEW body \in Evidence[n], step_active(n, rotated, ready, body)
      PROVE  TypeOK'
  <2> DEFINE v == IF rotated THEN view[n] + 1 ELSE view[n]
             b == [view |-> v, body |-> body, rogues |-> isolated[n]]
  <2>1. v \in Views
    BY <1>9, ViewAssumption, HonestAreNodes DEF step_active, TypeOK, Views
  <2>2. b \in Blocks
    BY <2>1, HonestAreNodes, EvidenceAssumption DEF TypeOK, Blocks
  <2>3. frames' \subseteq Frames
    <3> DEFINE accused == speaker_of(n, view[n])
    <3>1. frames' \subseteq frames \cup {Proposal(n, b)}
            \cup {Accuse(n, m, "timeout") : m \in Nodes}
      BY <1>9 DEF step_active, live
    <3>2. Proposal(n, b) \in Frames
      BY <2>2 DEF Frames, Proposal
    <3>3. \A m \in Nodes : Accuse(n, m, "timeout") \in Frames
      BY DEF Frames, Accuse, Kinds
    <3> QED
      BY <3>1, <3>2, <3>3 DEF TypeOK
  <2>4. phase' \in [Nodes -> Phases] /\ view' \in [Nodes -> Views]
    BY <1>9, <2>1, HonestAreNodes DEF step_active, TypeOK, Phases
  <2>5. /\ proposal' \in [Nodes -> Blocks \cup {NoBlock}]
        /\ seen_proposals' \in [Nodes -> [Nodes -> Blocks \cup {NoBlock}]]
    BY <1>9, <2>2, HonestAreNodes DEF step_active, TypeOK
  <2> QED
    BY <1>9, <2>1, <2>3, <2>4, <2>5, HonestAreNodes DEF step_active, sealVars, TypeOK
<1>10. ASSUME NEW n \in Honest, SealRoundOne(n)
       PROVE  TypeOK'
  BY <1>10, HonestAreNodes DEF SealRoundOne, consensusVars, TypeOK, Frames, SealCommit
<1>11. ASSUME NEW n \in Honest, SealRoundTwo(n)
       PROVE  TypeOK'
  <2>1. seal_set(n) \in SUBSET Nodes
    BY DEF seal_set, live
  <2>2. sealing_message(n) \in Blocks \cup {NoBlock}
    BY HonestAreNodes DEF sealing_message, TypeOK
  <2>3. SealShare(n, seal_set(n), sealing_message(n)) \in Frames
    BY <2>1, <2>2 DEF SealShare, Frames
  <2> QED
    BY <1>11, <2>3, HonestAreNodes DEF SealRoundTwo, consensusVars, TypeOK
<1>12. ASSUME NEW n \in Honest, Assemble(n)
       PROVE  TypeOK'
  BY <1>12, HonestAreNodes DEF Assemble, consensusVars, TypeOK
<1>13. ASSUME NEW n \in Honest, AssembleFails(n)
       PROVE  TypeOK'
  BY <1>13, HonestAreNodes DEF AssembleFails, consensusVars, sealVars, TypeOK
<1> QED
  BY <1>1, <1>2, <1>3, <1>4, <1>5, <1>6, <1>7, <1>8, <1>9, <1>10, <1>11, <1>12, <1>13
  DEF Next, Receive, Isolate, Tick, Seal, Kinds
-----------------------------------------------------------------------------
(* Preservation *)

\* enter_view and every new proposal keep block, view and live set together.
LEMMA MemberStep ==
  ASSUME IInv, TypeOK', [Next]_vars
  PROVE  MemberFits'
<1>1. CASE UNCHANGED vars
  BY <1>1 DEF vars, consensusVars, sealVars, IInv, MemberFits, Vote, Blocks, NoBlock
<1>2. ASSUME NEW n \in Honest, NEW from \in Nodes \ {n}, NEW b \in Offered(n, from),
             ProposalEquivocates(n, from, b)
      PROVE  MemberFits'
  BY <1>2, HonestAreNodes DEF ProposalEquivocates, consensusVars, sealVars, IInv,
     TypeOK, MemberFits, Vote, Blocks, NoBlock
<1>3. ASSUME NEW n \in Honest, NEW from \in Nodes \ {n}, NEW b \in Offered(n, from),
             ProposalDivergent(n, from, b)
      PROVE  MemberFits'
  BY <1>3, HonestAreNodes DEF ProposalDivergent, consensusVars, sealVars, IInv,
     TypeOK, MemberFits, Vote, Blocks, NoBlock
<1>4. ASSUME NEW n \in Honest, NEW from \in Nodes \ {n}, NEW b \in Offered(n, from),
             ProposalValidated(n, from, b)
      PROVE  MemberFits'
  <2>1. b \in Blocks
    BY OfferedAreBlocks, HonestAreNodes DEF IInv
  <2>2. b # NoBlock
    BY <2>1, BlockIsReal
  <2> SUFFICES ASSUME NEW m \in Nodes
               PROVE  /\ proposal'[m] # NoBlock => proposal'[m].view = view'[m]
                      /\ phase'[m] \in {"Prepared", "Committing"} => proposal'[m] # NoBlock
                      /\ phase'[m] = "Committing" => Vote("commit", m, proposal'[m]) \in frames'
    BY DEF MemberFits
  <2>3. CASE m # n
    BY <1>4, <2>3 DEF ProposalValidated, IInv, TypeOK, MemberFits
  <2>4. CASE m = n
    BY <1>4, <2>2, <2>4, HonestAreNodes DEF ProposalValidated, IInv, TypeOK, MemberFits
  <2> QED
    BY <2>3, <2>4
<1>5. ASSUME NEW n \in Honest, NEW v \in Views, VoteFromLaterView(n, v)
      PROVE  MemberFits'
  BY <1>5, HonestAreNodes DEF VoteFromLaterView, enter_view, consensusVars, sealVars,
     IInv, TypeOK, MemberFits, Vote, Blocks, NoBlock
<1>6. ASSUME NEW n \in Honest, PrepareQuorum(n)
      PROVE  MemberFits'
  BY <1>6, HonestAreNodes DEF PrepareQuorum, consensusVars, sealVars, IInv, TypeOK,
     MemberFits, Vote, Blocks, NoBlock
<1>7. ASSUME NEW n \in Honest, CommitQuorum(n)
      PROVE  MemberFits'
  BY <1>7, HonestAreNodes DEF CommitQuorum, consensusVars, sealVars, IInv, TypeOK,
     MemberFits, Vote, Blocks, NoBlock
<1>8. ASSUME NEW n \in Honest, NEW who \in Nodes, NEW why \in Kinds, try_isolate(n, who, why)
      PROVE  MemberFits'
  BY <1>8, HonestAreNodes DEF try_isolate, enter_view, IInv, TypeOK, MemberFits
<1>9. ASSUME NEW n \in Honest, NEW rotated \in BOOLEAN, NEW ready \in BOOLEAN,
             NEW body \in Evidence[n],
             step_active(n, rotated, ready, body)
      PROVE  MemberFits'
  <2> DEFINE v == IF rotated THEN view[n] + 1 ELSE view[n]
             b == [view |-> v, body |-> body, rogues |-> isolated[n]]
  <2>1. \/ /\ proposal'[n] = b
           /\ phase'[n] = "Prepared"
        \/ /\ proposal'[n] = proposal[n] /\ phase'[n] = phase[n]
           /\ view'[n] = view[n]
        \/ /\ proposal'[n] = NoBlock /\ phase'[n] = "AwaitProposal"
    BY <1>9, HonestAreNodes DEF step_active, IInv, TypeOK
  <2>2. b # NoBlock
    <3>1. v \in Views
      BY <1>9, ViewAssumption, HonestAreNodes DEF step_active, IInv, TypeOK, Views
    <3> QED
      BY <3>1, ViewAssumption DEF NoBlock, Views
  <2>3. view'[n] = v /\ frames \subseteq frames' /\ isolated' = isolated
    BY <1>9, HonestAreNodes DEF step_active, IInv, TypeOK
  <2>4. \A m \in Nodes \ {n} : /\ proposal'[m] = proposal[m] /\ phase'[m] = phase[m]
                               /\ view'[m] = view[m]
    BY <1>9, HonestAreNodes DEF step_active, IInv, TypeOK
  <2> QED
    BY <2>1, <2>2, <2>3, <2>4, HonestAreNodes DEF IInv, MemberFits
<1>10. ASSUME NEW n \in Honest, SealRoundOne(n)
       PROVE  MemberFits'
  BY <1>10, HonestAreNodes DEF SealRoundOne, consensusVars, sealVars, IInv, TypeOK,
     MemberFits, Vote, Blocks, NoBlock
<1>11. ASSUME NEW n \in Honest, SealRoundTwo(n)
       PROVE  MemberFits'
  BY <1>11, HonestAreNodes DEF SealRoundTwo, consensusVars, sealVars, IInv, TypeOK,
     MemberFits, Vote, Blocks, NoBlock
<1>12. ASSUME NEW n \in Honest, Assemble(n)
       PROVE  MemberFits'
  BY <1>12, HonestAreNodes DEF Assemble, consensusVars, sealVars, IInv, TypeOK,
     MemberFits, Vote, Blocks, NoBlock
<1>13. ASSUME NEW n \in Honest, AssembleFails(n)
       PROVE  MemberFits'
  BY <1>13, HonestAreNodes DEF AssembleFails, consensusVars, sealVars, IInv, TypeOK,
     MemberFits, Vote, Blocks, NoBlock
<1> QED
  BY <1>1, <1>2, <1>3, <1>4, <1>5, <1>6, <1>7, <1>8, <1>9, <1>10, <1>11, <1>12, <1>13
  DEF Next, Receive, Isolate, Tick, Seal, Kinds

\* No commit is added, and a block is dropped only with its view.
KeepsCommits ==
  /\ \A f \in frames' : f.type = "commit" => f \in frames
  /\ \A m \in Nodes : /\ view'[m] >= view[m]
                      /\ \/ view'[m] > view[m]
                         \/ proposal'[m] = proposal[m]
                         \/ proposal[m] = NoBlock

LEMMA QuietStep ==
  ASSUME IInv, TypeOK', KeepsCommits
  PROVE  CommitsFit' /\ OneCommit'
<1>1. OneCommit'
  BY DEF IInv, OneCommit, KeepsCommits
<1>2. CommitsFit'
  <2> SUFFICES ASSUME NEW f \in frames', f.type = "commit"
               PROVE  /\ f.block.view <= view'[f.from]
                      /\ f.block.view = view'[f.from] => proposal'[f.from] = f.block
    BY DEF CommitsFit
  <2>1. f \in frames
    BY DEF KeepsCommits
  <2>2. f.from \in Nodes /\ f.block \in Blocks /\ f.block.view \in Int
    <3>1. f \in [type : {"proposal", "prepare", "commit"}, from : Honest, block : Blocks]
      BY <2>1 DEF IInv, TypeOK, Frames
    <3> QED
      BY <3>1, HonestAreNodes, ViewAssumption DEF Blocks, Views
  <2>3. view[f.from] \in Int /\ view'[f.from] \in Int
    BY <2>2, ViewAssumption DEF IInv, TypeOK, Views
  <2>4. /\ f.block.view <= view[f.from]
        /\ f.block.view = view[f.from] => proposal[f.from] = f.block
    BY <2>1 DEF IInv, CommitsFit
  <2>5. f.block # NoBlock
    BY <2>2, BlockIsReal
  <2> QED
    BY <2>2, <2>3, <2>4, <2>5 DEF KeepsCommits
<1> QED
  BY <1>1, <1>2

\* A view is committed to once: its commit is the block held until it ends.
LEMMA CommitStep ==
  ASSUME IInv, TypeOK', [Next]_vars
  PROVE  CommitsFit' /\ OneCommit'
<1>1. CASE UNCHANGED vars
  BY <1>1 DEF vars, consensusVars, IInv, CommitsFit, OneCommit
<1>2. ASSUME NEW n \in Honest, NEW from \in Nodes \ {n}, NEW b \in Offered(n, from),
             ProposalEquivocates(n, from, b)
      PROVE  CommitsFit' /\ OneCommit'
  <2>1. KeepsCommits
    BY <1>2, HonestAreNodes, ViewAssumption DEF ProposalEquivocates, consensusVars, sealVars,
       IInv, TypeOK, KeepsCommits, Views, Vote, Proposal, Accuse, SealCommit, SealShare
  <2> QED
    BY <2>1, QuietStep
<1>3. ASSUME NEW n \in Honest, NEW from \in Nodes \ {n}, NEW b \in Offered(n, from),
             ProposalDivergent(n, from, b)
      PROVE  CommitsFit' /\ OneCommit'
  <2>1. KeepsCommits
    BY <1>3, HonestAreNodes, ViewAssumption DEF ProposalDivergent, consensusVars, sealVars,
       IInv, TypeOK, KeepsCommits, Views, Vote, Proposal, Accuse, SealCommit, SealShare
  <2> QED
    BY <2>1, QuietStep
<1>4. ASSUME NEW n \in Honest, NEW from \in Nodes \ {n}, NEW b \in Offered(n, from),
             ProposalValidated(n, from, b)
      PROVE  CommitsFit' /\ OneCommit'
  <2>1. \A f \in frames' : f.type = "commit" => f \in frames
    BY <1>4 DEF ProposalValidated, Vote
  <2>2. \A m \in Nodes : /\ view'[m] >= view[m]
                        /\ \/ view'[m] > view[m]
                           \/ proposal'[m] = proposal[m]
                           \/ proposal[m] = NoBlock
    <3>1. b.view \in Int
      BY OfferedAreBlocks, HonestAreNodes, ViewAssumption DEF IInv, Blocks, Views
    <3> QED
      BY <1>4, <3>1, HonestAreNodes, ViewAssumption DEF ProposalValidated, IInv, TypeOK, Views
  <2> QED
    BY <2>1, <2>2, QuietStep DEF KeepsCommits
<1>5. ASSUME NEW n \in Honest, NEW v \in Views, VoteFromLaterView(n, v)
      PROVE  CommitsFit' /\ OneCommit'
  <2>1. KeepsCommits
    BY <1>5, HonestAreNodes, ViewAssumption DEF VoteFromLaterView, enter_view, consensusVars, sealVars,
       IInv, TypeOK, KeepsCommits, Views, Vote, Proposal, Accuse, SealCommit, SealShare
  <2> QED
    BY <2>1, QuietStep
<1>6. ASSUME NEW n \in Honest, PrepareQuorum(n)
      PROVE  CommitsFit' /\ OneCommit'
  <2> DEFINE c == Vote("commit", n, proposal[n])
  <2>1. frames' = frames \cup {c} /\ view' = view /\ proposal' = proposal
    BY <1>6 DEF PrepareQuorum
  <2>2. proposal[n] # NoBlock /\ proposal[n].view = view[n]
    BY <1>6, HonestAreNodes DEF PrepareQuorum, IInv, MemberFits
  <2>3. c.type = "commit" /\ c.from = n /\ c.block = proposal[n]
    BY DEF Vote
  <2>4. view[n] \in Int
    BY HonestAreNodes, ViewAssumption DEF IInv, TypeOK, Views
  <2>5. CommitsFit'
    BY <2>1, <2>2, <2>3, <2>4 DEF IInv, CommitsFit
  <2>6. \A f \in frames : f.type = "commit" /\ f.from = n /\ f.block.view = view[n]
                            => f.block = proposal[n]
    BY DEF IInv, CommitsFit
  <2>7. OneCommit'
    BY <2>1, <2>2, <2>3, <2>6 DEF IInv, OneCommit
  <2> QED
    BY <2>5, <2>7
<1>7. ASSUME NEW n \in Honest, CommitQuorum(n)
      PROVE  CommitsFit' /\ OneCommit'
  <2>1. KeepsCommits
    BY <1>7, HonestAreNodes, ViewAssumption DEF CommitQuorum, consensusVars, sealVars,
       IInv, TypeOK, KeepsCommits, Views, Vote, Proposal, Accuse, SealCommit, SealShare
  <2> QED
    BY <2>1, QuietStep
<1>8. ASSUME NEW n \in Honest, NEW who \in Nodes, NEW why \in Kinds, try_isolate(n, who, why)
      PROVE  CommitsFit' /\ OneCommit'
  <2>1. KeepsCommits
    BY <1>8, HonestAreNodes, ViewAssumption DEF try_isolate, enter_view, consensusVars, sealVars,
       IInv, TypeOK, KeepsCommits, Views, Vote, Proposal, Accuse, SealCommit, SealShare
  <2> QED
    BY <2>1, QuietStep
<1>9. ASSUME NEW n \in Honest, NEW rotated \in BOOLEAN, NEW ready \in BOOLEAN,
             NEW body \in Evidence[n],
             step_active(n, rotated, ready, body)
      PROVE  CommitsFit' /\ OneCommit'
  <2>1. \A f \in frames' : f.type = "commit" => f \in frames
    <3> DEFINE v == IF rotated THEN view[n] + 1 ELSE view[n]
               b == [view |-> v, body |-> body, rogues |-> isolated[n]]
    <3>1. frames' \subseteq frames \cup {Proposal(n, b)}
            \cup {Accuse(n, m, "timeout") : m \in Nodes}
      BY <1>9 DEF step_active, live
    <3> QED
      BY <3>1 DEF Proposal, Accuse
  <2>2. \A m \in Nodes : /\ view'[m] >= view[m]
                        /\ \/ view'[m] > view[m]
                           \/ proposal'[m] = proposal[m]
                           \/ proposal[m] = NoBlock
    BY <1>9, HonestAreNodes, ViewAssumption DEF step_active, IInv, TypeOK, Views
  <2> QED
    BY <2>1, <2>2, QuietStep DEF KeepsCommits
<1>10. ASSUME NEW n \in Honest, SealRoundOne(n)
       PROVE  CommitsFit' /\ OneCommit'
  <2>1. KeepsCommits
    BY <1>10, HonestAreNodes, ViewAssumption DEF SealRoundOne, consensusVars, sealVars,
       IInv, TypeOK, KeepsCommits, Views, Vote, Proposal, Accuse, SealCommit, SealShare
  <2> QED
    BY <2>1, QuietStep
<1>11. ASSUME NEW n \in Honest, SealRoundTwo(n)
       PROVE  CommitsFit' /\ OneCommit'
  <2>1. KeepsCommits
    BY <1>11, HonestAreNodes, ViewAssumption DEF SealRoundTwo, consensusVars, sealVars,
       IInv, TypeOK, KeepsCommits, Views, Vote, Proposal, Accuse, SealCommit, SealShare
  <2> QED
    BY <2>1, QuietStep
<1>12. ASSUME NEW n \in Honest, Assemble(n)
       PROVE  CommitsFit' /\ OneCommit'
  <2>1. KeepsCommits
    BY <1>12, HonestAreNodes, ViewAssumption DEF Assemble, consensusVars, sealVars,
       IInv, TypeOK, KeepsCommits, Views, Vote, Proposal, Accuse, SealCommit, SealShare
  <2> QED
    BY <2>1, QuietStep
<1>13. ASSUME NEW n \in Honest, AssembleFails(n)
       PROVE  CommitsFit' /\ OneCommit'
  <2>1. KeepsCommits
    BY <1>13, HonestAreNodes, ViewAssumption DEF AssembleFails, consensusVars, sealVars,
       IInv, TypeOK, KeepsCommits, Views, Vote, Proposal, Accuse, SealCommit, SealShare
  <2> QED
    BY <2>1, QuietStep
<1> QED
  BY <1>1, <1>2, <1>3, <1>4, <1>5, <1>6, <1>7, <1>8, <1>9, <1>10, <1>11, <1>12, <1>13
  DEF Next, Receive, Isolate, Tick, Seal, Kinds

\* seal_share_sent makes round 2 answer once.
LEMMA ShareStep ==
  ASSUME IInv, TypeOK', [Next]_vars
  PROVE  OneShare'
<1>1. CASE UNCHANGED vars
  BY <1>1 DEF vars, consensusVars, sealVars, IInv, OneShare, Vote, Proposal, Accuse,
     SealCommit, SealShare
<1>2. ASSUME NEW n \in Honest, NEW from \in Nodes \ {n}, NEW b \in Offered(n, from),
             ProposalEquivocates(n, from, b)
      PROVE  OneShare'
  BY <1>2, HonestAreNodes DEF ProposalEquivocates, consensusVars, sealVars, IInv,
     TypeOK, OneShare, Vote, Proposal, Accuse, SealCommit, SealShare
<1>3. ASSUME NEW n \in Honest, NEW from \in Nodes \ {n}, NEW b \in Offered(n, from),
             ProposalDivergent(n, from, b)
      PROVE  OneShare'
  BY <1>3, HonestAreNodes DEF ProposalDivergent, consensusVars, sealVars, IInv,
     TypeOK, OneShare, Vote, Proposal, Accuse, SealCommit, SealShare
<1>4. ASSUME NEW n \in Honest, NEW from \in Nodes \ {n}, NEW b \in Offered(n, from),
             ProposalValidated(n, from, b)
      PROVE  OneShare'
  BY <1>4, HonestAreNodes DEF ProposalValidated, consensusVars, sealVars, IInv,
     TypeOK, OneShare, Vote, Proposal, Accuse, SealCommit, SealShare
<1>5. ASSUME NEW n \in Honest, NEW v \in Views, VoteFromLaterView(n, v)
      PROVE  OneShare'
  BY <1>5, HonestAreNodes DEF VoteFromLaterView, enter_view, consensusVars, sealVars,
     IInv, TypeOK, OneShare, Vote, Proposal, Accuse, SealCommit, SealShare
<1>6. ASSUME NEW n \in Honest, PrepareQuorum(n)
      PROVE  OneShare'
  BY <1>6, HonestAreNodes DEF PrepareQuorum, consensusVars, sealVars, IInv, TypeOK,
     OneShare, Vote, Proposal, Accuse, SealCommit, SealShare
<1>7. ASSUME NEW n \in Honest, CommitQuorum(n)
      PROVE  OneShare'
  BY <1>7, HonestAreNodes DEF CommitQuorum, consensusVars, sealVars, IInv, TypeOK,
     OneShare, Vote, Proposal, Accuse, SealCommit, SealShare
<1>8. ASSUME NEW n \in Honest, NEW who \in Nodes, NEW why \in Kinds, try_isolate(n, who, why)
      PROVE  OneShare'
  BY <1>8, HonestAreNodes DEF try_isolate, enter_view, consensusVars, sealVars, IInv,
     TypeOK, OneShare, Vote, Proposal, Accuse, SealCommit, SealShare
<1>9. ASSUME NEW n \in Honest, NEW rotated \in BOOLEAN, NEW ready \in BOOLEAN,
             NEW body \in Evidence[n],
             step_active(n, rotated, ready, body)
      PROVE  OneShare'
  <2> DEFINE v == IF rotated THEN view[n] + 1 ELSE view[n]
             b == [view |-> v, body |-> body, rogues |-> isolated[n]]
  <2>1. frames' \subseteq frames \cup {Proposal(n, b)}
          \cup {Accuse(n, m, "timeout") : m \in Nodes}
    BY <1>9 DEF step_active, live
  <2>2. \A f \in frames' : f.type = "seal_share" => f \in frames
    BY <2>1 DEF Proposal, Accuse
  <2>3. seal_share_sent' = seal_share_sent
    BY <1>9 DEF step_active, sealVars
  <2> QED
    BY <2>2, <2>3 DEF IInv, OneShare
<1>10. ASSUME NEW n \in Honest, SealRoundOne(n)
       PROVE  OneShare'
  BY <1>10, HonestAreNodes DEF SealRoundOne, consensusVars, sealVars, IInv, TypeOK,
     OneShare, Vote, Proposal, Accuse, SealCommit, SealShare
<1>11. ASSUME NEW n \in Honest, SealRoundTwo(n)
       PROVE  OneShare'
  <2> DEFINE s == SealShare(n, seal_set(n), sealing_message(n))
  <2>1. frames' \subseteq frames \cup {s}
    BY <1>11 DEF SealRoundTwo
  <2>2. s.from = n /\ ~seal_share_sent[n]
    BY <1>11 DEF SealRoundTwo, SealShare
  <2>3. \A f \in frames : f.type = "seal_share" => f.from # n /\ f.from \in Nodes
    BY <2>2, HonestAreNodes DEF IInv, OneShare, TypeOK, Frames
  <2>4. seal_share_sent' = [seal_share_sent EXCEPT ![n] = TRUE]
    BY <1>11 DEF SealRoundTwo
  <2>5. seal_share_sent'[n] /\ \A m \in Nodes \ {n} : seal_share_sent'[m] = seal_share_sent[m]
    BY <2>4, HonestAreNodes DEF IInv, TypeOK
  <2>6. \A f \in frames' : f.type = "seal_share" => seal_share_sent'[f.from]
    BY <2>1, <2>2, <2>3, <2>5 DEF IInv, OneShare
  <2>7. \A f, g \in frames' :
          f.type = "seal_share" /\ g.type = "seal_share" /\ f.from = g.from => f = g
    BY <2>1, <2>2, <2>3 DEF IInv, OneShare
  <2> QED
    BY <2>6, <2>7 DEF OneShare
<1>12. ASSUME NEW n \in Honest, Assemble(n)
       PROVE  OneShare'
  BY <1>12, HonestAreNodes DEF Assemble, consensusVars, sealVars, IInv, TypeOK,
     OneShare, Vote, Proposal, Accuse, SealCommit, SealShare
<1>13. ASSUME NEW n \in Honest, AssembleFails(n)
       PROVE  OneShare'
  BY <1>13, HonestAreNodes DEF AssembleFails, consensusVars, sealVars, IInv, TypeOK,
     OneShare, Vote, Proposal, Accuse, SealCommit, SealShare
<1> QED
  BY <1>1, <1>2, <1>3, <1>4, <1>5, <1>6, <1>7, <1>8, <1>9, <1>10, <1>11, <1>12, <1>13
  DEF Next, Receive, Isolate, Tick, Seal, Kinds

LEMMA TwoElements ==
  ASSUME NEW x, NEW y, x # y
  PROVE  Cardinality({x, y}) = 2
<1>1. Cardinality({x}) = 1 /\ IsFiniteSet({x})
  BY FS_Singleton
<1>2. Cardinality({x} \cup {y}) = Cardinality({x}) + 1
  BY <1>1, FS_AddElement
<1>3. {x} \cup {y} = {x, y}
  OBVIOUS
<1> QED
  BY <1>1, <1>2, <1>3

\* What backs a decision, an isolation or a certificate is never taken back.
LEMMA BackedKeeps ==
  ASSUME Backed, frames \subseteq frames', UNCHANGED <<decided, electorate, isolated, certificate>>
  PROVE  Backed'
<1>1. \A f : Signed(f) => Signed(f)'
  BY DEF Signed
<1>2. DecidedBacked'
  <2>1. \A n \in Honest : Electorate(n)' = Electorate(n) /\ CommitsNeeded(n)' = CommitsNeeded(n)
    BY DEF Electorate, CommitsNeeded
  <2> QED
    BY <1>1, <2>1 DEF Backed, DecidedBacked
<1>3. IsolatedBacked'
  BY <1>1 DEF Backed, IsolatedBacked
<1>4. CertificateBacked'
  BY <1>1 DEF Backed, CertificateBacked
<1> QED
  BY <1>2, <1>3, <1>4 DEF Backed

\* A decision, an isolation and a certificate rest on frames that were sent.
LEMMA BackedStep ==
  ASSUME IInv, TypeOK', [Next]_vars
  PROVE  Backed'
<1>1. CASE UNCHANGED vars
  BY <1>1, BackedKeeps DEF vars, consensusVars, sealVars, IInv
<1>2. ASSUME NEW n \in Honest, NEW from \in Nodes \ {n}, NEW b \in Offered(n, from),
             ProposalEquivocates(n, from, b)
      PROVE  Backed'
  <2>1. frames \subseteq frames' /\ UNCHANGED <<decided, electorate, isolated, certificate>>
    BY <1>2 DEF ProposalEquivocates, consensusVars, sealVars
  <2> QED
    BY <2>1, BackedKeeps DEF IInv
<1>3. ASSUME NEW n \in Honest, NEW from \in Nodes \ {n}, NEW b \in Offered(n, from),
             ProposalDivergent(n, from, b)
      PROVE  Backed'
  <2>1. frames \subseteq frames' /\ UNCHANGED <<decided, electorate, isolated, certificate>>
    BY <1>3 DEF ProposalDivergent, consensusVars, sealVars
  <2> QED
    BY <2>1, BackedKeeps DEF IInv
<1>4. ASSUME NEW n \in Honest, NEW from \in Nodes \ {n}, NEW b \in Offered(n, from),
             ProposalValidated(n, from, b)
      PROVE  Backed'
  <2>1. frames \subseteq frames' /\ UNCHANGED <<decided, electorate, isolated, certificate>>
    BY <1>4 DEF ProposalValidated, consensusVars, sealVars
  <2> QED
    BY <2>1, BackedKeeps DEF IInv
<1>5. ASSUME NEW n \in Honest, NEW v \in Views, VoteFromLaterView(n, v)
      PROVE  Backed'
  <2>1. frames \subseteq frames' /\ UNCHANGED <<decided, electorate, isolated, certificate>>
    BY <1>5 DEF VoteFromLaterView, enter_view, consensusVars, sealVars
  <2> QED
    BY <2>1, BackedKeeps DEF IInv
<1>6. ASSUME NEW n \in Honest, PrepareQuorum(n)
      PROVE  Backed'
  <2>1. frames \subseteq frames' /\ UNCHANGED <<decided, electorate, isolated, certificate>>
    BY <1>6 DEF PrepareQuorum, consensusVars, sealVars
  <2> QED
    BY <2>1, BackedKeeps DEF IInv
<1>7. ASSUME NEW n \in Honest, CommitQuorum(n)
      PROVE  Backed'
  <2> DEFINE b == proposal[n]
             Q == Voters(n, "commit", b)
  <2>1. frames' = frames /\ isolated' = isolated /\ certificate' = certificate
    BY <1>7 DEF CommitQuorum, sealVars
  <2>2. \A f : Signed(f) => Signed(f)'
    BY <2>1 DEF Signed
  <2>3. b # NoBlock /\ Vote("commit", n, b) \in frames
    BY <1>7, HonestAreNodes DEF CommitQuorum, IInv, MemberFits
  <2>4. /\ Q \in SUBSET ({n} \cup live(n))
        /\ \A m \in Q : Signed(Vote("commit", m, b))
    BY <2>3, HonestAreNodes DEF Voters, live, Signed
  <2>5. Cardinality(Q) >= decision_quorum(Cardinality(live(n))) /\ Cardinality(Q) >= 2
    <3>1. Cardinality(Q) >= decision_quorum(Cardinality(live(n)))
      BY <1>7, <2>3 DEF CommitQuorum, quorum
    <3>2. PICK from \in Nodes : Hears(n, from) /\ Signed(Vote("commit", from, b))
      BY <1>7 DEF CommitQuorum, VoteArrives
    <3>3. {n, from} \subseteq Q /\ n # from
      BY <3>2 DEF Voters, live, Hears
    <3>4. IsFiniteSet(Q)
      BY HonestAreNodes, NodesAssumption, FS_Subset, Q \subseteq Nodes DEF Voters, live
    <3>5. Cardinality({n, from}) = 2
      BY <3>3, TwoElements
    <3>6. Cardinality({n, from}) <= Cardinality(Q)
      BY <3>3, <3>4, FS_Subset
    <3> QED
      BY <3>1, <3>5, <3>6
  <2>6. /\ decided'[n] = b /\ electorate'[n] = live(n)
        /\ \A m \in Nodes \ {n} : decided'[m] = decided[m] /\ electorate'[m] = electorate[m]
    BY <1>7, HonestAreNodes DEF CommitQuorum, IInv, TypeOK
  <2>7. DecidedBacked'
    <3> SUFFICES ASSUME NEW m \in Honest, decided'[m] # NoBlock
                 PROVE  (\E P \in SUBSET Electorate(m) :
                           /\ Cardinality(P) >= CommitsNeeded(m)
                           /\ \A k \in P : Signed(Vote("commit", k, decided[m])))'
      BY DEF DecidedBacked
    <3>1. CASE m = n
      BY <2>2, <2>4, <2>5, <2>6, <3>1 DEF Electorate, CommitsNeeded
    <3>2. CASE m # n
      BY <2>2, <2>6, <3>2, HonestAreNodes
      DEF IInv, Backed, DecidedBacked, Electorate, CommitsNeeded
    <3> QED
      BY <3>1, <3>2
  <2>8. IsolatedBacked' /\ CertificateBacked'
    BY <2>1, <2>2 DEF IInv, Backed, IsolatedBacked, CertificateBacked
  <2> QED
    BY <2>7, <2>8 DEF Backed
<1>8. ASSUME NEW n \in Honest, NEW who \in Nodes, NEW why \in Kinds, try_isolate(n, who, why)
      PROVE  Backed'
  <2> DEFINE Q == Accusers(who, why)
  <2>1. frames' = frames /\ decided' = decided /\ electorate' = electorate /\ certificate' = certificate
    BY <1>8 DEF try_isolate, sealVars
  <2>2. \A f : Signed(f) => Signed(f)'
    BY <2>1 DEF Signed
  <2>3. /\ Q \in SUBSET Nodes
        /\ Cardinality(Q) >= frozen_quorum
        /\ \A m \in Q : Signed(Accuse(m, who, why))
    BY <1>8 DEF try_isolate, Accusers
  <2>4. /\ isolated'[n] = isolated[n] \cup {who}
        /\ \A m \in Nodes \ {n} : isolated'[m] = isolated[m]
    BY <1>8, HonestAreNodes DEF try_isolate, IInv, TypeOK
  <2>5. IsolatedBacked'
    <3> SUFFICES ASSUME NEW m \in Honest, NEW x \in isolated'[m]
                 PROVE  \E y \in Kinds : \E P \in SUBSET Nodes :
                          /\ Cardinality(P) >= frozen_quorum
                          /\ \A k \in P : Signed(Accuse(k, x, y))'
      BY DEF IsolatedBacked
    <3>1. CASE x \in isolated[m]
      BY <2>2, <3>1 DEF IInv, Backed, IsolatedBacked
    <3>2. CASE x \notin isolated[m]
      <4>1. x = who
        BY <2>4, <3>2, HonestAreNodes
      <4> QED
        BY <2>2, <2>3, <4>1
    <3> QED
      BY <3>1, <3>2
  <2>6. DecidedBacked'
    <3>1. \A m \in Honest : Electorate(m)' = Electorate(m) /\ CommitsNeeded(m)' = CommitsNeeded(m)
      BY <2>1 DEF Electorate, CommitsNeeded
    <3> QED
      BY <2>1, <2>2, <3>1 DEF IInv, Backed, DecidedBacked
  <2>7. CertificateBacked'
    BY <2>1, <2>2 DEF IInv, Backed, CertificateBacked
  <2> QED
    BY <2>5, <2>6, <2>7 DEF Backed
<1>9. ASSUME NEW n \in Honest, NEW rotated \in BOOLEAN, NEW ready \in BOOLEAN,
             NEW body \in Evidence[n],
             step_active(n, rotated, ready, body)
      PROVE  Backed'
  <2>1. frames \subseteq frames' /\ UNCHANGED <<decided, electorate, isolated, certificate>>
    BY <1>9 DEF step_active, consensusVars, sealVars
  <2> QED
    BY <2>1, BackedKeeps DEF IInv
<1>10. ASSUME NEW n \in Honest, SealRoundOne(n)
       PROVE  Backed'
  <2>1. frames \subseteq frames' /\ UNCHANGED <<decided, electorate, isolated, certificate>>
    BY <1>10 DEF SealRoundOne, consensusVars, sealVars
  <2> QED
    BY <2>1, BackedKeeps DEF IInv
<1>11. ASSUME NEW n \in Honest, SealRoundTwo(n)
       PROVE  Backed'
  <2>1. frames \subseteq frames' /\ UNCHANGED <<decided, electorate, isolated, certificate>>
    BY <1>11 DEF SealRoundTwo, consensusVars, sealVars
  <2> QED
    BY <2>1, BackedKeeps DEF IInv
<1>12. ASSUME NEW n \in Honest, Assemble(n)
       PROVE  Backed'
  <2> DEFINE b == proposal[n]
             Q == seal_set(n)
  <2>1. frames' = frames /\ decided' = decided /\ electorate' = electorate /\ isolated' = isolated
    BY <1>12 DEF Assemble, consensusVars
  <2>2. \A f : Signed(f) => Signed(f)'
    BY <2>1 DEF Signed
  <2>3. /\ Q \in SUBSET Nodes
        /\ Cardinality(Q) >= Threshold
        /\ \A m \in Q : Signed(SealShare(m, Q, b))
    BY <1>12 DEF Assemble, Verifies, SharesAgree, sealing_message, seal_set, live
  <2>4. certificate'[n] = b /\ \A m \in Nodes \ {n} : certificate'[m] = certificate[m]
    BY <1>12, HonestAreNodes DEF Assemble, IInv, TypeOK
  <2>5. CertificateBacked'
    <3> SUFFICES ASSUME NEW m \in Honest, certificate'[m] # NoBlock
                 PROVE  (\E P \in SUBSET Nodes :
                           /\ Cardinality(P) >= Threshold
                           /\ \A k \in P : Signed(SealShare(k, P, certificate[m])))'
      BY DEF CertificateBacked
    <3>1. CASE m = n
      BY <2>2, <2>3, <2>4, <3>1
    <3>2. CASE m # n
      BY <2>2, <2>4, <3>2, HonestAreNodes DEF IInv, Backed, CertificateBacked
    <3> QED
      BY <3>1, <3>2
  <2>6. DecidedBacked' /\ IsolatedBacked'
    BY <2>1, <2>2
    DEF IInv, Backed, DecidedBacked, IsolatedBacked, Electorate, CommitsNeeded
  <2> QED
    BY <2>5, <2>6 DEF Backed
<1>13. ASSUME NEW n \in Honest, AssembleFails(n)
       PROVE  Backed'
  <2>1. frames \subseteq frames' /\ UNCHANGED <<decided, electorate, isolated, certificate>>
    BY <1>13 DEF AssembleFails, consensusVars, sealVars
  <2> QED
    BY <2>1, BackedKeeps DEF IInv
<1> QED
  BY <1>1, <1>2, <1>3, <1>4, <1>5, <1>6, <1>7, <1>8, <1>9, <1>10, <1>11, <1>12, <1>13
  DEF Next, Receive, Isolate, Tick, Seal, Kinds

LEMMA InitHolds == Init => IInv
<1> SUFFICES ASSUME Init PROVE IInv
  OBVIOUS
<1>1. TypeOK
  BY ViewAssumption DEF Init, TypeOK, Views, Phases
<1>2. MemberFits /\ CommitsFit /\ OneCommit /\ OneShare
  BY DEF Init, MemberFits, CommitsFit, OneCommit, OneShare
<1>3. Backed
  BY HonestAreNodes DEF Init, Backed, DecidedBacked, IsolatedBacked, CertificateBacked
<1> QED
  BY <1>1, <1>2, <1>3 DEF IInv

LEMMA StepHolds == IInv /\ [Next]_vars => IInv'
  BY TypeStep, MemberStep, CommitStep, ShareStep, BackedStep DEF IInv

\* The inductive invariant holds of every behaviour: blocks stay with their view
\* and live set, each view is committed to once, round 2 is answered once, and
\* decisions, isolations and certificates rest on a quorum of signed frames.
THEOREM MeshInvariant == Spec => []IInv
<1>1. IInv /\ UNCHANGED vars => IInv'
  BY StepHolds
<1> QED
  BY InitHolds, StepHolds, PTL DEF Spec

\* Types of every variable, for every membership, fault set and view bound.
THEOREM TypeCorrect == Spec => []TypeOK
  BY MeshInvariant, PTL DEF IInv

-----------------------------------------------------------------------------
(* Quorums *)

\* Subsets of two electorates whose sizes add up to more than both electorates
\* together and the faulty members they share have a member that is not faulty
\* in common.
LEMMA ElectoratesMeet ==
  ASSUME NEW E, NEW G, E \subseteq Nodes, G \subseteq Nodes,
         NEW P, NEW Q, P \subseteq E, Q \subseteq G,
         Cardinality(P) + Cardinality(Q)
           > Cardinality(E \cup G) + Cardinality(Byzantine \cap E \cap G)
  PROVE  \E m \in P \cap Q : m \notin Byzantine
<1> DEFINE B == Byzantine \cap E \cap G
<1>1. /\ IsFiniteSet(P) /\ IsFiniteSet(Q) /\ IsFiniteSet(B)
      /\ IsFiniteSet(E \cup G) /\ IsFiniteSet(P \cap Q)
  <2>1. /\ P \subseteq Nodes /\ Q \subseteq Nodes /\ B \subseteq Nodes
        /\ E \cup G \subseteq Nodes /\ P \cap Q \subseteq Nodes
    OBVIOUS
  <2> QED
    BY <2>1, NodesAssumption, FS_Subset
<1>2. /\ Cardinality(P \cup Q) = Cardinality(P) + Cardinality(Q) - Cardinality(P \cap Q)
      /\ IsFiniteSet(P \cup Q)
  BY <1>1, FS_Union
<1>3. Cardinality(P \cup Q) <= Cardinality(E \cup G)
  <2>1. P \cup Q \subseteq E \cup G
    OBVIOUS
  <2> QED
    BY <1>1, <2>1, FS_Subset
<1>4. /\ Cardinality(P) \in Nat /\ Cardinality(Q) \in Nat /\ Cardinality(E \cup G) \in Nat
      /\ Cardinality(P \cap Q) \in Nat /\ Cardinality(B) \in Nat
      /\ Cardinality(P \cup Q) \in Nat
  BY <1>1, <1>2, FS_CardinalityType
<1>5. Cardinality(P \cap Q) > Cardinality(B)
  BY <1>2, <1>3, <1>4
<1>6. ~(P \cap Q \subseteq B)
  <2> SUFFICES ASSUME P \cap Q \subseteq B PROVE FALSE
    OBVIOUS
  <2>1. Cardinality(P \cap Q) <= Cardinality(B)
    BY <1>1, FS_Subset
  <2> QED
    BY <2>1, <1>4, <1>5
<1> QED
  BY <1>6

\* The same for the whole membership.
LEMMA QuorumsMeet ==
  ASSUME NEW P \in SUBSET Nodes, NEW Q \in SUBSET Nodes,
         Cardinality(P) + Cardinality(Q) > N + Cardinality(Byzantine)
  PROVE  \E m \in P \cap Q : m \notin Byzantine
<1>1. Nodes \cup Nodes = Nodes /\ Byzantine \cap Nodes \cap Nodes = Byzantine
  BY FaultsAssumption
<1>2. Cardinality(P) + Cardinality(Q)
        > Cardinality(Nodes \cup Nodes) + Cardinality(Byzantine \cap Nodes \cap Nodes)
  BY <1>1 DEF N
<1>3. P \subseteq Nodes /\ Q \subseteq Nodes /\ Nodes \subseteq Nodes
  OBVIOUS
<1> QED
  BY <1>2, <1>3, ElectoratesMeet

LEMMA SizesAreNat == N \in Nat /\ Cardinality(Byzantine) \in Nat
  BY NodesAssumption, FaultsAssumption, FS_Subset, FS_CardinalityType DEF N

\* Two decisions of one view whose quorums overlap share an honest commit, and
\* no member commits to two blocks in a view.
LEMMA AcrossLiveSetsFromInvariant == IInv => AgreementAcrossLiveSets
<1> SUFFICES ASSUME IInv, NEW a \in Honest, NEW b \in Honest,
                    decided[a] # NoBlock, decided[b] # NoBlock,
                    decided[a].view = decided[b].view, QuorumsOverlap(a, b)
             PROVE  decided[a] = decided[b]
  BY DEF AgreementAcrossLiveSets
<1>1. PICK P \in SUBSET Electorate(a) :
        /\ Cardinality(P) >= CommitsNeeded(a)
        /\ \A m \in P : Signed(Vote("commit", m, decided[a]))
  BY DEF IInv, Backed, DecidedBacked
<1>2. PICK Q \in SUBSET Electorate(b) :
        /\ Cardinality(Q) >= CommitsNeeded(b)
        /\ \A m \in Q : Signed(Vote("commit", m, decided[b]))
  BY DEF IInv, Backed, DecidedBacked
<1>3. Electorate(a) \in SUBSET Nodes /\ Electorate(b) \in SUBSET Nodes
  BY HonestAreNodes DEF Electorate, IInv, TypeOK
<1>4. Cardinality(P) + Cardinality(Q)
        > Cardinality(Electorate(a) \cup Electorate(b))
            + Cardinality(Byzantine \cap Electorate(a) \cap Electorate(b))
  <2>1. /\ Electorate(a) \cup Electorate(b) \subseteq Nodes
        /\ Byzantine \cap Electorate(a) \cap Electorate(b) \subseteq Nodes
        /\ P \subseteq Nodes /\ Q \subseteq Nodes
        /\ electorate[a] \subseteq Nodes /\ electorate[b] \subseteq Nodes
    BY <1>3, HonestAreNodes DEF IInv, TypeOK
  <2>2. /\ Cardinality(Electorate(a) \cup Electorate(b)) \in Nat
        /\ Cardinality(Byzantine \cap Electorate(a) \cap Electorate(b)) \in Nat
        /\ Cardinality(P) \in Nat /\ Cardinality(Q) \in Nat
        /\ Cardinality(electorate[a]) \in Nat
        /\ Cardinality(electorate[b]) \in Nat
    BY <2>1, NodesAssumption, FS_Subset, FS_CardinalityType
  <2>3. CommitsNeeded(a) \in Int /\ CommitsNeeded(b) \in Int
    BY <2>2 DEF CommitsNeeded, decision_quorum, byzantine_tolerance
  <2> QED
    BY <1>1, <1>2, <2>2, <2>3 DEF QuorumsOverlap
<1>5. PICK m \in P \cap Q : m \notin Byzantine
  <2>1. /\ P \subseteq Electorate(a) /\ Q \subseteq Electorate(b)
        /\ Electorate(a) \subseteq Nodes /\ Electorate(b) \subseteq Nodes
    BY <1>3
  <2> QED
    BY <2>1, <1>4, ElectoratesMeet
<1>6. Vote("commit", m, decided[a]) \in frames /\ Vote("commit", m, decided[b]) \in frames
  BY <1>1, <1>2, <1>5 DEF Signed, Vote
<1> QED
  BY <1>6 DEF IInv, OneCommit, Vote

\* For any membership, number of faults and isolations, two honest members decide
\* alike in one view as long as their quorums must share an honest member.
THEOREM DecisionsAgreeAcrossLiveSets == Spec => []AgreementAcrossLiveSets
<1>1. IInv => AgreementAcrossLiveSets
  BY AcrossLiveSetsFromInvariant
<1> QED
  BY <1>1, MeshInvariant, PTL

\* Before an isolation they must, in a cluster of 3f + 1 with at most f Byzantine.
LEMMA AgreementFromInvariant ==
  ASSUME IInv, NEW f \in Nat, N = 3 * f + 1, Cardinality(Byzantine) <= f
  PROVE  AgreementInView
<1> SUFFICES ASSUME NEW a \in Honest, NEW b \in Honest,
                    decided[a] # NoBlock, decided[b] # NoBlock,
                    decided[a].view = decided[b].view,
                    electorate[a] = Nodes, electorate[b] = Nodes
             PROVE  decided[a] = decided[b]
  BY DEF AgreementInView
<1>1. decision_quorum(N) = 2 * f + 1
  BY DEF decision_quorum, byzantine_tolerance
<1>3. Electorate(a) = Nodes /\ Electorate(b) = Nodes
  BY HonestAreNodes DEF Electorate
<1>4. CommitsNeeded(a) >= 2 * f + 1 /\ CommitsNeeded(b) >= 2 * f + 1
      /\ CommitsNeeded(a) \in Int /\ CommitsNeeded(b) \in Int
  BY <1>1 DEF CommitsNeeded, N
<1>5. Nodes \cup Nodes = Nodes /\ Byzantine \cap Nodes \cap Nodes = Byzantine
  BY FaultsAssumption
<1>6. QuorumsOverlap(a, b)
  <2>1. /\ Electorate(a) \cup Electorate(b) = Nodes
        /\ Byzantine \cap Electorate(a) \cap Electorate(b) = Byzantine
    BY <1>3, <1>5
  <2>2. CommitsNeeded(a) + CommitsNeeded(b) > N + Cardinality(Byzantine)
    BY <1>4, SizesAreNat
  <2> QED
    BY <2>1, <2>2 DEF QuorumsOverlap, N
<1> QED
  BY <1>6, AcrossLiveSetsFromInvariant DEF AgreementAcrossLiveSets

\* In a cluster of 3f + 1 members of which at most f are Byzantine, whichever
\* crash, no two honest members decide different blocks in one view before an
\* isolation: the PBFT arithmetic of decision_quorum.  With 3f + 2 or 3f + 3
\* members the quorum stays 2f + 1 and the argument does not go through.
THEOREM DecisionsAgreeInView ==
  ASSUME NEW f \in Nat, N = 3 * f + 1, Cardinality(Byzantine) <= f
  PROVE  Spec => []AgreementInView
<1>1. IInv => AgreementInView
  BY AgreementFromInvariant
<1> QED
  BY <1>1, MeshInvariant, PTL

LEMMA ConvictionFromInvariant ==
  ASSUME IInv, Cardinality(Byzantine) <= F
  PROVE  ConvictedByHonest
<1> SUFFICES ASSUME NEW n \in Honest, NEW who \in isolated[n]
             PROVE  \E why \in Kinds :
                      Cardinality({m \in Honest : Accuse(m, who, why) \in frames}) > F
  BY DEF ConvictedByHonest, F, N
<1>1. PICK why \in Kinds, Q \in SUBSET Nodes :
        /\ Cardinality(Q) >= frozen_quorum
        /\ \A m \in Q : Signed(Accuse(m, who, why))
  BY DEF IInv, Backed, IsolatedBacked
<1> DEFINE H == {m \in Honest : Accuse(m, who, why) \in frames}
<1>2. Q \subseteq H \cup Byzantine
  <2> SUFFICES ASSUME NEW m \in Q, m \notin Byzantine PROVE m \in H
    OBVIOUS
  <2>1. Accuse(m, who, why) \in frames
    BY <1>1 DEF Signed, Accuse
  <2>2. Accuse(m, who, why) \in Frames
    BY <2>1 DEF IInv, TypeOK
  <2>3. m \in Honest
    BY <2>2 DEF Frames, Accuse
  <2> QED
    BY <2>1, <2>3
<1>3. /\ IsFiniteSet(H) /\ IsFiniteSet(Byzantine) /\ IsFiniteSet(H \cup Byzantine)
      /\ IsFiniteSet(H \cap Byzantine)
  <2>1. H \subseteq Nodes /\ H \cap Byzantine \subseteq Nodes /\ H \cup Byzantine \subseteq Nodes
    BY HonestAreNodes, FaultsAssumption
  <2> QED
    BY <2>1, NodesAssumption, FaultsAssumption, FS_Subset
<1>4. /\ Cardinality(Q) <= Cardinality(H \cup Byzantine)
      /\ Cardinality(H \cup Byzantine)
           = Cardinality(H) + Cardinality(Byzantine) - Cardinality(H \cap Byzantine)
  BY <1>2, <1>3, FS_Subset, FS_Union
<1>5. /\ Cardinality(Q) \in Nat /\ Cardinality(H) \in Nat
      /\ Cardinality(Byzantine) \in Nat /\ Cardinality(H \cap Byzantine) \in Nat
  BY <1>3, NodesAssumption, FS_Subset, FS_CardinalityType
<1>6. F \in Int /\ frozen_quorum = 2 * F + 1
  BY SizesAreNat DEF F, N, frozen_quorum, decision_quorum, byzantine_tolerance
<1>7. Cardinality(Q) >= 2 * F + 1 /\ Cardinality(Byzantine) <= F
  BY <1>1, <1>6
<1> HIDE DEF H
<1>8. Cardinality(H) > F
  BY <1>4, <1>5, <1>6, <1>7
<1> QED
  BY <1>8 DEF H

\* With at most f = (n - 1) / 3 Byzantine members, no member is cut off unless
\* more than f honest ones accused it: try_isolate asks the frozen quorum.
THEOREM IsolationIsHonest ==
  ASSUME Cardinality(Byzantine) <= F
  PROVE  Spec => []ConvictedByHonest
<1>1. IInv => ConvictedByHonest
  BY ConvictionFromInvariant
<1> QED
  BY <1>1, MeshInvariant, PTL

LEMMA CertificatesFromInvariant ==
  ASSUME IInv, Threshold \in Nat, 2 * Threshold > N + Cardinality(Byzantine)
  PROVE  CertificateAgreement
<1> SUFFICES ASSUME NEW a \in Honest, NEW b \in Honest,
                    certificate[a] # NoBlock, certificate[b] # NoBlock
             PROVE  certificate[a] = certificate[b]
  BY DEF CertificateAgreement
<1>1. PICK P \in SUBSET Nodes :
        /\ Cardinality(P) >= Threshold
        /\ \A m \in P : Signed(SealShare(m, P, certificate[a]))
  BY DEF IInv, Backed, CertificateBacked
<1>2. PICK Q \in SUBSET Nodes :
        /\ Cardinality(Q) >= Threshold
        /\ \A m \in Q : Signed(SealShare(m, Q, certificate[b]))
  BY DEF IInv, Backed, CertificateBacked
<1>3. Cardinality(P) + Cardinality(Q) > N + Cardinality(Byzantine)
  <2>1. Cardinality(P) \in Nat /\ Cardinality(Q) \in Nat
    BY NodesAssumption, FS_Subset, FS_CardinalityType
  <2> QED
    BY <1>1, <1>2, <2>1, SizesAreNat
<1>4. PICK m \in P \cap Q : m \notin Byzantine
  BY <1>3, QuorumsMeet
<1>5. /\ SealShare(m, P, certificate[a]) \in frames
      /\ SealShare(m, Q, certificate[b]) \in frames
  BY <1>1, <1>2, <1>4 DEF Signed, SealShare
<1>6. SealShare(m, P, certificate[a]) = SealShare(m, Q, certificate[b])
  BY <1>5 DEF IInv, OneShare, SealShare
<1> QED
  BY <1>6 DEF SealShare

\* A threshold above half of the members and the faulty ones together leaves room
\* for one certified block: every honest signer of the seal answers round 2 once.
THEOREM CertificatesAgree ==
  ASSUME Threshold \in Nat, 2 * Threshold > N + Cardinality(Byzantine)
  PROVE  Spec => []CertificateAgreement
<1>1. IInv => CertificateAgreement
  BY CertificatesFromInvariant
<1> QED
  BY <1>1, MeshInvariant, PTL

-----------------------------------------------------------------------------
(* Steps *)

\* Only try_isolate changes a live set, and enter_view follows it.
LEMMA IsolationStep ==
  ASSUME IInv, [Next]_vars
  PROVE  \A m \in Nodes : isolated'[m] # isolated[m] => view'[m] > view[m]
<1>1. CASE UNCHANGED vars
  BY <1>1 DEF vars, consensusVars
<1>2. ASSUME NEW n \in Honest, NEW from \in Nodes \ {n}, NEW b \in Offered(n, from),
             ProposalEquivocates(n, from, b)
      PROVE  \A m \in Nodes : isolated'[m] # isolated[m] => view'[m] > view[m]
  BY <1>2, HonestAreNodes DEF ProposalEquivocates, consensusVars, IInv, TypeOK
<1>3. ASSUME NEW n \in Honest, NEW from \in Nodes \ {n}, NEW b \in Offered(n, from),
             ProposalDivergent(n, from, b)
      PROVE  \A m \in Nodes : isolated'[m] # isolated[m] => view'[m] > view[m]
  BY <1>3, HonestAreNodes DEF ProposalDivergent, consensusVars, IInv, TypeOK
<1>4. ASSUME NEW n \in Honest, NEW from \in Nodes \ {n}, NEW b \in Offered(n, from),
             ProposalValidated(n, from, b)
      PROVE  \A m \in Nodes : isolated'[m] # isolated[m] => view'[m] > view[m]
  BY <1>4, HonestAreNodes DEF ProposalValidated, consensusVars, IInv, TypeOK
<1>5. ASSUME NEW n \in Honest, NEW v \in Views, VoteFromLaterView(n, v)
      PROVE  \A m \in Nodes : isolated'[m] # isolated[m] => view'[m] > view[m]
  BY <1>5, HonestAreNodes DEF VoteFromLaterView, consensusVars, IInv, TypeOK
<1>6. ASSUME NEW n \in Honest, PrepareQuorum(n)
      PROVE  \A m \in Nodes : isolated'[m] # isolated[m] => view'[m] > view[m]
  BY <1>6, HonestAreNodes DEF PrepareQuorum, consensusVars, IInv, TypeOK
<1>7. ASSUME NEW n \in Honest, CommitQuorum(n)
      PROVE  \A m \in Nodes : isolated'[m] # isolated[m] => view'[m] > view[m]
  BY <1>7, HonestAreNodes DEF CommitQuorum, consensusVars, IInv, TypeOK
<1>8. ASSUME NEW n \in Honest, NEW who \in Nodes, NEW why \in Kinds, try_isolate(n, who, why)
      PROVE  \A m \in Nodes : isolated'[m] # isolated[m] => view'[m] > view[m]
  BY <1>8, HonestAreNodes, ViewAssumption DEF try_isolate, enter_view, IInv, TypeOK, Views
<1>9. ASSUME NEW n \in Honest, NEW rotated \in BOOLEAN, NEW ready \in BOOLEAN,
             NEW body \in Evidence[n],
             step_active(n, rotated, ready, body)
      PROVE  \A m \in Nodes : isolated'[m] # isolated[m] => view'[m] > view[m]
  BY <1>9, HonestAreNodes DEF step_active, consensusVars, IInv, TypeOK
<1>10. ASSUME NEW n \in Honest, SealRoundOne(n)
       PROVE  \A m \in Nodes : isolated'[m] # isolated[m] => view'[m] > view[m]
  BY <1>10, HonestAreNodes DEF SealRoundOne, consensusVars, IInv, TypeOK
<1>11. ASSUME NEW n \in Honest, SealRoundTwo(n)
       PROVE  \A m \in Nodes : isolated'[m] # isolated[m] => view'[m] > view[m]
  BY <1>11, HonestAreNodes DEF SealRoundTwo, consensusVars, IInv, TypeOK
<1>12. ASSUME NEW n \in Honest, Assemble(n)
       PROVE  \A m \in Nodes : isolated'[m] # isolated[m] => view'[m] > view[m]
  BY <1>12, HonestAreNodes DEF Assemble, consensusVars, IInv, TypeOK
<1>13. ASSUME NEW n \in Honest, AssembleFails(n)
       PROVE  \A m \in Nodes : isolated'[m] # isolated[m] => view'[m] > view[m]
  BY <1>13, HonestAreNodes DEF AssembleFails, consensusVars, IInv, TypeOK
<1> QED
  BY <1>1, <1>2, <1>3, <1>4, <1>5, <1>6, <1>7, <1>8, <1>9, <1>10, <1>11, <1>12, <1>13
  DEF Next, Receive, Isolate, Tick, Seal, Kinds

\* Whenever a member's live set shrinks, its view restarts in the same step.
THEOREM LiveSetRestartsView == Spec => QuorumChangeRestartsView
<1>1. IInv /\ [Next]_vars => [\A n \in Nodes : isolated'[n] # isolated[n] => view'[n] > view[n]]_vars
  BY IsolationStep
<1> QED
  BY <1>1, MeshInvariant, PTL DEF Spec, QuorumChangeRestartsView
=============================================================================
