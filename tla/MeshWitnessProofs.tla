------------------------- MODULE MeshWitnessProofs --------------------------
(***************************************************************************)
(* Proofs about MeshWitness for any members, drives and fleets: no member  *)
(* answering from wiped media is accused of a failed proof and, in an      *)
(* epoch whose declared size is the whole fleet's, a member that becomes   *)
(* ready has heard of every drive it still counts, and some witness has    *)
(* read each of them.                                                      *)
(*                                                                         *)
(* Readiness compares two counts.  That the reports counted are those of   *)
(* the drives expected is a pigeonhole argument: a report names a drive of *)
(* its reporter, no two reports name one serial, and so as many reports as *)
(* drives are the reports of those drives.                                 *)
(***************************************************************************)
EXTENDS MeshWitness, FiniteSetTheorems, TLAPS

\* The declared fleet size leaves no member out.
WholeFleet == Cardinality(Nodes) <= Expected

----------------------------------------------------------------------------
(* The inductive invariant *)

Sent(m, s) == s \in drives[m] /\ reports_sent[m]

\* Every frame says what its sender knew, and what was so then is so still.
ReportsAreSent ==
  \A m \in Nodes, s \in Serials : Report(m, s) \in frames => Sent(m, s)

OwnersReported ==
  \A n \in Nodes, s \in Serials :
    owners[n][s] # Nobody => s \in drives[owners[n][s]] /\ reports_sent[owners[n][s]]

PendingAreReported ==
  \A n \in Nodes : \A s \in pending[n] : owners[n][s] # Nobody

ChallengesFollowReports ==
  \A n, m \in Nodes, s \in Serials : Challenge(n, m, s) \in frames => Sent(m, s)

ProofsAreOfMedia ==
  \A m, n \in Nodes, s \in Serials, ok \in BOOLEAN :
    Proof(m, n, s, ok) \in frames =>
      /\ Sent(m, s)
      /\ behavior[m] = IF ok THEN "Honest" ELSE "Liar"

TranscriptsAreOfMedia ==
  \A n \in Nodes, s \in Serials : Transcript(n, s) \in frames => \E m \in Honest : Sent(m, s)

FramesAreTrue ==
  /\ ReportsAreSent /\ OwnersReported /\ ChallengesFollowReports
  /\ ProofsAreOfMedia /\ TranscriptsAreOfMedia /\ FailedProofsAreReal

IInv == TypeOK /\ PendingAreReported /\ FramesAreTrue

\* A frozen epoch is everybody, and a sealing member has one.
FrozenWhole ==
  \A n \in Nodes : /\ frozen[n] \in {{}, Nodes}
                   /\ state[n] = "Sealing" => frozen[n] # {}

\* What a sealing member counted stays witnessed.
SealedWitnessed ==
  \A n \in Nodes : state[n] = "Sealing" => \A s \in Certifiable(n) : Witnessed(n, s)

Epoch == FrozenWhole /\ SealedWitnessed /\ ReadyCoversMembers

----------------------------------------------------------------------------
(* Frames *)

LEMMA FrameFields ==
  \A n, m, s, ok, why :
    /\ Report(n, s).type = "report" /\ Report(n, s).from = n /\ Report(n, s).serial = s
    /\ Challenge(n, m, s).type = "challenge" /\ Challenge(n, m, s).from = n
    /\ Challenge(n, m, s).to = m /\ Challenge(n, m, s).serial = s
    /\ Proof(m, n, s, ok).type = "proof" /\ Proof(m, n, s, ok).from = m
    /\ Proof(m, n, s, ok).to = n /\ Proof(m, n, s, ok).serial = s /\ Proof(m, n, s, ok).pattern = ok
    /\ Transcript(n, s).type = "transcript" /\ Transcript(n, s).from = n /\ Transcript(n, s).serial = s
    /\ Accuse(n, m, why).type = "accuse" /\ Accuse(n, m, why).from = n
    /\ Accuse(n, m, why).accused = m /\ Accuse(n, m, why).kind = why
BY DEF Report, Challenge, Proof, Transcript, Accuse

LEMMA FramesAreFrames ==
  \A n, m \in Nodes, s \in Serials, ok \in BOOLEAN, why \in Kinds :
    /\ Report(n, s) \in Frames /\ Challenge(n, m, s) \in Frames /\ Proof(m, n, s, ok) \in Frames
    /\ Transcript(n, s) \in Frames /\ Accuse(n, m, why) \in Frames
BY DEF Report, Challenge, Proof, Transcript, Accuse, Frames

\* A proof on the wire is the one its fields name.
LEMMA ProofOfItsFields ==
  ASSUME NEW f \in Frames, f.type = "proof"
  PROVE  f.pattern \in BOOLEAN /\ f = Proof(f.from, f.to, f.serial, f.pattern)
BY DEF Frames, Proof

LEMMA FleetTyped ==
  ASSUME TypeOK
  PROVE  /\ drives \in [Nodes -> SUBSET Serials]
         /\ behavior \in [Nodes -> {"Honest", "Liar", "Silent"}]
BY FleetsAssumption DEF TypeOK, drives, behavior

LEMMA NobodyIsNoMember == Nobody \notin Nodes
BY NodesAssumption DEF Nobody

----------------------------------------------------------------------------
(* Readiness: counting reports is counting drives *)

Pairs(S) == {ms \in S \X Serials : ms[2] \in drives[ms[1]]}

LEMMA PairsAreFinite ==
  ASSUME NEW S \in SUBSET Nodes
  PROVE  IsFiniteSet(Pairs(S)) /\ Advertised(S) = Cardinality(Pairs(S))
<1>1. IsFiniteSet(S \X Serials)
  BY NodesAssumption, FleetsAssumption, FS_Subset, FS_Product
<1>2. Pairs(S) \in SUBSET (S \X Serials)
  BY DEF Pairs
<1> QED BY <1>1, <1>2, FS_Subset DEF Pairs, Advertised

LEMMA PairsOfTheRest ==
  ASSUME NEW S \in SUBSET Nodes, NEW X \in SUBSET S
  PROVE  Advertised(S) - Advertised(X) = Cardinality(Pairs(S \ X))
<1>1. Pairs(S) \cap Pairs(X) = Pairs(X)
  BY DEF Pairs
<1>2. Pairs(S) \ Pairs(X) = Pairs(S \ X)
  BY DEF Pairs
<1>3. Cardinality(Pairs(S) \ Pairs(X)) = Cardinality(Pairs(S)) - Cardinality(Pairs(X))
  BY <1>1, PairsAreFinite, FS_Difference
<1> QED BY <1>2, <1>3, PairsAreFinite

\* As many reports as drives: the reports of these drives.
LEMMA ReadyCoversThen ==
  ASSUME TypeOK, FramesAreTrue, NEW n \in Nodes, frozen[n] = Nodes,
         Cardinality(Certifiable(n)) >= ExpectedDrives(n)
  PROVE  \A m \in frozen[n] \ isolated[n] : \A s \in drives[m] : owners[n][s] # Nobody
<1> DEFINE out  == (frozen[n] \cap isolated[n]) \ {n}
           due  == Pairs(Nodes \ out)
           cert == Certifiable(n)
           name == [s \in cert |-> <<owners[n][s], s>>]
<1>1. IsFiniteSet(due)
  BY PairsAreFinite
<1>2. IsFiniteSet(cert)
  <2>1. cert \in SUBSET Serials
    BY DEF Certifiable
  <2> QED BY <2>1, FleetsAssumption, FS_Subset
<1>3. Cardinality(cert) >= Cardinality(due)
  <2>1. out \in SUBSET Nodes
    OBVIOUS
  <2>2. ExpectedDrives(n) = Advertised(Nodes) - Advertised(out)
    BY DEF ExpectedDrives
  <2>3. Advertised(Nodes) - Advertised(out) = Cardinality(due)
    BY <2>1, PairsOfTheRest
  <2> QED BY <2>2, <2>3
<1>4. name \in Injection(cert, due)
  <2>1. \A s \in cert : name[s] \in due
    <3> SUFFICES ASSUME NEW s \in cert PROVE <<owners[n][s], s>> \in due
      OBVIOUS
    <3>1. s \in Serials /\ owners[n][s] \in Nodes /\ owners[n][s] \notin isolated[n]
      BY DEF Certifiable, TypeOK
    <3>2. s \in drives[owners[n][s]]
      BY <3>1, NobodyIsNoMember DEF FramesAreTrue, OwnersReported
    <3> QED BY <3>1, <3>2 DEF Pairs
  <2>2. \A s, t \in cert : name[s] = name[t] => s = t
    OBVIOUS
  <2>3. name \in [cert -> due]
    BY <2>1
  <2> HIDE DEF name, cert, due
  <2> QED BY <2>2, <2>3 DEF Injection, IsInjective
<1>5. name \in Surjection(cert, due)
  <2>1. Cardinality(cert) <= Cardinality(due)
    BY <1>1, <1>4, FS_Injection
  <2>2. Cardinality(cert) \in Nat /\ Cardinality(due) \in Nat
    BY <1>1, <1>2, FS_CardinalityType
  <2>3. Cardinality(cert) = Cardinality(due)
    BY <1>3, <2>1, <2>2
  <2> QED BY <1>1, <1>4, <2>3, FS_Injection
<1> SUFFICES ASSUME NEW m \in Nodes \ isolated[n], NEW s \in drives[m] PROVE owners[n][s] # Nobody
  OBVIOUS
<1>6. <<m, s>> \in due
  BY FleetTyped DEF Pairs
<1>7. PICK t \in cert : name[t] = <<m, s>>
  BY <1>5, <1>6 DEF Surjection
<1> QED BY <1>7 DEF Certifiable
----------------------------------------------------------------------------
(* The types *)

LEMMA TypedThen ==
  ASSUME fleet' \in Fleets, hello' \subseteq Nodes,
         peers' \in [Nodes -> SUBSET Nodes], \A n \in Nodes : n \notin peers'[n],
         frozen' \in [Nodes -> SUBSET Nodes],
         state' \in [Nodes -> {"Discovering", "Executing", "Sealing"}],
         reports_sent' \in [Nodes -> BOOLEAN],
         owners' \in [Nodes -> [Serials -> Nodes \cup {Nobody}]],
         pending' \in [Nodes -> SUBSET Serials], isolated' \in [Nodes -> SUBSET Nodes],
         frames' \subseteq Frames
  PROVE  TypeOK'
BY DEF TypeOK

LEMMA StepDiscoveringTyped ==
  ASSUME IInv, NEW n \in Nodes, step_discovering(n)
  PROVE  TypeOK' /\ PendingAreReported'
<1>1. frames' \subseteq Frames
  BY FramesAreFrames, FleetTyped DEF IInv, TypeOK, PendingAreReported, Kinds, step_discovering
<1>a. peers[n] \cup {n} \in SUBSET Nodes
  BY DEF IInv, TypeOK
<1>b. frozen' \in [Nodes -> SUBSET Nodes] /\ state' \in [Nodes -> {"Discovering", "Executing", "Sealing"}]
  <2>1. frozen' = frozen \/ frozen' = [frozen EXCEPT ![n] = peers[n] \cup {n}]
    BY DEF step_discovering, discoveryVars
  <2>2. state' = state \/ state' = [state EXCEPT ![n] = "Executing"]
    BY DEF step_discovering
  <2>3. frozen' \in [Nodes -> SUBSET Nodes]
    BY <1>a, <2>1 DEF IInv, TypeOK
  <2>4. state' \in [Nodes -> {"Discovering", "Executing", "Sealing"}]
    BY <2>2 DEF IInv, TypeOK
  <2> QED BY <2>3, <2>4
<1>c. hello' \subseteq Nodes /\ UNCHANGED <<fleet, peers, witnessVars, isolated>>
  BY DEF IInv, TypeOK, step_discovering, discoveryVars
<1>2. TypeOK'
  BY <1>1, <1>b, <1>c, TypedThen DEF IInv, TypeOK, witnessVars
<1>3. PendingAreReported'
  BY NobodyIsNoMember, FleetTyped DEF IInv, TypeOK, PendingAreReported, discoveryVars, witnessVars, step_discovering
<1> QED BY <1>2, <1>3

LEMMA IngestTyped ==
  ASSUME IInv, NEW n \in Nodes, NEW m \in Nodes, ingest(n, m)
  PROVE  TypeOK' /\ PendingAreReported'
<1>1. frames' \subseteq Frames
  BY FramesAreFrames, FleetTyped DEF IInv, TypeOK, PendingAreReported, Kinds, ingest
<1>2. TypeOK'
  BY <1>1, FleetTyped DEF IInv, TypeOK, Hears, discoveryVars, witnessVars, ingest
<1>3. PendingAreReported'
  BY NobodyIsNoMember, FleetTyped DEF IInv, TypeOK, PendingAreReported, discoveryVars, witnessVars, ingest
<1> QED BY <1>2, <1>3

LEMMA ReportDrivesTyped ==
  ASSUME IInv, NEW n \in Nodes, report_drives(n)
  PROVE  TypeOK' /\ PendingAreReported'
<1>1. frames' \subseteq Frames
  BY FramesAreFrames, FleetTyped DEF IInv, TypeOK, PendingAreReported, Kinds, report_drives
<1>2. TypeOK'
  BY <1>1, FleetTyped DEF IInv, TypeOK, Hears, discoveryVars, witnessVars, report_drives
<1>3. PendingAreReported'
  BY NobodyIsNoMember, FleetTyped DEF IInv, TypeOK, PendingAreReported, discoveryVars, witnessVars, report_drives
<1> QED BY <1>2, <1>3

LEMMA OnDriveReportTyped ==
  ASSUME IInv, NEW n \in Nodes, NEW m \in Nodes, NEW s \in Serials, on_drive_report(n, m, s)
  PROVE  TypeOK' /\ PendingAreReported'
<1>1. frames' \subseteq Frames
  BY FramesAreFrames, FleetTyped DEF IInv, TypeOK, PendingAreReported, Kinds, on_drive_report
<1>a. owners' \in [Nodes -> [Serials -> Nodes \cup {Nobody}]]
  <2>1. PICK row : row = [owners[n] EXCEPT ![s] = m]
    OBVIOUS
  <2>2. row \in [Serials -> Nodes \cup {Nobody}]
    BY <2>1 DEF IInv, TypeOK
  <2>3. owners' = owners \/ owners' = [owners EXCEPT ![n] = row]
    BY <2>1 DEF on_drive_report
  <2> QED BY <2>2, <2>3 DEF IInv, TypeOK
<1>b. \A k \in Nodes, t \in Serials : owners[k][t] # Nobody => owners'[k][t] # Nobody
  BY NobodyIsNoMember DEF IInv, TypeOK, on_drive_report
<1>c. \A k \in Nodes : \A t \in pending'[k] : t \in pending[k] \/ owners'[k][t] # Nobody
  BY NobodyIsNoMember DEF IInv, TypeOK, on_drive_report
<1>d. pending' \in [Nodes -> SUBSET Serials] /\ UNCHANGED <<fleet, discoveryVars, state, reports_sent, isolated>>
  BY DEF IInv, TypeOK, on_drive_report
<1>2. TypeOK'
  BY <1>1, <1>a, <1>d, TypedThen DEF IInv, TypeOK, discoveryVars
<1>3. PendingAreReported'
  BY <1>b, <1>c, <1>d DEF IInv, TypeOK, PendingAreReported
<1> QED BY <1>2, <1>3

LEMMA AnswerChallengeTyped ==
  ASSUME IInv, NEW n \in Nodes, NEW m \in Nodes, NEW s \in Serials, answer_challenge(n, m, s)
  PROVE  TypeOK' /\ PendingAreReported'
<1>1. frames' \subseteq Frames
  BY FramesAreFrames, FleetTyped DEF IInv, TypeOK, PendingAreReported, Kinds, answer_challenge
<1>2. TypeOK'
  BY <1>1, FleetTyped DEF IInv, TypeOK, Hears, discoveryVars, witnessVars, answer_challenge
<1>3. PendingAreReported'
  BY NobodyIsNoMember, FleetTyped DEF IInv, TypeOK, PendingAreReported, discoveryVars, witnessVars, answer_challenge
<1> QED BY <1>2, <1>3

LEMMA HandleProofTyped ==
  ASSUME IInv, NEW n \in Nodes, NEW m \in Nodes, NEW s \in Serials, handle_proof(n, m, s)
  PROVE  TypeOK' /\ PendingAreReported'
<1>1. frames' \subseteq Frames
  BY FramesAreFrames, FleetTyped DEF IInv, TypeOK, PendingAreReported, Kinds, handle_proof
<1>2. TypeOK'
  BY <1>1, FleetTyped DEF IInv, TypeOK, Hears, discoveryVars, witnessVars, handle_proof
<1>3. PendingAreReported'
  BY NobodyIsNoMember, FleetTyped DEF IInv, TypeOK, PendingAreReported, discoveryVars, witnessVars, handle_proof
<1> QED BY <1>2, <1>3

LEMMA ChallengeDeadlineTyped ==
  ASSUME IInv, NEW n \in Nodes, NEW s \in Serials, challenge_deadline(n, s)
  PROVE  TypeOK' /\ PendingAreReported'
<1>1. frames' \subseteq Frames
  BY FramesAreFrames, FleetTyped DEF IInv, TypeOK, PendingAreReported, Kinds, challenge_deadline
<1>2. TypeOK'
  BY <1>1, FleetTyped DEF IInv, TypeOK, Hears, discoveryVars, witnessVars, challenge_deadline
<1>3. PendingAreReported'
  BY NobodyIsNoMember, FleetTyped DEF IInv, TypeOK, PendingAreReported, discoveryVars, witnessVars, challenge_deadline
<1> QED BY <1>2, <1>3

LEMMA ReportDeadlineTyped ==
  ASSUME IInv, NEW n \in Nodes, NEW m \in Nodes, report_deadline(n, m)
  PROVE  TypeOK' /\ PendingAreReported'
<1>1. frames' \subseteq Frames
  BY FramesAreFrames, FleetTyped DEF IInv, TypeOK, PendingAreReported, Kinds, report_deadline
<1>2. TypeOK'
  BY <1>1, FleetTyped DEF IInv, TypeOK, Hears, discoveryVars, witnessVars, report_deadline
<1>3. PendingAreReported'
  BY NobodyIsNoMember, FleetTyped DEF IInv, TypeOK, PendingAreReported, discoveryVars, witnessVars, report_deadline
<1> QED BY <1>2, <1>3

LEMMA MaybeIsolateTyped ==
  ASSUME IInv, NEW n \in Nodes, NEW who \in Nodes, NEW why \in Kinds, maybe_isolate(n, who, why)
  PROVE  TypeOK' /\ PendingAreReported'
<1>1. frames' \subseteq Frames
  BY FramesAreFrames, FleetTyped DEF IInv, TypeOK, PendingAreReported, Kinds, maybe_isolate
<1>2. TypeOK'
  BY <1>1, FleetTyped DEF IInv, TypeOK, Hears, discoveryVars, witnessVars, maybe_isolate
<1>3. PendingAreReported'
  BY NobodyIsNoMember, FleetTyped DEF IInv, TypeOK, PendingAreReported, discoveryVars, witnessVars, maybe_isolate
<1> QED BY <1>2, <1>3

LEMMA BecomeReadyTyped ==
  ASSUME IInv, NEW n \in Nodes, become_ready(n)
  PROVE  TypeOK' /\ PendingAreReported'
<1>1. frames' \subseteq Frames
  BY FramesAreFrames, FleetTyped DEF IInv, TypeOK, PendingAreReported, Kinds, become_ready
<1>2. TypeOK'
  BY <1>1, FleetTyped DEF IInv, TypeOK, Hears, discoveryVars, witnessVars, become_ready
<1>3. PendingAreReported'
  BY NobodyIsNoMember, FleetTyped DEF IInv, TypeOK, PendingAreReported, discoveryVars, witnessVars, become_ready
<1> QED BY <1>2, <1>3
----------------------------------------------------------------------------
(* The frames *)

\* The frames stay true of a step that keeps the fleet and the reports sent, if
\* every frame and every owner it adds is true.
LEMMA TrueThen ==
  ASSUME FramesAreTrue, fleet' = fleet, \A m \in Nodes : reports_sent[m] => reports_sent'[m],
         \A m \in Nodes, s \in Serials : Report(m, s) \in frames' =>
           Report(m, s) \in frames \/ (s \in drives[m] /\ reports_sent'[m]),
         \A n \in Nodes, s \in Serials : owners'[n][s] # Nobody =>
           owners'[n][s] = owners[n][s] \/ (s \in drives[owners'[n][s]] /\ reports_sent'[owners'[n][s]]),
         \A n \in Nodes, s \in Serials : owners[n][s] # Nobody => owners[n][s] \in Nodes,
         \A n, m \in Nodes, s \in Serials : Challenge(n, m, s) \in frames' =>
           Challenge(n, m, s) \in frames \/ Sent(m, s),
         \A m, n \in Nodes, s \in Serials, ok \in BOOLEAN : Proof(m, n, s, ok) \in frames' =>
           \/ Proof(m, n, s, ok) \in frames
           \/ Sent(m, s) /\ behavior[m] = IF ok THEN "Honest" ELSE "Liar",
         \A n \in Nodes, s \in Serials : Transcript(n, s) \in frames' =>
           Transcript(n, s) \in frames \/ \E m \in Honest : Sent(m, s),
         \A n, m \in Nodes : Accuse(n, m, "failed_spot_proof") \in frames' =>
           Accuse(n, m, "failed_spot_proof") \in frames \/ behavior[m] = "Liar"
  PROVE  FramesAreTrue'
<1>1. drives' = drives /\ behavior' = behavior /\ Honest' = Honest
  BY DEF drives, behavior, Honest
<1>2. \A m \in Nodes, s \in Serials : Sent(m, s) => s \in drives[m] /\ reports_sent'[m]
  BY DEF Sent
<1>3. ReportsAreSent'
  BY <1>1, <1>2 DEF FramesAreTrue, ReportsAreSent, Sent
<1>4. OwnersReported'
  BY <1>1, <1>2 DEF FramesAreTrue, OwnersReported, Sent
<1>5. ChallengesFollowReports'
  BY <1>1, <1>2 DEF FramesAreTrue, ChallengesFollowReports, Sent
<1>6. ProofsAreOfMedia'
  BY <1>1, <1>2 DEF FramesAreTrue, ProofsAreOfMedia, Sent
<1>7. TranscriptsAreOfMedia'
  <2> SUFFICES ASSUME NEW n \in Nodes, NEW s \in Serials, Transcript(n, s) \in frames'
               PROVE  \E m \in Honest : s \in drives[m] /\ reports_sent'[m]
    BY <1>1 DEF TranscriptsAreOfMedia, Sent
  <2>1. \E m \in Honest : Sent(m, s)
    BY DEF FramesAreTrue, TranscriptsAreOfMedia
  <2> QED BY <1>2, <2>1 DEF Honest
<1>8. FailedProofsAreReal'
  BY <1>1 DEF FramesAreTrue, FailedProofsAreReal
<1> QED BY <1>3, <1>4, <1>5, <1>6, <1>7, <1>8 DEF FramesAreTrue

LEMMA StepDiscoveringTrue ==
  ASSUME IInv, NEW n \in Nodes, step_discovering(n)
  PROVE  FramesAreTrue'
<1>1. UNCHANGED <<fleet, reports_sent, owners, frames>>
  BY DEF step_discovering, witnessVars
<1>2. \A k \in Nodes, t \in Serials : owners[k][t] # Nobody => owners[k][t] \in Nodes
  BY DEF IInv, TypeOK
<1> QED BY <1>1, <1>2, TrueThen DEF IInv

LEMMA IngestTrue ==
  ASSUME IInv, NEW n \in Nodes, NEW m \in Nodes, ingest(n, m)
  PROVE  FramesAreTrue'
<1>1. UNCHANGED <<fleet, reports_sent, owners, frames>>
  BY DEF ingest, witnessVars
<1>2. \A k \in Nodes, t \in Serials : owners[k][t] # Nobody => owners[k][t] \in Nodes
  BY DEF IInv, TypeOK
<1> QED BY <1>1, <1>2, TrueThen DEF IInv

LEMMA ReportDrivesTrue ==
  ASSUME IInv, NEW n \in Nodes, report_drives(n)
  PROVE  FramesAreTrue'
<1>1. fleet' = fleet /\ \A k \in Nodes : reports_sent[k] => reports_sent'[k]
  BY DEF IInv, TypeOK, report_drives
<1>2. reports_sent'[n]
  BY DEF IInv, TypeOK, report_drives
<1>3. frames' = frames \cup {Report(n, s) : s \in drives[n]}
  BY DEF report_drives
<1>4. \A k \in Nodes, t \in Serials :
        owners'[k][t] = owners[k][t] \/ (owners'[k][t] = n /\ t \in drives[n])
  BY DEF IInv, TypeOK, report_drives
<1>5. \A k \in Nodes, t \in Serials : owners[k][t] # Nobody => owners[k][t] \in Nodes
  BY DEF IInv, TypeOK
<1>6. \A f \in frames' : f \in frames \/ (f.type = "report" /\ f.from = n /\ f.serial \in drives[n])
  BY <1>3, FrameFields
<1> QED BY <1>1, <1>2, <1>4, <1>5, <1>6, FrameFields, TrueThen DEF IInv

LEMMA OnDriveReportTrue ==
  ASSUME IInv, NEW n \in Nodes, NEW m \in Nodes, NEW s \in Serials, on_drive_report(n, m, s)
  PROVE  FramesAreTrue'
<1>1. UNCHANGED <<fleet, reports_sent>> /\ Sent(m, s)
  BY DEF IInv, FramesAreTrue, ReportsAreSent, on_drive_report
<1>2. frames' \in {frames \cup {Challenge(n, m, s)}, frames \cup {Accuse(n, m, "duplicate_serial")}}
  BY DEF on_drive_report
<1>3. \A k \in Nodes, t \in Serials :
        owners'[k][t] = owners[k][t] \/ (owners'[k][t] = m /\ t = s)
  <2>1. PICK row : row = [owners[n] EXCEPT ![s] = m]
    OBVIOUS
  <2>2. row = [t \in Serials |-> IF t = s THEN m ELSE owners[n][t]]
    BY <2>1 DEF IInv, TypeOK
  <2>3. owners' = owners \/ owners' = [owners EXCEPT ![n] = row]
    BY <2>1 DEF on_drive_report
  <2> QED BY <2>2, <2>3 DEF IInv, TypeOK
<1>4. \A k \in Nodes, t \in Serials : owners[k][t] # Nobody => owners[k][t] \in Nodes
  BY DEF IInv, TypeOK
<1>5. \A f \in frames' : \/ f \in frames
                         \/ f.type = "challenge" /\ f.to = m /\ f.serial = s
                         \/ f.type = "accuse" /\ f.kind = "duplicate_serial"
  <2>1. CASE frames' = frames \cup {Challenge(n, m, s)}
    BY <2>1, FrameFields
  <2>2. CASE frames' = frames \cup {Accuse(n, m, "duplicate_serial")}
    BY <2>2, FrameFields
  <2> QED BY <1>2, <2>1, <2>2
<1> QED BY <1>1, <1>3, <1>4, <1>5, FrameFields, TrueThen DEF IInv, Sent

LEMMA AnswerChallengeTrue ==
  ASSUME IInv, NEW n \in Nodes, NEW m \in Nodes, NEW s \in Serials, answer_challenge(n, m, s)
  PROVE  FramesAreTrue'
<1>1. UNCHANGED <<fleet, reports_sent, owners>> /\ Sent(n, s)
  BY DEF IInv, FramesAreTrue, ChallengesFollowReports, answer_challenge, witnessVars
<1>2. \A k \in Nodes, t \in Serials : owners[k][t] # Nobody => owners[k][t] \in Nodes
  BY DEF IInv, TypeOK
<1>3. PICK yes \in BOOLEAN : yes <=> behavior[n] # "Liar"
  OBVIOUS
<1>4. frames' = frames \cup {Proof(n, m, s, yes)}
  BY <1>3 DEF answer_challenge
<1>5. behavior[n] = IF yes THEN "Honest" ELSE "Liar"
  BY <1>3, FleetTyped DEF IInv, answer_challenge
<1>6. \A f \in frames' : f \in frames \/ (f.type = "proof" /\ f.from = n /\ f.serial = s /\ f.pattern = yes)
  BY <1>4, FrameFields
<1> QED BY <1>1, <1>2, <1>5, <1>6, FrameFields, TrueThen DEF IInv

LEMMA HandleProofTrue ==
  ASSUME IInv, NEW n \in Nodes, NEW m \in Nodes, NEW s \in Serials, handle_proof(n, m, s)
  PROVE  FramesAreTrue'
<1>1. UNCHANGED <<fleet, reports_sent, owners>>
  BY DEF handle_proof
<1>2. \A k \in Nodes, t \in Serials : owners[k][t] # Nobody => owners[k][t] \in Nodes
  BY DEF IInv, TypeOK
<1>3. PICK proof \in frames :
        /\ proof.type = "proof" /\ proof.from = m /\ proof.to = n /\ proof.serial = s
        /\ \/ frames' = frames
           \/ frames' = frames \cup {Transcript(n, s)} /\ proof.pattern
           \/ frames' = frames \cup {Accuse(n, m, "failed_spot_proof")} /\ ~proof.pattern
  BY DEF handle_proof, Passes
<1>4. /\ Sent(m, s)
      /\ behavior[m] = IF proof.pattern THEN "Honest" ELSE "Liar"
  <2>1. proof \in Frames
    BY DEF IInv, TypeOK
  <2> QED BY <1>3, <2>1, ProofOfItsFields DEF IInv, FramesAreTrue, ProofsAreOfMedia
<1>5. \A f \in frames' : \/ f \in frames
                         \/ f.type = "transcript" /\ f.serial = s /\ behavior[m] = "Honest"
                         \/ f.type = "accuse" /\ f.accused = m /\ behavior[m] = "Liar"
  <2>1. CASE frames' = frames
    BY <2>1
  <2>2. CASE frames' = frames \cup {Transcript(n, s)} /\ proof.pattern
    <3>1. behavior[m] = "Honest"
      BY <1>4, <2>2
    <3> QED BY <2>2, <3>1, FrameFields
  <2>3. CASE frames' = frames \cup {Accuse(n, m, "failed_spot_proof")} /\ ~proof.pattern
    <3>1. behavior[m] = "Liar"
      BY <1>4, <2>3
    <3> QED BY <2>3, <3>1, FrameFields
  <2> QED BY <1>3, <2>1, <2>2, <2>3
<1>6. behavior[m] = "Honest" => m \in Honest
  BY DEF Honest
<1> QED BY <1>1, <1>2, <1>4, <1>5, <1>6, FrameFields, TrueThen DEF IInv

LEMMA ChallengeDeadlineTrue ==
  ASSUME IInv, NEW n \in Nodes, NEW s \in Serials, challenge_deadline(n, s)
  PROVE  FramesAreTrue'
<1>1. UNCHANGED <<fleet, reports_sent, owners>>
  BY DEF challenge_deadline, witnessVars
<1>2. \A k \in Nodes, t \in Serials : owners[k][t] # Nobody => owners[k][t] \in Nodes
  BY DEF IInv, TypeOK
<1>3. PICK x \in Nodes : frames' \in {frames, frames \cup {Accuse(n, x, "timeout")}}
  BY DEF IInv, TypeOK, PendingAreReported, challenge_deadline
<1> QED BY <1>1, <1>2, <1>3, FrameFields, TrueThen DEF IInv

LEMMA ReportDeadlineTrue ==
  ASSUME IInv, NEW n \in Nodes, NEW m \in Nodes, report_deadline(n, m)
  PROVE  FramesAreTrue'
<1>1. UNCHANGED <<fleet, reports_sent, owners>>
  BY DEF report_deadline, witnessVars
<1>2. \A k \in Nodes, t \in Serials : owners[k][t] # Nobody => owners[k][t] \in Nodes
  BY DEF IInv, TypeOK
<1>3. PICK x \in Nodes : frames' \in {frames, frames \cup {Accuse(n, x, "timeout")}}
  BY DEF IInv, TypeOK, PendingAreReported, report_deadline
<1> QED BY <1>1, <1>2, <1>3, FrameFields, TrueThen DEF IInv

LEMMA MaybeIsolateTrue ==
  ASSUME IInv, NEW n \in Nodes, NEW who \in Nodes, NEW why \in Kinds, maybe_isolate(n, who, why)
  PROVE  FramesAreTrue'
<1>1. UNCHANGED <<fleet, reports_sent, owners, frames>>
  BY DEF maybe_isolate, witnessVars
<1>2. \A k \in Nodes, t \in Serials : owners[k][t] # Nobody => owners[k][t] \in Nodes
  BY DEF IInv, TypeOK
<1> QED BY <1>1, <1>2, TrueThen DEF IInv

LEMMA BecomeReadyTrue ==
  ASSUME IInv, NEW n \in Nodes, become_ready(n)
  PROVE  FramesAreTrue'
<1>1. UNCHANGED <<fleet, reports_sent, owners, frames>>
  BY DEF become_ready, witnessVars
<1>2. \A k \in Nodes, t \in Serials : owners[k][t] # Nobody => owners[k][t] \in Nodes
  BY DEF IInv, TypeOK
<1> QED BY <1>1, <1>2, TrueThen DEF IInv
----------------------------------------------------------------------------
(* The epoch *)

\* A sealing member stays certain of what it was certain of.
LEMMA EpochThen ==
  ASSUME Epoch, fleet' = fleet, frames \subseteq frames',
         \A k \in Nodes : isolated[k] \subseteq isolated'[k],
         \A k \in Nodes : \/ frozen'[k] = frozen[k]
                          \/ frozen[k] = {} /\ frozen'[k] = Nodes,
         \A k \in Nodes : state'[k] = "Sealing" => state[k] = "Sealing" /\ owners'[k] = owners[k]
  PROVE  Epoch'
<1>1. drives' = drives
  BY DEF drives
<1>2. FrozenWhole'
  BY DEF Epoch, FrozenWhole
<1>3. SealedWitnessed'
  <2> SUFFICES ASSUME NEW n \in Nodes, state'[n] = "Sealing", NEW s \in Certifiable(n)'
               PROVE  Witnessed(n, s)'
    BY DEF SealedWitnessed
  <2>1. state[n] = "Sealing" /\ owners'[n] = owners[n] /\ s \in Certifiable(n)
    BY DEF Certifiable
  <2>2. Witnessed(n, s)
    BY <2>1 DEF Epoch, SealedWitnessed
  <2>3. PICK w \in Nodes \ {owners[n][s]} : Transcript(w, s) \in frames
    BY <2>2 DEF Witnessed
  <2>4. Transcript(w, s) \in frames'
    BY <2>3
  <2> QED BY <2>1, <2>4 DEF Witnessed
<1>4. ReadyCoversMembers'
  BY <1>1 DEF Epoch, FrozenWhole, ReadyCoversMembers
<1> QED BY <1>2, <1>3, <1>4 DEF Epoch

\* In a fleet of the declared size nobody waits for the silence window.
LEMMA SomebodyIsExpected ==
  ASSUME WholeFleet, NEW n \in Nodes
  PROVE  Expected # 0
<1>1. Cardinality(Nodes) \in Nat /\ Cardinality(Nodes) # 0
  BY NodesAssumption, FS_CardinalityType, FS_EmptySet
<1> QED BY <1>1, DiscoveryAssumption DEF WholeFleet

\* Who has heard enough members has heard them all.
LEMMA EnoughIsEverybody ==
  ASSUME WholeFleet, NEW S \in SUBSET Nodes, Enough(Cardinality(S))
  PROVE  S = Nodes
<1>1. Cardinality(S) <= Cardinality(Nodes) /\ Cardinality(S) \in Nat /\ Cardinality(Nodes) \in Nat
  BY NodesAssumption, FS_Subset, FS_CardinalityType
<1>2. Cardinality(S) = Cardinality(Nodes)
  BY <1>1, DiscoveryAssumption DEF WholeFleet, Enough
<1> QED BY <1>2, NodesAssumption, FS_Subset

LEMMA PeersAndItself ==
  ASSUME NEW S \in SUBSET Nodes, NEW n \in Nodes \ S, WholeFleet, Enough(Cardinality(S) + 1)
  PROVE  S \cup {n} = Nodes
<1>1. Cardinality(S \cup {n}) = Cardinality(S) + 1
  BY NodesAssumption, FS_Subset, FS_AddElement
<1>2. S \cup {n} \in SUBSET Nodes /\ Enough(Cardinality(S \cup {n}))
  BY <1>1
<1> QED BY <1>2, EnoughIsEverybody

LEMMA StepDiscoveringKeepsEpoch ==
  ASSUME WholeFleet, IInv, Epoch, NEW n \in Nodes, step_discovering(n)
  PROVE  Epoch'
<1>1. UNCHANGED <<fleet, frozen, frames, isolated, owners>>
  BY SomebodyIsExpected DEF step_discovering, discoveryVars, witnessVars
<1>2. \A k \in Nodes : state'[k] = "Sealing" => state[k] = "Sealing"
  BY DEF IInv, TypeOK, step_discovering
<1> QED BY <1>1, <1>2, EpochThen

LEMMA IngestKeepsEpoch ==
  ASSUME WholeFleet, IInv, Epoch, NEW n \in Nodes, NEW m \in Nodes, ingest(n, m)
  PROVE  Epoch'
<1>1. UNCHANGED <<fleet, frames, isolated, owners, state>>
  BY DEF ingest, witnessVars
<1>2. peers'[n] \in SUBSET Nodes /\ n \notin peers'[n]
  BY DEF IInv, TypeOK, ingest, Hears
<1>3. \/ frozen' = frozen
      \/ frozen[n] = {} /\ Enough(Cardinality(peers'[n]) + 1)
         /\ frozen' = [frozen EXCEPT ![n] = peers'[n] \cup {n}]
  BY DEF ingest
<1>4. \A k \in Nodes : \/ frozen'[k] = frozen[k]
                       \/ frozen[k] = {} /\ frozen'[k] = Nodes
  <2>1. CASE frozen' = frozen
    BY <2>1
  <2>2. CASE /\ frozen[n] = {} /\ Enough(Cardinality(peers'[n]) + 1)
             /\ frozen' = [frozen EXCEPT ![n] = peers'[n] \cup {n}]
    <3>1. peers'[n] \cup {n} = Nodes
      BY <1>2, <2>2, PeersAndItself
    <3> QED BY <2>2, <3>1 DEF IInv, TypeOK
  <2> QED BY <1>3, <2>1, <2>2
<1> QED BY <1>1, <1>4, EpochThen

LEMMA ReportDrivesKeepsEpoch ==
  ASSUME IInv, Epoch, NEW n \in Nodes, report_drives(n)
  PROVE  Epoch'
<1>1. UNCHANGED <<fleet, isolated, frozen, state>> /\ frames \subseteq frames' /\ state[n] = "Executing"
  BY DEF report_drives, discoveryVars
<1>2. \A k \in Nodes : k # n => owners'[k] = owners[k]
  BY DEF IInv, TypeOK, report_drives
<1> QED BY <1>1, <1>2, EpochThen

\* A sealing member that hears a report has heard of its drive before.
LEMMA OnDriveReportKeepsEpoch ==
  ASSUME IInv, Epoch, NEW n \in Nodes, NEW m \in Nodes, NEW s \in Serials, on_drive_report(n, m, s)
  PROVE  Epoch'
<1>1. UNCHANGED <<fleet, isolated, frozen, state>> /\ frames \subseteq frames'
  BY DEF on_drive_report, discoveryVars
<1>2. \A k \in Nodes : k # n => owners'[k] = owners[k]
  BY DEF IInv, TypeOK, on_drive_report
<1>3. state[n] = "Sealing" => owners' = owners
  <2> SUFFICES ASSUME state[n] = "Sealing" PROVE owners' = owners
    OBVIOUS
  <2>1. s \in drives[m] /\ m \notin isolated[n]
    BY DEF IInv, FramesAreTrue, ReportsAreSent, Sent, on_drive_report, Hears
  <2>2. m \in frozen[n] \ isolated[n]
    BY <2>1 DEF Epoch, FrozenWhole
  <2>3. owners[n][s] # Nobody
    BY <2>1, <2>2 DEF Epoch, ReadyCoversMembers
  <2> QED BY <2>3 DEF on_drive_report
<1> QED BY <1>1, <1>2, <1>3, EpochThen

\* A step that neither seals nor takes a report.
LEMMA ElsewhereKeepsEpoch ==
  ASSUME IInv, Epoch, UNCHANGED <<fleet, frozen, state, owners>>,
         frames \subseteq frames', \A k \in Nodes : isolated[k] \subseteq isolated'[k]
  PROVE  Epoch'
BY EpochThen

LEMMA BecomeReadyKeepsEpoch ==
  ASSUME IInv, Epoch, NEW n \in Nodes, become_ready(n)
  PROVE  Epoch'
<1>1. UNCHANGED <<fleet, frozen, isolated, owners, frames>>
  BY DEF become_ready, discoveryVars, witnessVars
<1>2. frozen[n] = Nodes
  BY DEF become_ready, Epoch, FrozenWhole
<1>3. \A k \in Nodes : state'[k] = "Sealing" => k = n \/ state[k] = "Sealing"
  BY DEF IInv, TypeOK, become_ready
<1>4. \A s \in Certifiable(n) : Witnessed(n, s)
  BY DEF become_ready, is_ready
<1>5. \A m \in frozen[n] \ isolated[n] : \A s \in drives[m] : owners[n][s] # Nobody
  BY <1>2, ReadyCoversThen DEF IInv, become_ready, is_ready
<1>6. FrozenWhole'
  BY <1>1, <1>2, <1>3 DEF Epoch, FrozenWhole
<1>7. SealedWitnessed'
  BY <1>1, <1>3, <1>4 DEF Epoch, SealedWitnessed, Certifiable, Witnessed
<1>8. ReadyCoversMembers'
  BY <1>1, <1>3, <1>5 DEF Epoch, ReadyCoversMembers, drives
<1> QED BY <1>6, <1>7, <1>8 DEF Epoch

----------------------------------------------------------------------------
(* The invariant *)

LEMMA StartsTrue == Init => IInv
<1> SUFFICES ASSUME Init PROVE IInv
  OBVIOUS
<1>1. fleet.met \in SUBSET Nodes
  BY FleetsAssumption DEF Init
<1>2. TypeOK
  BY <1>1 DEF Init, TypeOK
<1>3. PendingAreReported
  BY DEF Init, PendingAreReported
<1>4. FramesAreTrue
  BY DEF Init, FramesAreTrue, ReportsAreSent, OwnersReported, ChallengesFollowReports,
         ProofsAreOfMedia, TranscriptsAreOfMedia, FailedProofsAreReal
<1> QED BY <1>2, <1>3, <1>4 DEF IInv

LEMMA StepsTrue == IInv /\ [Next]_vars => IInv'
<1> SUFFICES ASSUME IInv, [Next]_vars PROVE TypeOK' /\ PendingAreReported' /\ FramesAreTrue'
  BY DEF IInv
<1>1. ASSUME NEW n \in Nodes, Discover(n) PROVE TypeOK' /\ PendingAreReported' /\ FramesAreTrue'
  BY <1>1, StepDiscoveringTyped, StepDiscoveringTrue, IngestTyped, IngestTrue DEF Discover
<1>2. ASSUME NEW n \in Nodes, Witness(n) PROVE TypeOK' /\ PendingAreReported' /\ FramesAreTrue'
  BY <1>2, ReportDrivesTyped, ReportDrivesTrue, OnDriveReportTyped, OnDriveReportTrue,
     AnswerChallengeTyped, AnswerChallengeTrue, HandleProofTyped, HandleProofTrue DEF Witness
<1>3. ASSUME NEW n \in Nodes, Deadline(n) PROVE TypeOK' /\ PendingAreReported' /\ FramesAreTrue'
  BY <1>3, ChallengeDeadlineTyped, ChallengeDeadlineTrue, ReportDeadlineTyped, ReportDeadlineTrue
     DEF Deadline
<1>4. ASSUME NEW n \in Nodes, Convict(n) PROVE TypeOK' /\ PendingAreReported' /\ FramesAreTrue'
  BY <1>4, MaybeIsolateTyped, MaybeIsolateTrue DEF Convict, Kinds
<1>5. ASSUME NEW n \in Nodes, become_ready(n) PROVE TypeOK' /\ PendingAreReported' /\ FramesAreTrue'
  BY <1>5, BecomeReadyTyped, BecomeReadyTrue
<1>6. CASE UNCHANGED vars
  <2>1. TypeOK' /\ PendingAreReported'
    BY <1>6 DEF vars, discoveryVars, witnessVars, IInv, TypeOK, PendingAreReported
  <2>2. FramesAreTrue'
    BY <1>6 DEF vars, discoveryVars, witnessVars, IInv, FramesAreTrue, ReportsAreSent, OwnersReported,
       ChallengesFollowReports, ProofsAreOfMedia, TranscriptsAreOfMedia, FailedProofsAreReal,
       Sent, drives, behavior, Honest
  <2> QED BY <2>1, <2>2
<1> QED BY <1>1, <1>2, <1>3, <1>4, <1>5, <1>6 DEF Next, Progress

LEMMA StartsInTheEpoch == WholeFleet /\ Init => Epoch
<1> SUFFICES ASSUME WholeFleet, Init PROVE Epoch
  OBVIOUS
<1>1. FrozenWhole
  <2>1. hello \in SUBSET Nodes
    BY FleetsAssumption DEF Init
  <2>2. \A n \in Nodes : frozen[n] = {} \/ (frozen[n] = hello /\ Enough(Cardinality(hello)))
    BY DEF Init
  <2>3. Enough(Cardinality(hello)) => hello = Nodes
    BY <2>1, EnoughIsEverybody
  <2> QED BY <2>2, <2>3 DEF Init, FrozenWhole
<1> QED BY <1>1 DEF Init, Epoch, SealedWitnessed, ReadyCoversMembers

LEMMA StepsInTheEpoch == WholeFleet /\ IInv /\ Epoch /\ [Next]_vars => Epoch'
<1> SUFFICES ASSUME WholeFleet, IInv, Epoch, [Next]_vars PROVE Epoch'
  OBVIOUS
<1>1. ASSUME NEW n \in Nodes, Discover(n) PROVE Epoch'
  BY <1>1, StepDiscoveringKeepsEpoch, IngestKeepsEpoch DEF Discover
<1>2. ASSUME NEW n \in Nodes, Witness(n) PROVE Epoch'
  <2>1. ASSUME NEW m \in Nodes, NEW s \in Serials, answer_challenge(n, m, s) \/ handle_proof(n, m, s)
        PROVE  Epoch'
    BY <2>1, ElsewhereKeepsEpoch DEF answer_challenge, handle_proof, discoveryVars, witnessVars
  <2> QED BY <1>2, <2>1, ReportDrivesKeepsEpoch, OnDriveReportKeepsEpoch DEF Witness
<1>3. ASSUME NEW n \in Nodes, Deadline(n) PROVE Epoch'
  <2>1. ASSUME NEW s \in Serials, challenge_deadline(n, s) PROVE Epoch'
    BY <2>1, ElsewhereKeepsEpoch DEF challenge_deadline, discoveryVars
  <2>2. ASSUME NEW m \in Nodes, report_deadline(n, m) PROVE Epoch'
    BY <2>2, ElsewhereKeepsEpoch DEF report_deadline, discoveryVars, witnessVars
  <2> QED BY <1>3, <2>1, <2>2 DEF Deadline
<1>4. ASSUME NEW n \in Nodes, Convict(n) PROVE Epoch'
  <2>1. PICK who \in Nodes, why \in Kinds : maybe_isolate(n, who, why)
    BY <1>4 DEF Convict, Kinds
  <2>2. \A k \in Nodes : isolated[k] \subseteq isolated'[k]
    BY <2>1 DEF maybe_isolate, IInv, TypeOK
  <2> QED BY <2>1, <2>2, ElsewhereKeepsEpoch DEF maybe_isolate, discoveryVars
<1>5. ASSUME NEW n \in Nodes, become_ready(n) PROVE Epoch'
  BY <1>5, BecomeReadyKeepsEpoch
<1>6. CASE UNCHANGED vars
  BY <1>6, ElsewhereKeepsEpoch DEF vars, discoveryVars, witnessVars
<1> QED BY <1>1, <1>2, <1>3, <1>4, <1>5, <1>6 DEF Next, Progress

\* Every frame on the segment and every entry of a store is true of the media
\* (gossip.rs: ingest; mesh.rs: handle_proof), whoever lies or is silent.
THEOREM FramesTell == Spec => []IInv
<1> QED BY StartsTrue, StepsTrue, PTL DEF Spec

\* The state has its type, and every challenge a member awaits is of a report.
THEOREM TypeCorrect == Spec => []TypeOK
<1>1. IInv => TypeOK
  BY DEF IInv
<1> QED BY <1>1, FramesTell, PTL

\* Whatever is late, nobody whose media hold the pattern is accused of a failed
\* proof, however many members the fleet has beside the declared ones.
THEOREM NoFalseAccusation == Spec => []FailedProofsAreReal
<1>1. IInv => FailedProofsAreReal
  BY DEF IInv, FramesAreTrue
<1> QED BY <1>1, FramesTell, PTL

LEMMA VerdictsOfTheEpoch == IInv /\ Epoch => VerdictsAreTrue
<1> SUFFICES ASSUME IInv, Epoch PROVE VerdictsAreTrue
  OBVIOUS
<1>1. ReadyDrivesWiped
  <2> SUFFICES ASSUME NEW n \in Nodes, state[n] = "Sealing", NEW s \in Certifiable(n)
               PROVE  \E m \in Honest : s \in drives[m] /\ reports_sent[m]
    BY DEF ReadyDrivesWiped
  <2>1. s \in Serials
    BY DEF Certifiable
  <2>2. PICK w \in Nodes : Transcript(w, s) \in frames
    BY DEF Epoch, SealedWitnessed, Witnessed
  <2> QED BY <2>1, <2>2 DEF IInv, FramesAreTrue, TranscriptsAreOfMedia, Sent
<1>2. MembershipAgrees
  BY DEF Epoch, FrozenWhole, MembershipAgrees
<1> QED BY <1>1, <1>2 DEF IInv, FramesAreTrue, Epoch, VerdictsAreTrue, ReadyIsWitnessed

\* In an epoch of the declared size, what a ready member certifies was read by a
\* witness, no drive it counts is missing, and all members froze the same epoch
\* (mesh.rs: is_ready; discovery.rs: check_freeze).
THEOREM TrueVerdicts ==
  ASSUME WholeFleet
  PROVE  Spec => []VerdictsAreTrue
<1>1. Init => IInv /\ Epoch
  BY StartsTrue, StartsInTheEpoch
<1>2. (IInv /\ Epoch) /\ [Next]_vars => IInv' /\ Epoch'
  BY StepsTrue, StepsInTheEpoch
<1> QED BY <1>1, <1>2, VerdictsOfTheEpoch, PTL DEF Spec
=============================================================================
