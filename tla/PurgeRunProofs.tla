--------------------------- MODULE PurgeRunProofs ---------------------------
(***************************************************************************)
(* Proofs about PurgeRun for any families of controllers and any poll      *)
(* budget: the evidence a certificate rests on is the drive's own, no      *)
(* drive is touched without the lock, the journal and the operator's word, *)
(* the ladder steps down only from an untouched drive, and a rejected      *)
(* security erase leaves no password nobody knows.                         *)
(***************************************************************************)
EXTENDS PurgeRun, TLAPS

----------------------------------------------------------------------------
(* The inductive invariant *)

Records   == {"Header", "Armed", "Failed", "Verify", "Completed"}
Unwritten == BeforeLastLook \cup {"Arm", "Journal"}
Laddering == {"Issue", "Poll", "Prepare", "EraseUnit", "Repair"}
Evident   == {"Readback", "Thermal", "Assemble"}
Over      == {"Close", "Done"}

\* A family's menu holds the mechanism asked for, from validate_for_bus to the ladder.
OnTheMenu == pc \in Unwritten \cup {"Intake"} /\ pc \notin {"Start", "Probe"}
               => run.request \in Menu(run.bus)

\* Past the prompts no run is a dry one, and none was signalled in time.
Consented ==
  /\ pc \in {"Prompt", "Token"} => ~run.dryRun
  /\ pc \notin BeforeLastLook \cup Over => ~run.dryRun /\ signal # "early"

\* Nothing is written before the journal is made, nothing sent before a rung is
\* issued, and on ATA and SCSI a rung is only ever issued to a drive that took none
\* before.
Untouched ==
  /\ pc \in Unwritten => journal = <<>>
  /\ pc \in Unwritten \cup {"Intake"} => ~Touched
  /\ pc = "Issue" /\ run.bus # "nvme" => ~Touched

Begun == Len(journal) >= 2 /\ journal[1] = "Header" /\ journal[2] = "Armed"

\* From the ladder on, the node is locked and the journal says so.
UnderLock ==
  /\ pc \in {"Journal", "Intake"} \cup Laddering \cup Evident => lock
  /\ pc \in {"Intake"} \cup Laddering \cup Evident => Begun

\* Where the ladder stands at each of its steps, and what it has returned.
Stands ==
  /\ pc \in Unwritten \cup {"Intake"} => mech = "none"
  /\ pc \in Unwritten \cup {"Intake"} \cup Laddering => ladder = "none"
  /\ pc = "Issue" => mech # "none"
  /\ pc = "Poll" => mech \in Sanitizes
  /\ pc \in {"Prepare", "EraseUnit", "Repair"} => mech \in SecurityErases
  /\ pc = "Readback" => mech = "formatCrypto"
  /\ pc \in Evident => ladder = "ok"
  /\ pc = "Thermal" /\ mech = "formatCrypto" => SamplesRead /\ SamplesZero

\* On ATA and SCSI a sanitize goes on in the drive only where the ladder stands on
\* a sanitize: no rung after it can be overtaken by the end of an earlier one.
NoneOvertakes == run.bus # "nvme" /\ mech \notin Sanitizes => drive.sanitize \in Unstarted

\* The status loop waits for a sanitize of this run, unless a denial was taken for
\* its start; and an attention comes of a reset.
Polled ==
  /\ pc = "Poll" => drive.denied \/ drive.sanitize \notin Unstarted
  /\ drive.attention => drive.reset

\* The command has no exit status before it is over.
NoExitYet == pc \notin Over => exit = "none"

\* The type invariant by parts: what was fixed at the start, the drive, where the
\* command is, what it has gathered, and the host.
DriveRec  == [caps : SUBSET Mechanisms, frozen : BOOLEAN, locked : BOOLEAN, password : Passwords,
              hidden : {"none", "hpa", "dco"}, media : Media, sanitize : Sanitizing,
              attention : BOOLEAN, senseAsData : BOOLEAN, denied : BOOLEAN, reset : BOOLEAN]
StepTyped == pc \in Steps /\ exit \in Exits /\ ladder \in {"none", "ok", "failed"}
RungTyped == mech \in Rungs(run.bus) \cup {"none"} /\ polls \in 0 .. MaxPolls
FlagTyped == critical \in BOOLEAN /\ disclosed \in BOOLEAN /\ certificate \in BOOLEAN /\ lock \in BOOLEAN
HostTyped == /\ stages \subseteq {"dco", "hpa"} /\ port \in {"on", "auto"}
             /\ session \in {"none", "open", "closed", "unacked"}
             /\ signal \in {"none", "early", "late"}

Typed == /\ run \in Runs /\ drive \in DriveRec /\ journal \in Seq(Records)
         /\ StepTyped /\ RungTyped /\ FlagTyped /\ HostTyped

Placed == OnTheMenu /\ Consented /\ Untouched /\ UnderLock /\ Stands /\ NoneOvertakes /\ Polled /\ NoExitYet

IInv == Typed /\ Placed /\ EvidenceIsReal /\ ErasureHasAuthority
----------------------------------------------------------------------------
(* The types *)

LEMMA RunIsOfABus == Typed => run.bus \in {"nvme", "ata", "scsi"}
BY PurgeAssumption DEF Typed, Runs

LEMMA TypedIsTypeOK == Typed => TypeOK
<1> SUFFICES ASSUME Typed PROVE TypeOK
  OBVIOUS
<1>1. {critical, disclosed, certificate, lock} \subseteq BOOLEAN
  BY DEF Typed, FlagTyped
<1> QED BY <1>1 DEF Typed, StepTyped, RungTyped, HostTyped, DriveRec, Records, TypeOK

----------------------------------------------------------------------------
(* The ladders *)

LEMMA RungsOfNvme == /\ DOMAIN Ladder["nvme"] = 1 .. 4
                     /\ Rungs("nvme") = {"crypto", "block", "formatCrypto", "overwrite"}
BY DEF Ladder, Rungs

LEMMA RungsOfAta == /\ DOMAIN Ladder["ata"] = 1 .. 4
                    /\ Rungs("ata") = {"crypto", "block", "enhanced", "normal"}
BY DEF Ladder, Rungs

LEMMA RungsOfScsi == /\ DOMAIN Ladder["scsi"] = 1 .. 3
                     /\ Rungs("scsi") = {"crypto", "block", "formatUnit"}
BY DEF Ladder, Rungs

\* A rung that may be rejected for the next is never its family's last.
LEMMA NextRungIsARung ==
  ASSUME NEW bus \in {"nvme", "ata", "scsi"}, NEW m \in Rungs(bus), m \in Sanitizes \cup {"formatCrypto"}
  PROVE  NextRung(bus, m) \in Rungs(bus)
<1> DEFINE i == CHOOSE k \in DOMAIN Ladder[bus] : Ladder[bus][k] = m
<1>1. i \in DOMAIN Ladder[bus] /\ Ladder[bus][i] = m
  BY DEF Rungs
<1>2. i + 1 \in DOMAIN Ladder[bus]
  BY <1>1, RungsOfNvme, RungsOfAta, RungsOfScsi DEF Ladder, Sanitizes
<1>3. NextRung(bus, m) = Ladder[bus][i + 1]
  BY DEF NextRung
<1> QED BY <1>2, <1>3 DEF Rungs

\* The ladder starts on a rung of the family, or on none.
LEMMA PrimaryIsARung ==
  ASSUME NEW r, r.bus \in {"nvme", "ata", "scsi"}, r.request \in Menu(r.bus), NEW caps
  PROVE  Primary(r, caps) \in Rungs(r.bus) \cup {"none"}
<1> DEFINE L    == Ladder[r.bus]
           First(k) == /\ L[k] \in caps
                       /\ \A j \in 1 .. k - 1 : L[j] \notin caps
<1>1. CASE r.request # "auto"
  BY <1>1 DEF Primary, Menu
<1>2. CASE r.request = "auto" /\ r.bus = "scsi"
  BY <1>2, RungsOfScsi DEF Primary
<1>3. CASE r.request = "auto" /\ r.bus # "scsi" /\ ~ \E m \in Rungs(r.bus) : m \in caps
  BY <1>3 DEF Primary
<1>4. CASE r.request = "auto" /\ r.bus # "scsi" /\ \E m \in Rungs(r.bus) : m \in caps
  <2>1. DOMAIN L = 1 .. 4
    BY <1>4, RungsOfNvme, RungsOfAta
  <2>2. PICK k \in 1 .. 4 : L[k] \in caps
    BY <1>4, <2>1 DEF Rungs
  <2>3. \E n \in DOMAIN L : First(n)
    <3>1. CASE L[1] \in caps
      BY <2>1, <3>1
    <3>2. CASE L[1] \notin caps /\ L[2] \in caps
      BY <2>1, <3>2
    <3>3. CASE L[1] \notin caps /\ L[2] \notin caps /\ L[3] \in caps
      <4>1. \A j \in 1 .. 3 - 1 : j = 1 \/ j = 2
        OBVIOUS
      <4> QED BY <2>1, <3>3, <4>1
    <3>4. CASE L[1] \notin caps /\ L[2] \notin caps /\ L[3] \notin caps
      <4>1. k = 4
        BY <2>2, <3>4
      <4>2. \A j \in 1 .. 4 - 1 : j = 1 \/ j = 2 \/ j = 3
        OBVIOUS
      <4> QED BY <2>1, <2>2, <3>4, <4>1, <4>2
    <3> QED BY <3>1, <3>2, <3>3, <3>4
  <2>4. (CHOOSE n \in DOMAIN L : First(n)) \in DOMAIN L
    BY <2>3
  <2>5. Primary(r, caps) = L[CHOOSE n \in DOMAIN L : First(n)]
    BY <1>4 DEF Primary
  <2> QED BY <2>4, <2>5 DEF Rungs
<1> QED BY <1>1, <1>2, <1>3, <1>4

LEMMA MechanismsOfABus ==
  ASSUME NEW bus \in {"nvme", "ata", "scsi"}
  PROVE  /\ Rungs(bus) \subseteq Mechanisms
         /\ "none" \notin Rungs(bus)
         /\ "crypto" \in Rungs(bus)
BY RungsOfNvme, RungsOfAta, RungsOfScsi DEF Mechanisms, Sanitizes, Formats, SecurityErases

----------------------------------------------------------------------------
(* The journal *)

\* The head of the journal, written whole or in part.
LEMMA HeadOfTheJournal ==
  ASSUME NEW w \in 0 .. 2
  PROVE  LET head == SubSeq(<<"Header", "Armed">>, 1, w)
         IN  /\ head \in Seq(Records)
             /\ w = 2 => Len(head) >= 2 /\ head[1] = "Header" /\ head[2] = "Armed"
<1> DEFINE head == SubSeq(<<"Header", "Armed">>, 1, w)
<1>1. Len(head) = w /\ \A i \in 1 .. w : head[i] = <<"Header", "Armed">>[i]
  OBVIOUS
<1>2. head \in Seq(Records)
  BY <1>1 DEF Records
<1> QED BY <1>1, <1>2

\* What is appended leaves the head where it is.
LEMMA JournalGrows ==
  ASSUME NEW j \in Seq(Records), NEW more \in Seq(Records)
  PROVE  /\ j \o more \in Seq(Records)
         /\ Len(j) >= 2 => /\ Len(j \o more) >= 2
                           /\ (j \o more)[1] = j[1] /\ (j \o more)[2] = j[2]
OBVIOUS

LEMMA NoteKeepsTheHead ==
  ASSUME journal \in Seq(Records), NoteFailed
  PROVE  journal' \in Seq(Records) /\ (Begun => Begun')
<1>1. "Failed" \in Records
  BY DEF Records
<1>2. CASE journal' = journal
  BY <1>2 DEF Begun
<1>3. CASE journal' = Append(journal, "Failed")
  BY <1>1, <1>3 DEF Begun
<1> QED BY <1>2, <1>3 DEF NoteFailed
----------------------------------------------------------------------------
(* The steps that confirm the run *)

USE DEF BeforeLastLook, Unwritten, Laddering, Evident, Over

LEMMA ConnectKeeps == IInv /\ Connect => IInv'
<1> SUFFICES ASSUME IInv, Connect PROVE IInv'
  OBVIOUS
<1>1. Typed'
  <2>1. run' \in Runs /\ drive' \in DriveRec /\ journal' \in Seq(Records)
    BY DEF IInv, Typed, Connect, Keep
  <2>2. StepTyped'
    BY DEF IInv, Typed, StepTyped, Connect, Leave, Steps, Exits
  <2>3. RungTyped'
    BY DEF IInv, Typed, RungTyped, Connect, Keep
  <2>4. FlagTyped'
    BY DEF IInv, Typed, FlagTyped, Connect, Leave
  <2>5. HostTyped'
    BY DEF IInv, Typed, HostTyped, Connect, Keep
  <2> QED BY <2>1, <2>2, <2>3, <2>4, <2>5 DEF Typed
<1>2. Placed'
  BY
  DEF IInv, Placed, OnTheMenu, Consented, Untouched, Touched, UnderLock, Stands, NoneOvertakes, Polled, SamplesRead, SamplesZero,
      NoExitYet, Connect, Leave
<1>3. EvidenceIsReal'
  BY DEF IInv, EvidenceIsReal, SummaryIsTerminal, AssemblesOnEvidence, Undeceived, SamplesRead, SamplesZero, Connect, Keep, Leave
<1>4. ErasureHasAuthority'
  BY
  DEF IInv, ErasureHasAuthority, ErasureIsJournaled, NothingWithoutConsent, Touched, Connect, Keep,
      Leave
<1> QED BY <1>1, <1>2, <1>3, <1>4 DEF IInv

LEMMA ProbeKeeps == IInv /\ Probe => IInv'
<1> SUFFICES ASSUME IInv, Probe PROVE IInv'
  OBVIOUS
<1>1. Typed'
  <2>1. run' \in Runs /\ drive' \in DriveRec /\ journal' \in Seq(Records)
    BY DEF IInv, Typed, Probe, Keep
  <2>2. StepTyped'
    BY DEF IInv, Typed, StepTyped, Probe, End, Leave, Steps, Exits
  <2>3. RungTyped'
    BY DEF IInv, Typed, RungTyped, Probe, Keep
  <2>4. FlagTyped'
    BY DEF IInv, Typed, FlagTyped, Probe, End, Leave
  <2>5. HostTyped'
    BY DEF IInv, Typed, HostTyped, Probe, Keep
  <2> QED BY <2>1, <2>2, <2>3, <2>4, <2>5 DEF Typed
<1>2. Placed'
  BY
  DEF IInv, Placed, OnTheMenu, Consented, Untouched, Touched, UnderLock, Stands, NoneOvertakes, Polled, SamplesRead, SamplesZero,
      NoExitYet, Probe, Keep, End, Leave
<1>3. EvidenceIsReal'
  BY DEF IInv, EvidenceIsReal, SummaryIsTerminal, AssemblesOnEvidence, Undeceived, SamplesRead, SamplesZero, Probe, Keep, End, Leave
<1>4. ErasureHasAuthority'
  BY
  DEF IInv, ErasureHasAuthority, ErasureIsJournaled, NothingWithoutConsent, Touched, Probe, Keep, End,
      Leave
<1> QED BY <1>1, <1>2, <1>3, <1>4 DEF IInv

LEMMA IdentifyKeeps == IInv /\ Identify => IInv'
<1> SUFFICES ASSUME IInv, Identify PROVE IInv'
  OBVIOUS
<1>1. Typed'
  <2>1. run' \in Runs /\ drive' \in DriveRec /\ journal' \in Seq(Records)
    BY DEF IInv, Typed, Identify, Keep
  <2>2. StepTyped'
    BY DEF IInv, Typed, StepTyped, Identify, End, Steps, Exits
  <2>3. RungTyped'
    BY DEF IInv, Typed, RungTyped, Identify, Keep
  <2>4. FlagTyped'
    BY DEF IInv, Typed, FlagTyped, Identify, End
  <2>5. HostTyped'
    BY DEF IInv, Typed, HostTyped, Identify, Keep
  <2> QED BY <2>1, <2>2, <2>3, <2>4, <2>5 DEF Typed
<1>2. Placed'
  BY
  DEF IInv, Placed, OnTheMenu, Consented, Untouched, Touched, UnderLock, Stands, NoneOvertakes, Polled, SamplesRead, SamplesZero,
      NoExitYet, Identify, Keep, End
<1>3. EvidenceIsReal'
  BY DEF IInv, EvidenceIsReal, SummaryIsTerminal, AssemblesOnEvidence, Undeceived, SamplesRead, SamplesZero, Identify, Keep, End
<1>4. ErasureHasAuthority'
  BY
  DEF IInv, ErasureHasAuthority, ErasureIsJournaled, NothingWithoutConsent, Touched, Identify, Keep, End
<1> QED BY <1>1, <1>2, <1>3, <1>4 DEF IInv

LEMMA SelectKeeps == IInv /\ Select => IInv'
<1> SUFFICES ASSUME IInv, Select PROVE IInv'
  OBVIOUS
<1>1. Typed'
  <2>1. run' \in Runs /\ drive' \in DriveRec /\ journal' \in Seq(Records)
    BY DEF IInv, Typed, Select, Keep
  <2>2. StepTyped'
    BY DEF IInv, Typed, StepTyped, Select, End, Steps, Exits
  <2>3. RungTyped'
    BY DEF IInv, Typed, RungTyped, Select, Keep
  <2>4. FlagTyped'
    BY DEF IInv, Typed, FlagTyped, Select, End
  <2>5. HostTyped'
    BY DEF IInv, Typed, HostTyped, Select, Keep
  <2> QED BY <2>1, <2>2, <2>3, <2>4, <2>5 DEF Typed
<1>2. Placed'
  BY
  DEF IInv, Placed, OnTheMenu, Consented, Untouched, Touched, UnderLock, Stands, NoneOvertakes, Polled, SamplesRead, SamplesZero,
      NoExitYet, Select, Keep, End
<1>3. EvidenceIsReal'
  BY DEF IInv, EvidenceIsReal, SummaryIsTerminal, AssemblesOnEvidence, Undeceived, SamplesRead, SamplesZero, Select, Keep, End
<1>4. ErasureHasAuthority'
  BY
  DEF IInv, ErasureHasAuthority, ErasureIsJournaled, NothingWithoutConsent, Touched, Select, Keep, End
<1> QED BY <1>1, <1>2, <1>3, <1>4 DEF IInv

LEMMA PromptKeeps == IInv /\ Prompt => IInv'
<1> SUFFICES ASSUME IInv, Prompt PROVE IInv'
  OBVIOUS
<1>1. Typed'
  <2>1. run' \in Runs /\ drive' \in DriveRec /\ journal' \in Seq(Records)
    BY DEF IInv, Typed, Prompt, Keep
  <2>2. StepTyped'
    BY DEF IInv, Typed, StepTyped, Prompt, End, Steps, Exits
  <2>3. RungTyped'
    BY DEF IInv, Typed, RungTyped, Prompt, Keep
  <2>4. FlagTyped'
    BY DEF IInv, Typed, FlagTyped, Prompt, End
  <2>5. HostTyped'
    BY DEF IInv, Typed, HostTyped, Prompt, Keep
  <2> QED BY <2>1, <2>2, <2>3, <2>4, <2>5 DEF Typed
<1>2. Placed'
  BY
  DEF IInv, Placed, OnTheMenu, Consented, Untouched, Touched, UnderLock, Stands, NoneOvertakes, Polled, SamplesRead, SamplesZero,
      NoExitYet, Prompt, Keep, End
<1>3. EvidenceIsReal'
  BY DEF IInv, EvidenceIsReal, SummaryIsTerminal, AssemblesOnEvidence, Undeceived, SamplesRead, SamplesZero, Prompt, Keep, End
<1>4. ErasureHasAuthority'
  BY
  DEF IInv, ErasureHasAuthority, ErasureIsJournaled, NothingWithoutConsent, Touched, Prompt, Keep, End
<1> QED BY <1>1, <1>2, <1>3, <1>4 DEF IInv

LEMMA TokenKeeps == IInv /\ Token => IInv'
<1> SUFFICES ASSUME IInv, Token PROVE IInv'
  OBVIOUS
<1>1. Typed'
  <2>1. run' \in Runs /\ drive' \in DriveRec /\ journal' \in Seq(Records)
    BY DEF IInv, Typed, Token, Keep
  <2>2. StepTyped'
    BY DEF IInv, Typed, StepTyped, Token, End, Steps, Exits
  <2>3. RungTyped'
    BY DEF IInv, Typed, RungTyped, Token, Keep
  <2>4. FlagTyped'
    BY DEF IInv, Typed, FlagTyped, Token, End
  <2>5. HostTyped'
    BY DEF IInv, Typed, HostTyped, Token, Keep
  <2> QED BY <2>1, <2>2, <2>3, <2>4, <2>5 DEF Typed
<1>2. Placed'
  BY
  DEF IInv, Placed, OnTheMenu, Consented, Untouched, Touched, UnderLock, Stands, NoneOvertakes, Polled, SamplesRead, SamplesZero,
      NoExitYet, Token, Keep, End
<1>3. EvidenceIsReal'
  BY DEF IInv, EvidenceIsReal, SummaryIsTerminal, AssemblesOnEvidence, Undeceived, SamplesRead, SamplesZero, Token, Keep, End
<1>4. ErasureHasAuthority'
  BY DEF IInv, ErasureHasAuthority, ErasureIsJournaled, NothingWithoutConsent, Touched, Token, Keep, End
<1> QED BY <1>1, <1>2, <1>3, <1>4 DEF IInv

LEMMA ArmKeeps == IInv /\ Arm => IInv'
<1> SUFFICES ASSUME IInv, Arm PROVE IInv'
  OBVIOUS
<1>1. Typed'
  <2>1. run' \in Runs /\ drive' \in DriveRec /\ journal' \in Seq(Records)
    BY DEF IInv, Typed, Arm, Keep
  <2>2. StepTyped'
    BY DEF IInv, Typed, StepTyped, Arm, End, Steps, Exits
  <2>3. RungTyped'
    BY DEF IInv, Typed, RungTyped, Arm, Keep
  <2>4. FlagTyped'
    BY DEF IInv, Typed, FlagTyped, Arm, End
  <2>5. HostTyped'
    BY DEF IInv, Typed, HostTyped, Arm, Keep
  <2> QED BY <2>1, <2>2, <2>3, <2>4, <2>5 DEF Typed
<1>2. Placed'
  BY
  DEF IInv, Placed, OnTheMenu, Consented, Untouched, Touched, UnderLock, Stands, NoneOvertakes, Polled, SamplesRead, SamplesZero,
      NoExitYet, Arm, Keep, End
<1>3. EvidenceIsReal'
  BY DEF IInv, EvidenceIsReal, SummaryIsTerminal, AssemblesOnEvidence, Undeceived, SamplesRead, SamplesZero, Arm, Keep, End
<1>4. ErasureHasAuthority'
  BY DEF IInv, ErasureHasAuthority, ErasureIsJournaled, NothingWithoutConsent, Touched, Arm, Keep, End
<1> QED BY <1>1, <1>2, <1>3, <1>4 DEF IInv

----------------------------------------------------------------------------
(* The steps under the lock *)

LEMMA LunDeleteKeeps == IInv /\ LunDelete => IInv'
<1> SUFFICES ASSUME IInv, LunDelete PROVE IInv'
  OBVIOUS
<1>d. drive' \in DriveRec /\ drive'.media = drive.media
      /\ drive'.sanitize = drive.sanitize /\ drive'.password = drive.password
  BY DEF IInv, Typed, DriveRec, LunDelete, ColdBus
<1>1. Typed'
  <2>1. run' \in Runs /\ drive' \in DriveRec /\ journal' \in Seq(Records)
    BY <1>d DEF IInv, Typed, LunDelete, Keep
  <2>2. StepTyped'
    BY DEF IInv, Typed, StepTyped, LunDelete, End, Steps, Exits, ColdBus
  <2>3. RungTyped'
    BY DEF IInv, Typed, RungTyped, LunDelete, Keep
  <2>4. FlagTyped'
    BY DEF IInv, Typed, FlagTyped, LunDelete, End, ColdBus
  <2>5. HostTyped'
    BY DEF IInv, Typed, HostTyped, LunDelete, Keep
  <2> QED BY <2>1, <2>2, <2>3, <2>4, <2>5 DEF Typed
<1>2. Placed'
  BY <1>d
  DEF IInv, Placed, OnTheMenu, Consented, Untouched, Touched, UnderLock, Stands, NoneOvertakes, Polled, SamplesRead, SamplesZero,
      NoExitYet, LunDelete, Keep, End, ColdBus
<1>3. EvidenceIsReal'
  BY <1>d
  DEF IInv, EvidenceIsReal, SummaryIsTerminal, AssemblesOnEvidence, Undeceived, SamplesRead, SamplesZero, LunDelete, Keep, End, ColdBus
<1>4. ErasureHasAuthority'
  BY <1>d
  DEF IInv, ErasureHasAuthority, ErasureIsJournaled, NothingWithoutConsent, Touched, LunDelete, Keep,
      End, ColdBus
<1> QED BY <1>1, <1>2, <1>3, <1>4 DEF IInv

LEMMA PmCycleKeeps == IInv /\ PmCycle => IInv'
<1> SUFFICES ASSUME IInv, PmCycle PROVE IInv'
  OBVIOUS
<1>d. drive' \in DriveRec /\ drive'.media = drive.media
      /\ drive'.sanitize = drive.sanitize /\ drive'.password = drive.password
  BY DEF IInv, Typed, DriveRec, PmCycle, ColdBus
<1>1. Typed'
  <2>1. run' \in Runs /\ drive' \in DriveRec /\ journal' \in Seq(Records)
    BY <1>d DEF IInv, Typed, PmCycle, Keep
  <2>2. StepTyped'
    BY DEF IInv, Typed, StepTyped, PmCycle, End, Steps, Exits, ColdBus
  <2>3. RungTyped'
    BY DEF IInv, Typed, RungTyped, PmCycle, Keep
  <2>4. FlagTyped'
    BY DEF IInv, Typed, FlagTyped, PmCycle, End, ColdBus
  <2>5. HostTyped'
    BY DEF IInv, Typed, HostTyped, PmCycle, Keep
  <2> QED BY <2>1, <2>2, <2>3, <2>4, <2>5 DEF Typed
<1>2. Placed'
  BY <1>d
  DEF IInv, Placed, OnTheMenu, Consented, Untouched, Touched, UnderLock, Stands, NoneOvertakes, Polled, SamplesRead, SamplesZero,
      NoExitYet, PmCycle, Keep, End, ColdBus
<1>3. EvidenceIsReal'
  BY <1>d DEF IInv, EvidenceIsReal, SummaryIsTerminal, AssemblesOnEvidence, Undeceived, SamplesRead, SamplesZero, PmCycle, Keep, End, ColdBus
<1>4. ErasureHasAuthority'
  BY <1>d
  DEF IInv, ErasureHasAuthority, ErasureIsJournaled, NothingWithoutConsent, Touched, PmCycle, Keep,
      End, ColdBus
<1> QED BY <1>1, <1>2, <1>3, <1>4 DEF IInv

LEMMA CreateJournalKeeps == IInv /\ CreateJournal => IInv'
<1> SUFFICES ASSUME IInv, CreateJournal PROVE IInv'
  OBVIOUS
<1>j. journal' \in Seq(Records) /\ (pc' = "Intake" => Begun')
  BY HeadOfTheJournal DEF CreateJournal, Begun, End
<1>1. Typed'
  <2>1. run' \in Runs /\ drive' \in DriveRec /\ journal' \in Seq(Records)
    BY <1>j DEF IInv, Typed, CreateJournal, Keep
  <2>2. StepTyped'
    BY DEF IInv, Typed, StepTyped, CreateJournal, End, Steps, Exits
  <2>3. RungTyped'
    BY DEF IInv, Typed, RungTyped, CreateJournal, Keep
  <2>4. FlagTyped'
    BY DEF IInv, Typed, FlagTyped, CreateJournal, End
  <2>5. HostTyped'
    BY DEF IInv, Typed, HostTyped, CreateJournal, Keep
  <2> QED BY <2>1, <2>2, <2>3, <2>4, <2>5 DEF Typed
<1>2. Placed'
  BY <1>j
  DEF IInv, Placed, OnTheMenu, Consented, Untouched, Touched, UnderLock, Stands, NoneOvertakes, Polled, SamplesRead, SamplesZero,
      NoExitYet, CreateJournal, Keep, End
<1>3. EvidenceIsReal'
  BY <1>j DEF IInv, EvidenceIsReal, SummaryIsTerminal, AssemblesOnEvidence, Undeceived, SamplesRead, SamplesZero, CreateJournal, Keep, End
<1>4. ErasureHasAuthority'
  BY <1>j
  DEF IInv, Placed, Consented, Untouched, ErasureHasAuthority, ErasureIsJournaled,
      NothingWithoutConsent, Touched, CreateJournal, Keep, End
<1> QED BY <1>1, <1>2, <1>3, <1>4 DEF IInv

LEMMA IntakeKeeps == IInv /\ Intake => IInv'
<1> SUFFICES ASSUME IInv, Intake PROVE IInv'
  OBVIOUS
<1>d. drive' \in DriveRec /\ drive'.media = drive.media
      /\ drive'.sanitize = drive.sanitize /\ drive'.password = drive.password
      /\ drive'.attention = drive.attention /\ drive'.reset = drive.reset
  BY DEF IInv, Typed, DriveRec, Intake, RestoreGeometry
<1>j. journal' \in Seq(Records) /\ (Begun => Begun') /\ (journal' = journal \/ pc' \in Over)
  BY NoteKeepsTheHead DEF IInv, Typed, Intake, Fatal, End, Begun
<1>r. mech' \in Rungs(run.bus) \cup {"none"} /\ (pc' = "Issue" => mech' # "none")
  BY RunIsOfABus, PrimaryIsARung DEF IInv, Typed, RungTyped, Placed, OnTheMenu, Intake, Fatal, End
<1>1. Typed'
  <2>1. run' \in Runs /\ drive' \in DriveRec /\ journal' \in Seq(Records)
    BY <1>d, <1>j DEF IInv, Typed, Intake, Keep
  <2>2. StepTyped'
    BY DEF IInv, Typed, StepTyped, Intake, End, Steps, Exits, Fatal
  <2>3. RungTyped'
    BY <1>r DEF IInv, Typed, RungTyped, Intake, Keep
  <2>4. FlagTyped'
    BY DEF IInv, Typed, FlagTyped, Intake, End, Fatal
  <2>5. HostTyped'
    BY DEF IInv, Typed, HostTyped, Intake, Keep, RestoreGeometry
  <2> QED BY <2>1, <2>2, <2>3, <2>4, <2>5 DEF Typed
<1>2. Placed'
  BY <1>d, <1>j, <1>r
  DEF IInv, Placed, OnTheMenu, Consented, Untouched, Touched, UnderLock, Stands, NoneOvertakes, Polled, SamplesRead, SamplesZero,
      NoExitYet, Intake, Keep, End, Fatal
<1>3. EvidenceIsReal'
  BY <1>d, <1>j, <1>r
  DEF IInv, Placed, Stands, EvidenceIsReal, SummaryIsTerminal, AssemblesOnEvidence, Undeceived, SamplesRead, SamplesZero, Intake, End, Fatal
<1>4. ErasureHasAuthority'
  BY <1>d, <1>j, <1>r
  DEF IInv, Placed, Consented, UnderLock, ErasureHasAuthority, ErasureIsJournaled, Begun,
      NothingWithoutConsent, Intake, Keep, End, Fatal
<1> QED BY <1>1, <1>2, <1>3, <1>4 DEF IInv

LEMMA IssueSanitizeKeeps == IInv /\ IssueSanitize => IInv'
<1> SUFFICES ASSUME IInv, IssueSanitize PROVE IInv'
  OBVIOUS
<1>n. mech \notin {"none"} \cup SecurityErases
  BY DEF IssueSanitize, Sanitizes, SecurityErases
<1>d. /\ drive' \in DriveRec /\ drive'.media = drive.media /\ drive'.password = drive.password
      /\ drive'.attention = drive.attention /\ drive'.reset = drive.reset
      /\ pc' = "Issue" /\ run.bus # "nvme" => drive' = drive
      /\ pc' = "Poll" => drive'.denied \/ drive'.sanitize \notin Unstarted
  <2>1. drive' \in {drive, Started} \/ drive' = [drive EXCEPT !.denied = TRUE]
    BY DEF IssueSanitize, Denied
  <2>2. Started \in {drive, [drive EXCEPT !.sanitize = "running"]}
    BY DEF Started
  <2>3. pc' = "Issue" /\ run.bus # "nvme" => drive' = drive
    BY DEF IssueSanitize, Fatal, End
  <2>4. pc' = "Poll" => (CanStart /\ drive' = Started) \/ drive' = [drive EXCEPT !.denied = TRUE]
    BY DEF IssueSanitize, Denied, Fatal, End
  <2>5. CanStart => Started = [drive EXCEPT !.sanitize = "running"]
    BY DEF Started
  <2>6. drive' = drive \/ drive' = [drive EXCEPT !.sanitize = "running"] \/ drive' = [drive EXCEPT !.denied = TRUE]
    BY <2>1, <2>2
  <2>7. /\ drive' \in DriveRec /\ drive'.media = drive.media /\ drive'.password = drive.password
        /\ drive'.attention = drive.attention /\ drive'.reset = drive.reset
    BY <2>6 DEF IInv, Typed, DriveRec, Sanitizing
  <2>8. ASSUME pc' = "Poll" PROVE drive'.denied \/ drive'.sanitize \notin Unstarted
    <3>1. drive' = [drive EXCEPT !.sanitize = "running"] \/ drive' = [drive EXCEPT !.denied = TRUE]
      BY <2>4, <2>5, <2>8
    <3> QED BY <3>1 DEF IInv, Typed, DriveRec, Unstarted
  <2> QED BY <2>3, <2>7, <2>8
<1>j. journal' \in Seq(Records) /\ (Begun => Begun') /\ (journal' = journal \/ pc' \in Over)
  BY NoteKeepsTheHead DEF IInv, Typed, IssueSanitize, Fatal, End, Begun
<1>r. mech' \in Rungs(run.bus) \cup {"none"} /\ (pc' = "Issue" => mech' # "none")
  BY RunIsOfABus, NextRungIsARung, MechanismsOfABus DEF IInv, Typed, RungTyped, Sanitizes, IssueSanitize
<1>o. /\ UNCHANGED <<run, signal, critical>> /\ pc = "Issue" /\ mech \in Sanitizes
      /\ \/ pc' = "Poll" /\ UNCHANGED <<mech, ladder, journal, exit, lock>>
         \/ pc' = "Issue" /\ UNCHANGED <<ladder, journal, exit, lock>>
         \/ pc' \in Over /\ exit' = "PURGE_FAILED" /\ ladder' = "failed" /\ lock' = FALSE /\ UNCHANGED mech
  BY DEF IssueSanitize, Fatal, End, Keep
<1>k. pc' \in Over \/ (lock' /\ Begun')
  <2>1. lock /\ Begun
    BY <1>o DEF IInv, Placed, UnderLock
  <2>2. pc' \in Over \/ lock' = lock
    BY <1>o
  <2> QED BY <1>j, <2>1, <2>2
<1>1. Typed'
  <2>1. run' \in Runs /\ drive' \in DriveRec /\ journal' \in Seq(Records)
    BY <1>d, <1>j DEF IInv, Typed, IssueSanitize, Keep
  <2>2. StepTyped'
    BY DEF IInv, Typed, StepTyped, IssueSanitize, End, Steps, Exits, Fatal
  <2>3. RungTyped'
    BY <1>r, PurgeAssumption DEF IInv, Typed, RungTyped, IssueSanitize, Keep
  <2>4. FlagTyped'
    BY DEF IInv, Typed, FlagTyped, IssueSanitize, End, Fatal
  <2>5. HostTyped'
    BY DEF IInv, Typed, HostTyped, IssueSanitize, Keep
  <2> QED BY <2>1, <2>2, <2>3, <2>4, <2>5 DEF Typed
<1>2. Placed'
  <2> USE DEF IInv, Typed, Placed
  <2>1. OnTheMenu' /\ Consented' /\ NoExitYet'
    BY <1>o DEF OnTheMenu, Consented, NoExitYet
  <2>2. Untouched'
    BY <1>o, <1>d DEF Untouched, Touched
  <2>3. UnderLock'
    BY <1>k DEF UnderLock
  <2>4. Stands'
    BY <1>o, <1>d, <1>r DEF Stands
  <2>6. Polled'
    BY <1>o, <1>d DEF Polled
  <2>5. NoneOvertakes'
    BY <1>o, <1>d, <1>r DEF NoneOvertakes, Untouched, Touched
  <2> QED BY <2>1, <2>2, <2>3, <2>4, <2>5, <2>6
<1>3. EvidenceIsReal'
  BY <1>d, <1>j, <1>r, <1>o
  DEF IInv, Placed, Stands, EvidenceIsReal, SummaryIsTerminal, AssemblesOnEvidence, Undeceived, SamplesRead, SamplesZero
<1>4. ErasureHasAuthority'
  BY <1>d, <1>j, <1>r, <1>o, <1>k
  DEF IInv, Placed, UnderLock, ErasureHasAuthority, ErasureIsJournaled, Begun, NothingWithoutConsent
<1> QED BY <1>1, <1>2, <1>3, <1>4 DEF IInv

LEMMA PollKeeps == IInv /\ Poll => IInv'
<1> SUFFICES ASSUME IInv, Poll PROVE IInv'
  OBVIOUS
<1>d. drive' \in DriveRec /\ drive'.media = drive.media
      /\ drive'.sanitize = drive.sanitize /\ drive'.password = drive.password
      /\ drive'.denied = drive.denied /\ drive'.reset = drive.reset /\ ~drive'.attention
      /\ drive'.senseAsData = drive.senseAsData
  BY DEF IInv, Typed, DriveRec, Poll
<1>j. journal' \in Seq(Records) /\ (Begun => Begun') /\ (journal' = journal \/ pc' \in Over)
  BY NoteKeepsTheHead DEF IInv, Typed, Poll, Fatal, End, Begun
<1>r. mech' \in Rungs(run.bus) \cup {"none"} /\ polls' \in 0 .. MaxPolls
  <2>1. mech' = mech /\ (polls' = polls \/ (polls < MaxPolls /\ polls' = polls + 1))
    BY DEF Poll
  <2> QED BY <2>1, PurgeAssumption DEF IInv, Typed, RungTyped
<1>1. Typed'
  <2>1. run' \in Runs /\ drive' \in DriveRec /\ journal' \in Seq(Records)
    BY <1>d, <1>j DEF IInv, Typed, Poll, Keep
  <2>2. StepTyped'
    BY DEF IInv, Typed, StepTyped, Poll, End, Steps, Exits, Fatal
  <2>3. RungTyped'
    BY <1>r DEF RungTyped, Poll, Keep
  <2>4. FlagTyped'
    BY DEF IInv, Typed, FlagTyped, Poll, End, Fatal
  <2>5. HostTyped'
    BY DEF IInv, Typed, HostTyped, Poll, Keep
  <2> QED BY <2>1, <2>2, <2>3, <2>4, <2>5 DEF Typed
<1>2. Placed'
  BY <1>d, <1>j, <1>r
  DEF IInv, Placed, OnTheMenu, Consented, Untouched, UnderLock, Stands, NoneOvertakes, Polled, SamplesRead, SamplesZero, NoExitYet, Poll,
      Keep, End, Fatal, Sanitizes
<1>3. EvidenceIsReal'
  BY <1>d, <1>j, <1>r
  DEF IInv, Placed, Stands, Polled, NoExitYet, EvidenceIsReal, SummaryIsTerminal, AssemblesOnEvidence,
      Undeceived, Poll, Keep, End, Fatal, Status, Sanitizes, SecurityErases, Unstarted, Over
<1>4. ErasureHasAuthority'
  BY <1>d, <1>j, <1>r
  DEF IInv, Placed, Consented, ErasureHasAuthority, ErasureIsJournaled, Begun, NothingWithoutConsent,
      Touched, Poll, Keep, End, Fatal
<1> QED BY <1>1, <1>2, <1>3, <1>4 DEF IInv

LEMMA IssueFormatKeeps == IInv /\ IssueFormat => IInv'
<1> SUFFICES ASSUME IInv, IssueFormat PROVE IInv'
  OBVIOUS
<1>n. "formatCrypto" \in Rungs(run.bus) => run.bus = "nvme"
  BY RunIsOfABus, RungsOfNvme, RungsOfAta, RungsOfScsi DEF IInv
<1>d. /\ drive' \in DriveRec /\ drive'.sanitize = drive.sanitize /\ drive'.password = drive.password
      /\ drive'.attention = drive.attention /\ drive'.reset = drive.reset
  <2>1. \/ \E left \in Media : drive' = [drive EXCEPT !.media = left]
        \/ drive' = [drive EXCEPT !.denied = TRUE]
    <3>1. \A left \in {drive.media, "partial", "zeros"} \cup {"zeros", "scrambled", "sparse", "data"} :
            left \in Media
      BY DEF IInv, Typed, DriveRec, Media
    <3>2. drive.media \in Media
      BY <3>1
    <3> QED BY <3>1, <3>2 DEF IssueFormat, Denied
  <2> QED BY <2>1 DEF IInv, Typed, DriveRec
<1>b. pc' = "Issue" => run.bus = "nvme"
  BY <1>n DEF IInv, Typed, RungTyped, IssueFormat, Fatal, End
<1>j. journal' \in Seq(Records) /\ (Begun => Begun') /\ (journal' = journal \/ pc' \in Over)
  BY NoteKeepsTheHead DEF IInv, Typed, IssueFormat, Fatal, End, Begun
<1>r. mech' \in Rungs(run.bus) \cup {"none"} /\ (pc' = "Issue" => mech' # "none")
  BY RunIsOfABus, NextRungIsARung, MechanismsOfABus DEF IInv, Typed, RungTyped, IssueFormat, Fatal, End
<1>o. /\ UNCHANGED <<run, signal, critical>> /\ pc = "Issue" /\ mech \in Formats
      /\ \/ pc' = "Issue" /\ UNCHANGED <<ladder, journal, exit, lock>>
         \/ /\ pc' = IF mech = "formatCrypto" THEN "Readback" ELSE "Thermal"
            /\ ladder' = "ok" /\ UNCHANGED <<mech, journal, exit, lock>>
         \/ pc' \in Over /\ exit' = "PURGE_FAILED" /\ ladder' = "failed" /\ lock' = FALSE /\ UNCHANGED mech
  BY DEF IssueFormat, Fatal, End, Keep
<1>k. pc' \in Over \/ (lock' /\ Begun')
  <2>1. lock /\ Begun
    BY <1>o DEF IInv, Placed, UnderLock
  <2>2. pc' \in Over \/ lock' = lock
    BY <1>o
  <2> QED BY <1>j, <2>1, <2>2
<1>1. Typed'
  <2>1. run' \in Runs /\ drive' \in DriveRec /\ journal' \in Seq(Records)
    BY <1>d, <1>j DEF IInv, Typed, IssueFormat, Keep
  <2>2. StepTyped'
    BY DEF IInv, Typed, StepTyped, IssueFormat, End, Steps, Exits, Fatal
  <2>3. RungTyped'
    BY <1>r DEF IInv, Typed, RungTyped, IssueFormat, Keep
  <2>4. FlagTyped'
    BY DEF IInv, Typed, FlagTyped, IssueFormat, End, Fatal
  <2>5. HostTyped'
    BY DEF IInv, Typed, HostTyped, IssueFormat, Keep
  <2> QED BY <2>1, <2>2, <2>3, <2>4, <2>5 DEF Typed
<1>2. Placed'
  <2> USE DEF IInv, Typed, Placed
  <2>1. OnTheMenu' /\ Consented' /\ NoExitYet'
    BY <1>o DEF OnTheMenu, Consented, NoExitYet
  <2>2. Untouched'
    BY <1>o, <1>b DEF Untouched
  <2>3. UnderLock'
    BY <1>k DEF UnderLock
  <2>4. Stands'
    BY <1>o, <1>r DEF Stands
  <2>6. Polled'
    BY <1>o, <1>d DEF Polled
  <2>5. NoneOvertakes'
    BY <1>o, <1>b, <1>d DEF NoneOvertakes, Untouched, Touched
  <2> QED BY <2>1, <2>2, <2>3, <2>4, <2>5, <2>6
<1>3. EvidenceIsReal'
  BY <1>d, <1>j, <1>r, <1>o
  DEF IInv, Placed, Stands, EvidenceIsReal, SummaryIsTerminal, AssemblesOnEvidence, Undeceived, SamplesRead, SamplesZero, Sanitizes, Formats,
      SecurityErases
<1>4. ErasureHasAuthority'
  BY <1>d, <1>j, <1>r, <1>o, <1>k
  DEF IInv, Placed, UnderLock, ErasureHasAuthority, ErasureIsJournaled, Begun, NothingWithoutConsent
<1> QED BY <1>1, <1>2, <1>3, <1>4 DEF IInv

LEMMA RefuseOverwriteKeeps == IInv /\ RefuseOverwrite => IInv'
<1> SUFFICES ASSUME IInv, RefuseOverwrite PROVE IInv'
  OBVIOUS
<1>j. journal' \in Seq(Records) /\ (Begun => Begun') /\ (journal' = journal \/ pc' \in Over)
  BY NoteKeepsTheHead DEF IInv, Typed, RefuseOverwrite, Fatal, End
<1>1. Typed'
  <2>1. run' \in Runs /\ drive' \in DriveRec /\ journal' \in Seq(Records)
    BY <1>j DEF IInv, Typed, RefuseOverwrite, Keep
  <2>2. StepTyped'
    BY DEF StepTyped, RefuseOverwrite, End, Steps, Exits, Fatal
  <2>3. RungTyped'
    BY DEF IInv, Typed, RungTyped, RefuseOverwrite, Keep
  <2>4. FlagTyped'
    BY DEF IInv, Typed, FlagTyped, RefuseOverwrite, End, Fatal
  <2>5. HostTyped'
    BY DEF IInv, Typed, HostTyped, RefuseOverwrite, Keep
  <2> QED BY <2>1, <2>2, <2>3, <2>4, <2>5 DEF Typed
<1>2. Placed'
  BY <1>j
  DEF IInv, Placed, OnTheMenu, Consented, Untouched, UnderLock, Stands, NoneOvertakes, Polled, SamplesRead, SamplesZero, NoExitYet,
      RefuseOverwrite, Keep, End, Fatal
<1>3. EvidenceIsReal'
  BY <1>j DEF EvidenceIsReal, SummaryIsTerminal, AssemblesOnEvidence, Undeceived, SamplesRead, SamplesZero, RefuseOverwrite, End, Fatal
<1>4. ErasureHasAuthority'
  BY <1>j
  DEF IInv, Placed, UnderLock, ErasureHasAuthority, ErasureIsJournaled, Begun, NothingWithoutConsent,
      RefuseOverwrite, Keep, End, Fatal
<1> QED BY <1>1, <1>2, <1>3, <1>4 DEF IInv

LEMMA SetPasswordKeeps == IInv /\ SetPassword => IInv'
<1> SUFFICES ASSUME IInv, SetPassword PROVE IInv'
  OBVIOUS
<1>n. SecurityErases \cap Rungs(run.bus) # {} => run.bus # "nvme"
  BY RunIsOfABus, RungsOfNvme, RungsOfAta, RungsOfScsi DEF IInv, SecurityErases
<1>d. drive' \in DriveRec /\ drive'.sanitize = drive.sanitize /\ drive'.attention = drive.attention
      /\ drive'.reset = drive.reset
  BY DEF IInv, Typed, DriveRec, Passwords, SetPassword
<1>j. journal' \in Seq(Records) /\ (Begun => Begun') /\ (journal' = journal \/ pc' \in Over)
  BY NoteKeepsTheHead DEF IInv, Typed, SetPassword, Fatal, End, Begun
<1>r. mech' \in Rungs(run.bus) \cup {"none"} /\ mech' \in SecurityErases
  BY RunIsOfABus, RungsOfNvme, RungsOfAta, RungsOfScsi
  DEF IInv, Typed, RungTyped, SecurityErases, SetPassword
<1>o. /\ UNCHANGED <<run, signal, critical>> /\ pc = "Issue" /\ mech \in SecurityErases
      /\ \/ pc' = "Prepare" /\ UNCHANGED <<ladder, journal, exit, lock>>
         \/ pc' \in Over /\ exit' = "PURGE_FAILED" /\ ladder' = "failed" /\ lock' = FALSE
  BY DEF SetPassword, Fatal, End, Keep
<1>k. pc' \in Over \/ (lock' /\ Begun')
  <2>1. lock /\ Begun
    BY <1>o DEF IInv, Placed, UnderLock
  <2>2. pc' \in Over \/ lock' = lock
    BY <1>o
  <2> QED BY <1>j, <2>1, <2>2
<1>1. Typed'
  <2>1. run' \in Runs /\ drive' \in DriveRec /\ journal' \in Seq(Records)
    BY <1>d, <1>j DEF IInv, Typed, SetPassword, Keep
  <2>2. StepTyped'
    BY DEF IInv, Typed, StepTyped, SetPassword, End, Steps, Exits, Fatal
  <2>3. RungTyped'
    BY <1>r DEF IInv, Typed, RungTyped, SetPassword, Keep
  <2>4. FlagTyped'
    BY DEF IInv, Typed, FlagTyped, SetPassword, End, Fatal
  <2>5. HostTyped'
    BY DEF IInv, Typed, HostTyped, SetPassword, Keep
  <2> QED BY <2>1, <2>2, <2>3, <2>4, <2>5 DEF Typed
<1>2. Placed'
  <2> USE DEF IInv, Typed, Placed
  <2>1. OnTheMenu' /\ Consented' /\ NoExitYet'
    BY <1>o DEF OnTheMenu, Consented, NoExitYet
  <2>2. Untouched'
    BY <1>o, <1>d DEF Untouched
  <2>3. UnderLock'
    BY <1>k DEF UnderLock
  <2>4. Stands'
    BY <1>o, <1>d, <1>r DEF Stands
  <2>6. Polled'
    BY <1>o, <1>d DEF Polled
  <2>5. NoneOvertakes'
    BY <1>o, <1>d, <1>r, <1>n DEF RungTyped, NoneOvertakes, Untouched, Touched
  <2> QED BY <2>1, <2>2, <2>3, <2>4, <2>5, <2>6
<1>3. EvidenceIsReal'
  BY <1>d, <1>j, <1>r, <1>o
  DEF IInv, Placed, Stands, EvidenceIsReal, SummaryIsTerminal, AssemblesOnEvidence, Undeceived, SamplesRead, SamplesZero
<1>4. ErasureHasAuthority'
  BY <1>d, <1>j, <1>r, <1>o, <1>k
  DEF IInv, Placed, UnderLock, ErasureHasAuthority, ErasureIsJournaled, Begun, NothingWithoutConsent
<1> QED BY <1>1, <1>2, <1>3, <1>4 DEF IInv

LEMMA PrepareKeeps == IInv /\ Prepare => IInv'
<1> SUFFICES ASSUME IInv, Prepare PROVE IInv'
  OBVIOUS
<1>d. drive' \in DriveRec /\ drive'.sanitize = drive.sanitize /\ drive'.attention = drive.attention
      /\ drive'.reset = drive.reset
  BY DEF IInv, Typed, DriveRec, Passwords, Prepare
<1>j. journal' \in Seq(Records) /\ (Begun => Begun') /\ (journal' = journal \/ pc' \in Over)
  BY NoteKeepsTheHead DEF IInv, Typed, Prepare, Fatal, End, Begun
<1>1. Typed'
  <2>1. run' \in Runs /\ drive' \in DriveRec /\ journal' \in Seq(Records)
    BY <1>d, <1>j DEF IInv, Typed, Prepare, Keep
  <2>2. StepTyped'
    BY DEF IInv, Typed, StepTyped, Prepare, End, Steps, Exits, Fatal
  <2>3. RungTyped'
    BY DEF IInv, Typed, RungTyped, Prepare, Keep
  <2>4. FlagTyped'
    BY DEF IInv, Typed, FlagTyped, Prepare, End, Fatal
  <2>5. HostTyped'
    BY DEF IInv, Typed, HostTyped, Prepare, Keep
  <2> QED BY <2>1, <2>2, <2>3, <2>4, <2>5 DEF Typed
<1>2. Placed'
  BY <1>d, <1>j
  DEF IInv, Placed, OnTheMenu, Consented, Untouched, UnderLock, Stands, NoneOvertakes, Polled, SamplesRead, SamplesZero, NoExitYet,
      Prepare, Keep, End, Fatal
<1>3. EvidenceIsReal'
  BY <1>d, <1>j
  DEF IInv, EvidenceIsReal, SummaryIsTerminal, AssemblesOnEvidence, Undeceived, SamplesRead, SamplesZero, Prepare, Keep, End, Fatal
<1>4. ErasureHasAuthority'
  BY <1>d, <1>j
  DEF IInv, Placed, Consented, UnderLock, ErasureHasAuthority, ErasureIsJournaled, Begun,
      NothingWithoutConsent, Prepare, Keep, End, Fatal
<1> QED BY <1>1, <1>2, <1>3, <1>4 DEF IInv

LEMMA EraseUnitKeeps == IInv /\ EraseUnit => IInv'
<1> SUFFICES ASSUME IInv, EraseUnit PROVE IInv'
  OBVIOUS
<1> DEFINE erased == [drive EXCEPT !.media = "zeros", !.password = "none"]
           broken(left, l) == [drive EXCEPT !.media = left, !.locked = l]
<1>a. PICK left \in {"data", "partial"}, l \in BOOLEAN :
         \/ drive' = erased /\ ladder' = "ok" /\ pc' = "Thermal" /\ UNCHANGED <<journal, exit, lock>>
         \/ drive' = broken(left, l) /\ pc' = "Repair" /\ UNCHANGED <<ladder, journal, exit, lock>>
         \/ drive' \in {broken(left, l), drive, erased} /\ Fatal
  BY DEF EraseUnit
<1>e. /\ erased \in DriveRec /\ erased.sanitize = drive.sanitize
      /\ erased.attention = drive.attention /\ erased.reset = drive.reset
      /\ erased.media = "zeros" /\ erased.password = "none"
  BY DEF IInv, Typed, DriveRec, Passwords, Media
<1>b. /\ broken(left, l) \in DriveRec /\ broken(left, l).sanitize = drive.sanitize
      /\ broken(left, l).attention = drive.attention /\ broken(left, l).reset = drive.reset
  BY DEF IInv, Typed, DriveRec, Media
<1> HIDE DEF erased, broken
<1>o. /\ UNCHANGED <<run, signal, critical, mech, polls, disclosed, stages, certificate, session, port>>
      /\ pc = "EraseUnit"
      /\ \/ drive' = erased /\ ladder' = "ok" /\ pc' = "Thermal" /\ UNCHANGED <<journal, exit, lock>>
         \/ drive' = broken(left, l) /\ pc' = "Repair" /\ UNCHANGED <<ladder, journal, exit, lock>>
         \/ /\ drive' \in {broken(left, l), drive, erased} /\ NoteFailed
            /\ pc' \in Over /\ exit' = "PURGE_FAILED" /\ ladder' = "failed" /\ lock' = FALSE
  BY <1>a DEF EraseUnit, Fatal, End, Keep
<1>d. drive' \in DriveRec /\ drive'.sanitize = drive.sanitize
      /\ drive'.attention = drive.attention /\ drive'.reset = drive.reset
      /\ (pc' = "Thermal" => drive'.media = "zeros" /\ drive'.password = "none")
  BY <1>o, <1>e, <1>b DEF IInv, Typed
<1>j. journal' \in Seq(Records) /\ (Begun => Begun') /\ (journal' = journal \/ pc' \in Over)
  BY <1>o, NoteKeepsTheHead DEF IInv, Typed, Begun
<1>1. Typed'
  <2>1. run' \in Runs /\ drive' \in DriveRec /\ journal' \in Seq(Records)
    BY <1>d, <1>j DEF IInv, Typed, EraseUnit, Keep
  <2>2. StepTyped'
    BY <1>o DEF IInv, Typed, StepTyped, Steps, Exits
  <2>3. RungTyped'
    BY DEF IInv, Typed, RungTyped, EraseUnit, Keep
  <2>4. FlagTyped'
    BY <1>o DEF IInv, Typed, FlagTyped
  <2>5. HostTyped'
    BY DEF IInv, Typed, HostTyped, EraseUnit, Keep
  <2> QED BY <2>1, <2>2, <2>3, <2>4, <2>5 DEF Typed
<1>2. Placed'
  <2>1. mech \in SecurityErases /\ mech # "formatCrypto" /\ lock /\ Begun /\ ~run.dryRun /\ signal # "early"
    BY <1>o DEF IInv, Placed, Stands, UnderLock, Consented, SecurityErases
  <2>2. pc' = "Thermal" \/ pc' = "Repair" \/ pc' \in Over
    BY <1>o
  <2>3. (OnTheMenu /\ Consented /\ Untouched)'
    BY <2>1, <2>2, <1>o DEF OnTheMenu, Consented, Untouched
  <2>4. (UnderLock /\ Stands /\ NoExitYet)'
    BY <2>1, <2>2, <1>j, <1>o DEF IInv, Placed, UnderLock, Stands, NoExitYet
  <2>5. (NoneOvertakes /\ Polled)'
    BY <2>2, <1>d, <1>o DEF IInv, Placed, NoneOvertakes, Polled
  <2> QED BY <2>3, <2>4, <2>5 DEF Placed
<1>3. EvidenceIsReal'
  BY <1>d, <1>j, <1>o
  DEF IInv, Placed, Stands, EvidenceIsReal, SummaryIsTerminal, AssemblesOnEvidence, Undeceived, SamplesRead, SamplesZero, Sanitizes,
      SecurityErases
<1>4. ErasureHasAuthority'
  BY <1>d, <1>j, <1>o
  DEF IInv, Placed, Consented, UnderLock, ErasureHasAuthority, ErasureIsJournaled, Begun,
      NothingWithoutConsent
<1> QED BY <1>1, <1>2, <1>3, <1>4 DEF IInv

LEMMA RepairKeeps == IInv /\ Repair => IInv'
<1> SUFFICES ASSUME IInv, Repair PROVE IInv'
  OBVIOUS
<1>d. drive' \in DriveRec /\ drive'.sanitize = drive.sanitize /\ drive'.attention = drive.attention
      /\ drive'.reset = drive.reset
  BY DEF IInv, Typed, DriveRec, Passwords, Repair
<1>j. journal' \in Seq(Records) /\ (Begun => Begun') /\ (journal' = journal \/ pc' \in Over)
  BY NoteKeepsTheHead DEF IInv, Typed, Repair, Fatal, End
<1>1. Typed'
  <2>1. run' \in Runs /\ drive' \in DriveRec /\ journal' \in Seq(Records)
    BY <1>d, <1>j DEF IInv, Typed, Repair, Keep
  <2>2. StepTyped'
    BY DEF StepTyped, Repair, End, Steps, Exits, Fatal
  <2>3. RungTyped'
    BY DEF IInv, Typed, RungTyped, Repair, Keep
  <2>4. FlagTyped'
    BY DEF IInv, Typed, FlagTyped, Repair, End, Fatal
  <2>5. HostTyped'
    BY DEF IInv, Typed, HostTyped, Repair, Keep
  <2> QED BY <2>1, <2>2, <2>3, <2>4, <2>5 DEF Typed
<1>2. Placed'
  BY <1>d, <1>j
  DEF IInv, Placed, OnTheMenu, Consented, Untouched, UnderLock, Stands, NoneOvertakes, Polled, SamplesRead, SamplesZero, NoExitYet,
      Repair, Keep, End, Fatal
<1>3. EvidenceIsReal'
  BY <1>d, <1>j DEF EvidenceIsReal, SummaryIsTerminal, AssemblesOnEvidence, Undeceived, SamplesRead, SamplesZero, Repair, End, Fatal
<1>4. ErasureHasAuthority'
  BY <1>d, <1>j
  DEF IInv, Placed, UnderLock, ErasureHasAuthority, ErasureIsJournaled, Begun, NothingWithoutConsent,
      Repair, Keep, End, Fatal
<1> QED BY <1>1, <1>2, <1>3, <1>4 DEF IInv

----------------------------------------------------------------------------
(* From the ladder to the certificate, and around the command *)

LEMMA ReadbackKeeps == IInv /\ Readback => IInv'
<1> SUFFICES ASSUME IInv, Readback PROVE IInv'
  OBVIOUS
<1>j. journal' \in Seq(Records) /\ (Begun => Begun') /\ (journal' = journal \/ pc' \in Over)
  BY NoteKeepsTheHead DEF IInv, Typed, Readback, End, Begun
<1>1. Typed'
  <2>1. run' \in Runs /\ drive' \in DriveRec /\ journal' \in Seq(Records)
    BY <1>j DEF IInv, Typed, Readback, Keep
  <2>2. StepTyped'
    BY DEF IInv, Typed, StepTyped, Readback, End, Steps, Exits
  <2>3. RungTyped'
    BY DEF IInv, Typed, RungTyped, Readback, Keep
  <2>4. FlagTyped'
    BY DEF IInv, Typed, FlagTyped, Readback, End
  <2>5. HostTyped'
    BY DEF IInv, Typed, HostTyped, Readback, Keep
  <2> QED BY <2>1, <2>2, <2>3, <2>4, <2>5 DEF Typed
<1>2. Placed'
  BY <1>j
  DEF IInv, Placed, OnTheMenu, Consented, Untouched, UnderLock, Stands, NoneOvertakes, Polled, SamplesRead, SamplesZero, NoExitYet,
      Readback, Keep, End
<1>3. EvidenceIsReal'
  BY <1>j DEF IInv, EvidenceIsReal, SummaryIsTerminal, AssemblesOnEvidence, Undeceived, SamplesRead, SamplesZero, Readback, Keep, End
<1>4. ErasureHasAuthority'
  BY <1>j
  DEF IInv, Placed, Consented, ErasureHasAuthority, ErasureIsJournaled, Begun, NothingWithoutConsent,
      Touched, Readback, Keep, End
<1> QED BY <1>1, <1>2, <1>3, <1>4 DEF IInv

LEMMA ThermalKeeps == IInv /\ Thermal => IInv'
<1> SUFFICES ASSUME IInv, Thermal PROVE IInv'
  OBVIOUS
<1>j. journal' \in Seq(Records) /\ (Begun => Begun') /\ (journal' = journal \/ pc' \in Over)
  BY NoteKeepsTheHead DEF IInv, Typed, Thermal, End, Begun
<1>1. Typed'
  <2>1. run' \in Runs /\ drive' \in DriveRec /\ journal' \in Seq(Records)
    BY <1>j DEF IInv, Typed, Thermal, Keep
  <2>2. StepTyped'
    BY DEF IInv, Typed, StepTyped, Thermal, End, Steps, Exits
  <2>3. RungTyped'
    BY DEF IInv, Typed, RungTyped, Thermal, Keep
  <2>4. FlagTyped'
    BY DEF IInv, Typed, FlagTyped, Thermal, End
  <2>5. HostTyped'
    BY DEF IInv, Typed, HostTyped, Thermal, Keep
  <2> QED BY <2>1, <2>2, <2>3, <2>4, <2>5 DEF Typed
<1>2. Placed'
  BY <1>j
  DEF IInv, Placed, OnTheMenu, Consented, Untouched, UnderLock, Stands, NoneOvertakes, Polled, SamplesRead, SamplesZero, NoExitYet,
      Thermal, Keep, End
<1>3. EvidenceIsReal'
  BY <1>j
  DEF IInv, Placed, Stands, EvidenceIsReal, SummaryIsTerminal, AssemblesOnEvidence, Undeceived, SamplesRead, SamplesZero, Thermal, Keep, End
<1>4. ErasureHasAuthority'
  BY <1>j
  DEF IInv, Placed, Consented, ErasureHasAuthority, ErasureIsJournaled, Begun, NothingWithoutConsent,
      Touched, Thermal, Keep, End
<1> QED BY <1>1, <1>2, <1>3, <1>4 DEF IInv

LEMMA AssembleKeeps == IInv /\ Assemble => IInv'
<1> SUFFICES ASSUME IInv, Assemble PROVE IInv'
  OBVIOUS
<1>j. journal' \in Seq(Records) /\ (Begun => Begun')
  <2> DEFINE proof == <<"Verify", "Completed">>
  <2>1. proof \in Seq(Records)
    BY DEF Records
  <2>2. journal' = journal \/ journal' = journal \o proof
    BY DEF Assemble
  <2> HIDE DEF proof
  <2> QED BY <2>1, <2>2, JournalGrows DEF IInv, Typed, Begun
<1>1. Typed'
  <2>1. run' \in Runs /\ drive' \in DriveRec /\ journal' \in Seq(Records)
    BY <1>j DEF IInv, Typed, Assemble, Keep
  <2>2. StepTyped'
    BY DEF IInv, Typed, StepTyped, Assemble, End, Steps, Exits
  <2>3. RungTyped'
    BY DEF IInv, Typed, RungTyped, Assemble, Keep
  <2>4. FlagTyped'
    BY DEF IInv, Typed, FlagTyped, Assemble, End
  <2>5. HostTyped'
    BY DEF IInv, Typed, HostTyped, Assemble, Keep
  <2> QED BY <2>1, <2>2, <2>3, <2>4, <2>5 DEF Typed
<1>2. Placed'
  BY <1>j
  DEF IInv, Placed, OnTheMenu, Consented, Untouched, UnderLock, Stands, NoneOvertakes, Polled, SamplesRead, SamplesZero, NoExitYet,
      Assemble, Keep, End
<1>3. EvidenceIsReal'
  BY <1>j DEF IInv, EvidenceIsReal, SummaryIsTerminal, AssemblesOnEvidence, Undeceived, SamplesRead, SamplesZero, Assemble, Keep
<1>4. ErasureHasAuthority'
  BY <1>j
  DEF IInv, Placed, UnderLock, ErasureHasAuthority, ErasureIsJournaled, Begun, NothingWithoutConsent,
      Assemble, Keep, End
<1> QED BY <1>1, <1>2, <1>3, <1>4 DEF IInv

LEMMA DisconnectKeeps == IInv /\ Disconnect => IInv'
<1> SUFFICES ASSUME IInv, Disconnect PROVE IInv'
  OBVIOUS
<1>1. Typed'
  <2>1. run' \in Runs /\ drive' \in DriveRec /\ journal' \in Seq(Records)
    BY DEF IInv, Typed, Disconnect, Keep
  <2>2. StepTyped'
    BY DEF IInv, Typed, StepTyped, Disconnect, Steps
  <2>3. RungTyped'
    BY DEF IInv, Typed, RungTyped, Disconnect, Keep
  <2>4. FlagTyped'
    BY DEF IInv, Typed, FlagTyped, Disconnect
  <2>5. HostTyped'
    BY DEF IInv, Typed, HostTyped, Disconnect, Keep
  <2> QED BY <2>1, <2>2, <2>3, <2>4, <2>5 DEF Typed
<1>2. Placed'
  BY
  DEF IInv, Placed, OnTheMenu, Consented, Untouched, UnderLock, Stands, NoneOvertakes, Polled, SamplesRead, SamplesZero, NoExitYet,
      Disconnect, Keep
<1>3. EvidenceIsReal'
  BY DEF IInv, EvidenceIsReal, SummaryIsTerminal, AssemblesOnEvidence, Undeceived, SamplesRead, SamplesZero, Disconnect, Keep
<1>4. ErasureHasAuthority'
  BY DEF IInv, ErasureHasAuthority, ErasureIsJournaled, NothingWithoutConsent, Touched, Disconnect, Keep
<1> QED BY <1>1, <1>2, <1>3, <1>4 DEF IInv

LEMMA SanitizeEndsKeeps == IInv /\ SanitizeEnds => IInv'
<1> SUFFICES ASSUME IInv, SanitizeEnds PROVE IInv'
  OBVIOUS
<1>d. drive' \in DriveRec /\ drive'.password = drive.password /\ Touched /\ Touched'
      /\ drive'.attention = drive.attention /\ drive'.reset = drive.reset /\ drive'.denied = drive.denied
      /\ drive'.senseAsData = drive.senseAsData /\ drive.sanitize = "running" /\ drive'.sanitize \notin Unstarted
      /\ drive'.sanitize # "running"
  BY DEF IInv, Typed, DriveRec, Media, OldData, Sanitizing, Unstarted, SanitizeEnds, Touched
<1>1. Typed'
  <2>1. run' \in Runs /\ drive' \in DriveRec /\ journal' \in Seq(Records)
    BY <1>d DEF IInv, Typed, SanitizeEnds
  <2>2. StepTyped'
    BY DEF IInv, Typed, StepTyped, SanitizeEnds, process
  <2>3. RungTyped'
    BY DEF IInv, Typed, RungTyped, SanitizeEnds, process
  <2>4. FlagTyped'
    BY DEF IInv, Typed, FlagTyped, SanitizeEnds, process, host
  <2>5. HostTyped'
    BY DEF IInv, Typed, HostTyped, SanitizeEnds, process, host
  <2> QED BY <2>1, <2>2, <2>3, <2>4, <2>5 DEF Typed
<1>n. run.bus # "nvme" => mech \in Sanitizes
  BY <1>d DEF IInv, Placed, NoneOvertakes, Unstarted
<1>s. mech \notin SecurityErases
  BY <1>n, MechanismsOfABus, RungsOfNvme DEF IInv, Typed, RungTyped, Sanitizes, SecurityErases
<1>o. UNCHANGED <<run, pc, mech, ladder, critical, exit, lock, journal, signal>>
  BY DEF SanitizeEnds, process, host
<1>2. Placed'
  <2>1. (OnTheMenu /\ Consented /\ Untouched)'
    BY <1>d, <1>o DEF IInv, Placed, OnTheMenu, Consented, Untouched
  <2>2. (UnderLock /\ NoExitYet)'
    BY <1>o DEF IInv, Placed, UnderLock, NoExitYet, Begun
  <2>3. Stands'
    BY <1>d, <1>o DEF IInv, Placed, Stands, SamplesRead
  <2>4. (NoneOvertakes /\ Polled)'
    BY <1>d, <1>n, <1>o DEF IInv, Placed, NoneOvertakes, Polled
  <2> QED BY <2>1, <2>2, <2>3, <2>4 DEF Placed
<1>3. EvidenceIsReal'
  <2>1. SummaryIsTerminal'
    BY <1>d, <1>o, <1>s DEF IInv, EvidenceIsReal, SummaryIsTerminal, Undeceived
  <2>2. AssemblesOnEvidence'
    BY <1>d, <1>o DEF IInv, EvidenceIsReal, AssemblesOnEvidence, SamplesRead
  <2> QED BY <2>1, <2>2 DEF EvidenceIsReal
<1>4. ErasureHasAuthority'
  BY <1>d
  DEF IInv, ErasureHasAuthority, ErasureIsJournaled, NothingWithoutConsent, SanitizeEnds, process, host
<1> QED BY <1>1, <1>2, <1>3, <1>4 DEF IInv

LEMMA ResetKeeps == IInv /\ Reset => IInv'
<1> SUFFICES ASSUME IInv, Reset PROVE IInv'
  OBVIOUS
<1>d. drive' \in DriveRec /\ drive'.media = drive.media
      /\ drive'.sanitize = drive.sanitize /\ drive'.password = drive.password
  BY DEF IInv, Typed, DriveRec, Reset
<1>1. Typed'
  <2>1. run' \in Runs /\ drive' \in DriveRec /\ journal' \in Seq(Records)
    BY <1>d DEF IInv, Typed, Reset
  <2>2. StepTyped'
    BY DEF IInv, Typed, StepTyped, Reset, process
  <2>3. RungTyped'
    BY DEF IInv, Typed, RungTyped, Reset, process
  <2>4. FlagTyped'
    BY DEF IInv, Typed, FlagTyped, Reset, process, host
  <2>5. HostTyped'
    BY DEF IInv, Typed, HostTyped, Reset, process, host
  <2> QED BY <2>1, <2>2, <2>3, <2>4, <2>5 DEF Typed
<1>2. Placed'
  BY <1>d
  DEF IInv, Placed, OnTheMenu, Consented, Untouched, Touched, UnderLock, Stands, NoneOvertakes, Polled, SamplesRead, SamplesZero,
      NoExitYet, Reset, process, host, Begun
<1>3. EvidenceIsReal'
  BY <1>d DEF IInv, EvidenceIsReal, SummaryIsTerminal, AssemblesOnEvidence, Undeceived, SamplesRead, SamplesZero, Reset, process
<1>4. ErasureHasAuthority'
  BY <1>d DEF IInv, ErasureHasAuthority, ErasureIsJournaled, NothingWithoutConsent, Touched, Reset, host
<1> QED BY <1>1, <1>2, <1>3, <1>4 DEF IInv

LEMMA SignalKeeps == IInv /\ Signal => IInv'
<1> SUFFICES ASSUME IInv, Signal PROVE IInv'
  OBVIOUS
<1>1. Typed'
  <2>1. run' \in Runs /\ drive' \in DriveRec /\ journal' \in Seq(Records)
    BY DEF IInv, Typed, Signal
  <2>2. StepTyped'
    BY DEF IInv, Typed, StepTyped, Signal, process
  <2>3. RungTyped'
    BY DEF IInv, Typed, RungTyped, Signal, process
  <2>4. FlagTyped'
    BY DEF IInv, Typed, FlagTyped, Signal, process, host
  <2>5. HostTyped'
    BY DEF IInv, Typed, HostTyped, Signal, process, host
  <2> QED BY <2>1, <2>2, <2>3, <2>4, <2>5 DEF Typed
<1>2. Placed'
  BY
  DEF IInv, Placed, OnTheMenu, Consented, Untouched, Touched, UnderLock, Stands, NoneOvertakes, Polled, SamplesRead, SamplesZero,
      NoExitYet, Signal, process, host, Begun
<1>3. EvidenceIsReal'
  BY DEF IInv, EvidenceIsReal, SummaryIsTerminal, AssemblesOnEvidence, Undeceived, SamplesRead, SamplesZero, Signal, process
<1>4. ErasureHasAuthority'
  BY
  DEF IInv, Placed, Untouched, ErasureHasAuthority, ErasureIsJournaled, NothingWithoutConsent, Touched,
      Signal, process, host
<1> QED BY <1>1, <1>2, <1>3, <1>4 DEF IInv

LEMMA KillKeeps == IInv /\ Kill => IInv'
<1> SUFFICES ASSUME IInv, Kill PROVE IInv'
  OBVIOUS
<1>1. Typed'
  <2>1. run' \in Runs /\ drive' \in DriveRec /\ journal' \in Seq(Records)
    BY DEF IInv, Typed, Kill, Keep
  <2>2. StepTyped'
    BY DEF IInv, Typed, StepTyped, Kill, Steps, Exits
  <2>3. RungTyped'
    BY DEF IInv, Typed, RungTyped, Kill, Keep
  <2>4. FlagTyped'
    BY DEF IInv, Typed, FlagTyped, Kill
  <2>5. HostTyped'
    BY DEF IInv, Typed, HostTyped, Kill, Keep
  <2> QED BY <2>1, <2>2, <2>3, <2>4, <2>5 DEF Typed
<1>2. Placed'
  BY
  DEF IInv, Placed, OnTheMenu, Consented, Untouched, UnderLock, Stands, NoneOvertakes, Polled, SamplesRead, SamplesZero, NoExitYet,
      Kill, Keep
<1>3. EvidenceIsReal'
  BY DEF IInv, EvidenceIsReal, SummaryIsTerminal, AssemblesOnEvidence, Undeceived, SamplesRead, SamplesZero, Kill, Keep
<1>4. ErasureHasAuthority'
  BY DEF IInv, ErasureHasAuthority, ErasureIsJournaled, NothingWithoutConsent, Touched, Kill, Keep
<1> QED BY <1>1, <1>2, <1>3, <1>4 DEF IInv

----------------------------------------------------------------------------
(* The invariant *)

LEMMA StartsInOrder == Init => IInv
<1> SUFFICES ASSUME Init PROVE IInv
  OBVIOUS
<1>1. run.bus \in {"nvme", "ata", "scsi"}
  BY PurgeAssumption DEF Init, Runs
<1>2. drive \in DriveRec /\ ~Touched /\ ~drive.attention /\ drive.sanitize \in Unstarted
  <2>1. drive.caps \subseteq Mechanisms
    BY <1>1, MechanismsOfABus DEF Init, Drives, Attestable
  <2> QED BY <2>1 DEF Init, Drives, DriveRec, Passwords, Media, OldData, Sanitizing, Unstarted, Touched
<1>3. Typed
  <2>1. <<>> \in Seq(Records)
    OBVIOUS
  <2>2. StepTyped /\ FlagTyped /\ HostTyped
    BY DEF Init, StepTyped, FlagTyped, HostTyped, Steps, Exits
  <2>3. RungTyped
    BY PurgeAssumption DEF Init, RungTyped
  <2> QED BY <1>2, <2>1, <2>2, <2>3 DEF Init, Typed
<1>4. Placed
  BY <1>2 DEF Init, Placed, OnTheMenu, Consented, Untouched, Touched, UnderLock, Stands,
              NoneOvertakes, Polled, SamplesRead, SamplesZero, NoExitYet
<1>5. EvidenceIsReal /\ ErasureHasAuthority
  BY <1>2 DEF Init, EvidenceIsReal, SummaryIsTerminal, AssemblesOnEvidence, Undeceived, SamplesRead, SamplesZero, ErasureHasAuthority,
              ErasureIsJournaled, NothingWithoutConsent
<1> QED BY <1>3, <1>4, <1>5 DEF IInv

LEMMA StutterKeeps == IInv /\ UNCHANGED vars => IInv'
<1> SUFFICES ASSUME IInv, UNCHANGED vars PROVE IInv'
  OBVIOUS
<1>1. Typed'
  BY DEF IInv, vars, process, host, Typed, StepTyped, RungTyped, FlagTyped, HostTyped
<1>2. Placed'
  BY DEF IInv, vars, process, host, Placed, OnTheMenu, Consented, Untouched, Touched, UnderLock,
         Begun, Stands, NoneOvertakes, Polled, SamplesRead, SamplesZero, NoExitYet
<1>3. EvidenceIsReal' /\ ErasureHasAuthority'
  BY DEF IInv, vars, process, host, EvidenceIsReal, SummaryIsTerminal, AssemblesOnEvidence, Undeceived, SamplesRead, SamplesZero,
         ErasureHasAuthority, ErasureIsJournaled, NothingWithoutConsent, Touched
<1> QED BY <1>1, <1>2, <1>3 DEF IInv

LEMMA StepsInOrder == IInv /\ [Next]_vars => IInv'
<1> SUFFICES ASSUME IInv, [Next]_vars PROVE IInv'
  OBVIOUS
<1>1. CASE Confirming
  BY <1>1, ConnectKeeps, ProbeKeeps, IdentifyKeeps, LunDeleteKeeps, PmCycleKeeps, SelectKeeps,
     PromptKeeps, TokenKeeps DEF Confirming
<1>2. CASE Armed
  BY <1>2, ArmKeeps, CreateJournalKeeps, IntakeKeeps, IssueSanitizeKeeps, PollKeeps, IssueFormatKeeps,
     RefuseOverwriteKeeps, SetPasswordKeeps, PrepareKeeps, EraseUnitKeeps, RepairKeeps, ReadbackKeeps,
     ThermalKeeps, AssembleKeeps, DisconnectKeeps DEF Armed
<1>3. CASE Around
  BY <1>3, SanitizeEndsKeeps, ResetKeeps, SignalKeeps, KillKeeps DEF Around
<1>4. CASE UNCHANGED vars
  BY <1>4, StutterKeeps
<1> QED BY <1>1, <1>2, <1>3, <1>4 DEF Next

\* Every reachable state of a purge is in order: the run is where its journal,
\* its lock and the rung it stands on say (cmd_purge, execute_purge_ladder).
THEOREM PurgeInOrder == Spec => []IInv
<1> QED BY StartsInOrder, StepsInOrder, PTL DEF Spec

\* The state of a purge has its type, the poll budget included
\* (wait_for_sanitize_completion never reads the status past max_polls).
THEOREM TypeCorrect == Spec => []TypeOK
<1>1. IInv => TypeOK
  BY TypedIsTypeOK DEF IInv
<1> QED BY <1>1, PurgeInOrder, PTL

\* What the ladder reports, and what a certificate is assembled on, is the state
\* of the drive (execute_purge_ladder, run_nvme_purge).
THEOREM RealEvidence == Spec => []EvidenceIsReal
<1>1. IInv => EvidenceIsReal
  BY DEF IInv
<1> QED BY <1>1, PurgeInOrder, PTL

\* A drive is touched only under the lock, after the journal said so and the
\* operator agreed (confirm_destructive_purge, create_purge_journal).
THEOREM AuthorizedErasure == Spec => []ErasureHasAuthority
<1>1. IInv => ErasureHasAuthority
  BY DEF IInv
<1> QED BY <1>1, PurgeInOrder, PTL

----------------------------------------------------------------------------
(* What a step may not do *)

\* The rung changes where a rung is chosen, and where one is rejected.
LEMMA RungChangesAtIssue == Next /\ mech' # mech => pc \in {"Intake", "Issue"}
<1> SUFFICES ASSUME Next, mech' # mech PROVE pc \in {"Intake", "Issue"}
  OBVIOUS
<1>1. CASE Confirming
  BY <1>1 DEF Confirming, Connect, Probe, Identify, LunDelete, PmCycle, Select, Prompt, Token
<1>2. CASE Armed
  <2>1. CASE Arm \/ CreateJournal \/ Poll \/ Readback \/ Thermal \/ Assemble \/ Disconnect
    BY <2>1 DEF Arm, CreateJournal, Poll, Readback, Thermal, Assemble, Disconnect
  <2>2. CASE Intake \/ IssueSanitize \/ IssueFormat \/ RefuseOverwrite \/ SetPassword
    BY <2>2 DEF Intake, IssueSanitize, IssueFormat, RefuseOverwrite, SetPassword
  <2>3. CASE Prepare \/ EraseUnit \/ Repair
    BY <2>3 DEF Prepare, EraseUnit, Repair
  <2> QED BY <1>2, <2>1, <2>2, <2>3 DEF Armed
<1>3. CASE Around
  BY <1>3 DEF Around, SanitizeEnds, Reset, Signal, Kill, process
<1> QED BY <1>1, <1>2, <1>3 DEF Next

\* An ATA or SCSI ladder takes another rung only from a drive that took none before
\* it (execute_purge_ladder: a fault is fatal, a rejection is not).
THEOREM LadderOnlyDown == Spec => LadderWalksDown
<1>1. IInv /\ [Next]_vars =>
        (run.bus # "nvme" /\ mech' # mech /\ mech # "none" => ~Touched) \/ UNCHANGED vars
  BY RungChangesAtIssue DEF IInv, Placed, Untouched
<1> QED BY <1>1, PurgeInOrder, PTL DEF Spec, LadderWalksDown

\* A rejected SECURITY ERASE UNIT leaves no password that nobody knows: it is off
\* the drive or printed (execute_security_erase, no_harm_repair).
THEOREM RefusalsRecoverable == Spec => EraseRefusalIsRecoverable
<1>1. ASSUME IInv, Repair PROVE drive'.password = "none" \/ disclosed'
  <2>1. PICK disabled \in BOOLEAN, told \in BOOLEAN, read \in BOOLEAN :
          /\ told => disabled
          /\ drive' = [drive EXCEPT !.password = IF disabled THEN "none" ELSE drive.password]
          /\ Discloses(told, read /\ drive.locked) => disclosed'
    BY <1>1 DEF Repair
  <2>2. CASE told
    BY <1>1, <2>1, <2>2 DEF IInv, Typed, DriveRec
  <2>3. CASE ~told
    BY <2>1, <2>3 DEF Discloses
  <2> QED BY <2>2, <2>3
<1>2. ASSUME Next, pc = "Repair", pc' # "Repair", exit' # "killed" PROVE Repair
  <2>1. ~Confirming
    BY <1>2 DEF Confirming, Connect, Probe, Identify, LunDelete, PmCycle, Select, Prompt, Token
  <2>2. Armed => Repair
    BY <1>2 DEF Armed, Arm, CreateJournal, Intake, IssueSanitize, Poll, IssueFormat, RefuseOverwrite,
                SetPassword, Prepare, EraseUnit, Readback, Thermal, Assemble, Disconnect
  <2>3. ~Around
    BY <1>2 DEF Around, SanitizeEnds, Reset, Signal, Kill, process
  <2> QED BY <1>2, <2>1, <2>2, <2>3 DEF Next
<1>3. IInv /\ [Next]_vars =>
        \/ pc = "Repair" /\ pc' # "Repair" /\ exit' # "killed"
             => drive'.password = "none" \/ disclosed'
        \/ UNCHANGED vars
  BY <1>1, <1>2
<1> QED BY <1>3, PurgeInOrder, PTL DEF Spec, EraseRefusalIsRecoverable
=============================================================================
