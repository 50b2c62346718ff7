------------------------------ MODULE PurgeRun ------------------------------
(***************************************************************************)
(* One `dc purge`: the command of dc-cli/src/purge.rs and the firmware     *)
(* ladder it drives on an NVMe, an ATA (SAT) or a SCSI controller.         *)
(*                                                                         *)
(* The command probes the target, asks the operator, locks the block node, *)
(* writes the journal's head and then walks the ladder: a sanitize polled  *)
(* to an end, a blocking format, or an ATA security erase armed with a     *)
(* password only this run holds.  A controller's rejection takes the next  *)
(* rung; everything else ends the run.  Beside the command the drive       *)
(* sanitizes at its own pace and may be reset, the operator may press ^C,  *)
(* and the process may be killed between any two commands.                 *)
(***************************************************************************)
EXTENDS Naturals, Sequences

CONSTANTS Buses,      \* the controller families of the run
          MaxPolls    \* max_polls, the budget of one sanitize

ASSUME PurgeAssumption ==
  /\ Buses \subseteq {"nvme", "ata", "scsi"}
  /\ MaxPolls \in Nat

\* The rungs of each family's ladder, the last of nvme being the logical
\* overwrite no admin command performs.
Ladder == [nvme |-> <<"crypto", "block", "formatCrypto", "overwrite">>,
           ata  |-> <<"crypto", "block", "enhanced", "normal">>,
           scsi |-> <<"crypto", "block", "formatUnit">>]
Rungs(bus)     == {Ladder[bus][i] : i \in DOMAIN Ladder[bus]}
Sanitizes      == {"crypto", "block"}
Formats        == {"formatCrypto", "formatUnit"}
SecurityErases == {"enhanced", "normal"}
Mechanisms     == Sanitizes \cup Formats \cup SecurityErases \cup {"overwrite"}

\* --mechanism, and what validate_for_bus lets through for a family.
Requests  == {"auto"} \cup (Mechanisms \ {"overwrite"})
Menu(bus) == {"auto"} \cup (Rungs(bus) \ {"overwrite"})

VARIABLES
  run,          \* the command line and the family of its target
  drive,        \* the drive and its controller
  pc,           \* the next step of the command
  mech,         \* the rung the ladder stands on
  polls,        \* reads of the sanitize status so far
  ladder,       \* what the ladder returned
  critical,     \* the thermal monitor saw a critical temperature
  disclosed,    \* the rescue password was printed and journalled
  stages,       \* the geometry stages recorded for the certificate
  journal,      \* the records of the run's journal
  lock,         \* the block node is held O_EXCL
  session,      \* the fabric session
  port,         \* power/control of the drive's ATA port
  signal,       \* a SIGINT or SIGTERM, and whether it came before the last look
  certificate,  \* the certificate is on disk
  exit          \* how the command ended

process == <<pc, mech, polls, ladder, critical, disclosed, stages, certificate>>
host    == <<lock, session, port>>
vars    == <<run, drive, process, host, journal, signal, exit>>

\* What is on the drive.  "sparse" is data in no window the read-back samples:
\* one in 64, the others it never looks at.
Media     == {"data", "sparse", "partial", "scrambled", "zeros"}
OldData   == {"data", "sparse"}

\* What the sanitize log tells: "stale" is the success of an earlier run, which
\* the log keeps and the code cannot tell from "done".
Unstarted  == {"idle", "stale"}
Sanitizing == Unstarted \cup {"running", "done", "failed"}
Passwords == {"none", "ours", "foreign"}
Steps     == {"Start", "Probe", "Identify", "LunDelete", "PmCycle", "Select", "Prompt",
              "Token", "Arm", "Journal", "Intake", "Issue", "Poll", "Prepare",
              "EraseUnit", "Repair", "Readback", "Thermal", "Assemble", "Close", "Done"}
Exits     == {"none", "refused", "usage", "dry_run", "interrupted", "io_error", "PURGE_FROZEN",
              "PURGE_FAILED", "LIFELINE_DISCLOSED", "VERIFICATION_FAILED", "THERMAL_CRITICAL",
              "not_flushed", "certified", "killed"}
BeforeLastLook == {"Start", "Probe", "Identify", "LunDelete", "PmCycle", "Select", "Prompt", "Token"}

Attestable(bus) ==
  {c \in SUBSET (Rungs(bus) \ {"overwrite"}) : "enhanced" \in c => "normal" \in c}

Runs == {r \in [bus : Buses, fabric : BOOLEAN, request : Requests, dryRun : BOOLEAN,
                coldUnfreeze : BOOLEAN] :
           /\ r.fabric => r.bus = "nvme"
           /\ r.coldUnfreeze => r.bus = "ata"}

Drives(bus) ==
  {d \in [caps : Attestable(bus), frozen : BOOLEAN, locked : BOOLEAN,
          password : Passwords \ {"ours"}, hidden : {"none", "hpa", "dco"}, media : OldData,
          sanitize : Unstarted, attention : {FALSE}, senseAsData : BOOLEAN,
          denied : {FALSE}, reset : {FALSE}] :
     /\ d.locked <=> d.password = "foreign"
     /\ bus # "ata" => ~d.frozen /\ ~d.locked /\ d.hidden = "none"
     /\ bus # "nvme" => d.media = "data" /\ d.sanitize = "idle"
     /\ d.senseAsData => bus = "scsi"}
-----------------------------------------------------------------------------
(* Ways a step ends.                                                       *)

\* The command returns; a run on a fabric namespace disconnects first.
End(code) == /\ exit' = code
             /\ lock' = FALSE
             /\ pc' = IF session = "open" THEN "Close" ELSE "Done"

\* A `?` in run_fabric_purge itself, past which no disconnect comes.
Leave(code) == exit' = code /\ lock' = FALSE /\ pc' = "Done"

Keep == UNCHANGED <<run, signal>>

\* `let _ = journal.append(Failed)`: the record is written or the error dropped.
NoteFailed == journal' \in {journal, Append(journal, "Failed")}

\* The ladder returned an error.
Fatal == /\ ladder' = "failed"
         /\ NoteFailed
         /\ End("PURGE_FAILED")

NextRung(bus, m) ==
  LET i == CHOOSE k \in DOMAIN Ladder[bus] : Ladder[bus][k] = m
  IN  Ladder[bus][i + 1]

\* The rung the ladder starts on: the operator's, or the first the controller
\* attests; a SCSI controller attests nothing before it is asked.
Primary(r, caps) ==
  IF r.request # "auto" THEN r.request
  ELSE IF r.bus = "scsi" THEN "crypto"
  ELSE IF \E m \in Rungs(r.bus) : m \in caps
       THEN Ladder[r.bus][CHOOSE k \in DOMAIN Ladder[r.bus] :
              /\ Ladder[r.bus][k] \in caps
              /\ \A j \in 1 .. k - 1 : Ladder[r.bus][j] \notin caps]
       ELSE "none"
-----------------------------------------------------------------------------
(* The command, up to the ladder.                                          *)

Init == /\ run \in Runs
        /\ drive \in Drives(run.bus)
        /\ pc = "Start" /\ mech = "none" /\ polls = 0 /\ ladder = "none"
        /\ critical = FALSE /\ disclosed = FALSE /\ stages = {} /\ certificate = FALSE
        /\ lock = FALSE /\ session = "none" /\ port = "on"
        /\ journal = <<>> /\ signal = "none" /\ exit = "none"

\* cmd_purge, and connect for a fabric target: the target refuses, or accepts
\* and no controller appears in time, or the controller is online.
Connect ==
  /\ pc = "Start"
  /\ IF run.fabric
     THEN \/ session' = "none" /\ Leave("refused")
          \/ session' = "open" /\ Leave("refused")
          \/ session' = "open" /\ pc' = "Probe" /\ UNCHANGED <<exit, lock>>
     ELSE pc' = "Probe" /\ UNCHANGED <<exit, lock, session>>
  /\ Keep /\ UNCHANGED <<drive, mech, polls, ladder, critical, disclosed, stages, certificate, port, journal>>

\* The namespace appears, the TPM and vault evidence is captured, the device is
\* probed, the Guardian evaluates it, the mechanism is validated for the bus.
Probe ==
  /\ pc = "Probe"
  /\ \/ End("refused")
     \/ Leave("refused")
     \/ /\ run.request \in Menu(run.bus)
        /\ pc' = "Identify" /\ UNCHANGED <<exit, lock>>
     \/ run.request \notin Menu(run.bus) /\ Leave("usage")
  /\ Keep /\ UNCHANGED <<drive, mech, polls, ladder, critical, disclosed, stages, certificate,
                         session, port, journal>>

\* The transport opens and the controller identifies itself.
Identify ==
  /\ pc = "Identify"
  /\ \/ End("refused")
     \/ /\ pc' = IF drive.frozen /\ run.coldUnfreeze THEN "LunDelete" ELSE "Select"
        /\ UNCHANGED <<exit, lock>>
  /\ Keep /\ UNCHANGED <<drive, mech, polls, ladder, critical, disclosed, stages, certificate,
                         session, port, journal>>

\* What the recheck after a cold-bus step found: the node came back thawed (and
\* was identified again, or not), still frozen, or did not come back.
ColdBus(onwards) ==
  \E thawed \in BOOLEAN :
    /\ drive' = [drive EXCEPT !.frozen = ~thawed]
    /\ \/ thawed /\ pc' = "Select" /\ UNCHANGED <<exit, lock>>
       \/ thawed /\ End("refused")
       \/ ~thawed /\ onwards
       \/ End("PURGE_FROZEN")

\* Step 1: delete the LUN and rescan its host.
LunDelete ==
  /\ pc = "LunDelete"
  /\ ColdBus(pc' = "PmCycle" /\ UNCHANGED <<exit, lock>>)
  /\ Keep /\ UNCHANGED <<mech, polls, ladder, critical, disclosed, stages, certificate,
                         session, port, journal>>

\* Step 2: power/control to auto, and back to on once the port suspended.
PmCycle ==
  /\ pc = "PmCycle"
  /\ ColdBus(End("PURGE_FROZEN"))
  /\ port' \in {"on", "auto"}
  /\ Keep /\ UNCHANGED <<mech, polls, ladder, critical, disclosed, stages, certificate,
                         session, journal>>

\* An NVMe controller that attests nothing is refused; a dry run ends here.
Select ==
  /\ pc = "Select"
  /\ IF run.bus = "nvme" /\ Primary(run, drive.caps) = "none" THEN End("refused")
     ELSE IF run.dryRun THEN End("dry_run")
     ELSE pc' = "Prompt" /\ UNCHANGED <<exit, lock>>
  /\ Keep /\ UNCHANGED <<drive, mech, polls, ladder, critical, disclosed, stages, certificate,
                         session, port, journal>>

\* confirm_destructive_purge: nobody to ask, a signal already there, or the question.
Prompt ==
  /\ pc = "Prompt"
  /\ \/ End("refused")
     \/ signal # "none" /\ End("interrupted")
     \/ signal = "none" /\ pc' = "Token" /\ UNCHANGED <<exit, lock>>
  /\ Keep /\ UNCHANGED <<drive, mech, polls, ladder, critical, disclosed, stages, certificate,
                         session, port, journal>>

\* The token is compared, and the signals are looked at a last time.
Token ==
  /\ pc = "Token"
  /\ \/ End("usage")
     \/ signal # "none" /\ End("interrupted")
     \/ signal = "none" /\ pc' = "Arm" /\ UNCHANGED <<exit, lock>>
  /\ Keep /\ UNCHANGED <<drive, mech, polls, ladder, critical, disclosed, stages, certificate,
                         session, port, journal>>

\* Guardian::arm_and_lock, and the operator's key.
Arm ==
  /\ pc = "Arm"
  /\ \/ End("refused")
     \/ lock' = TRUE /\ pc' = "Journal" /\ UNCHANGED exit
  /\ Keep /\ UNCHANGED <<drive, mech, polls, ladder, critical, disclosed, stages, certificate,
                         session, port, journal>>

\* Variant: a failed append is dropped and the purge goes on.
CreateJournalLax ==
  /\ pc = "Journal"
  /\ \E written \in 0 .. 2 : journal' = SubSeq(<<"Header", "Armed">>, 1, written)
  /\ pc' = "Intake" /\ UNCHANGED <<exit, lock>>
  /\ Keep /\ UNCHANGED <<drive, mech, polls, ladder, critical, disclosed, stages, certificate,
                         session, port>>

\* create_purge_journal: Header, then Armed; an append that fails ends the run.
CreateJournal ==
  /\ pc = "Journal"
  /\ \E written \in 0 .. 2 :
       /\ journal' = SubSeq(<<"Header", "Armed">>, 1, written)
       /\ IF written = 2 THEN pc' = "Intake" /\ UNCHANGED <<exit, lock>> ELSE End("io_error")
  /\ Keep /\ UNCHANGED <<drive, mech, polls, ladder, critical, disclosed, stages, certificate,
                         session, port>>
-----------------------------------------------------------------------------
(* The ladder.                                                             *)

\* restore_geometry: a DCO is recorded as a stage and left for a power-on reset;
\* an HPA is lifted by SET MAX; a capacity that cannot be read hides nothing.
RestoreGeometry ==
  \/ UNCHANGED <<drive, stages>>
  \/ drive.hidden = "dco" /\ stages' = {"dco"} /\ UNCHANGED drive
  \/ drive.hidden = "hpa" /\ stages' = {"hpa"} /\ drive' = [drive EXCEPT !.hidden = "none"]

\* execute_purge_ladder: an ATA drive is identified again, and refused when it is
\* frozen, locked by a password of another, or without a mechanism.
Intake ==
  /\ pc = "Intake"
  /\ LET primary == Primary(run, drive.caps)
         ready   == ~drive.frozen /\ ~drive.locked
     IN  \/ run.bus = "ata" /\ Fatal /\ UNCHANGED <<drive, mech, stages>>
         \/ run.bus = "ata" /\ ready /\ primary = "none"
            /\ RestoreGeometry /\ Fatal /\ UNCHANGED mech
         \/ /\ IF run.bus = "ata" THEN ready /\ RestoreGeometry ELSE UNCHANGED <<drive, stages>>
            /\ primary # "none"
            /\ mech' = primary /\ pc' = "Issue" /\ UNCHANGED <<journal, ladder, exit, lock>>
  /\ Keep /\ UNCHANGED <<polls, critical, disclosed, certificate, session, port>>

\* The drive once it has started the rung's sanitize, if it can: it must know it,
\* and aborts every erase while another runs.
CanStart == mech \in drive.caps /\ drive.sanitize # "running"
Started  == IF CanStart THEN [drive EXCEPT !.sanitize = "running"] ELSE drive

\* A status of the controller comes back from NVME_IOCTL_ADMIN_CMD as a positive
\* number, which admin_passthrough takes for success.
Denied == run.bus = "nvme" /\ drive' = [drive EXCEPT !.denied = TRUE]

\* Variant: a transport fault takes the next rung too.
IssueSanitizeRetries ==
  /\ pc = "Issue" /\ mech \in Sanitizes
  /\ \/ /\ (CanStart /\ drive' = Started) \/ Denied
        /\ polls' = 0 /\ pc' = "Poll" /\ UNCHANGED <<mech, ladder, journal, exit, lock>>
     \/ /\ mech' = NextRung(run.bus, mech)
        /\ drive' \in {drive, Started} /\ UNCHANGED <<polls, pc, ladder, journal, exit, lock>>
  /\ Keep /\ UNCHANGED <<critical, disclosed, stages, certificate, session, port>>

\* SANITIZE: accepted and running, denied and taken for accepted, rejected, or
\* anything else, which is fatal and may have started it all the same.  An ATA or
\* SCSI rejection is the sense of a command not executed; on NVMe it is EIO, of
\* the controller or of the transport, and the sanitize may have started.
IssueSanitize ==
  /\ pc = "Issue" /\ mech \in Sanitizes
  /\ \/ /\ (CanStart /\ drive' = Started) \/ Denied
        /\ polls' = 0 /\ pc' = "Poll" /\ UNCHANGED <<mech, ladder, journal, exit, lock>>
     \/ /\ mech' = NextRung(run.bus, mech)
        /\ drive' = drive \/ (run.bus = "nvme" /\ drive' = Started)
        /\ UNCHANGED <<polls, pc, ladder, journal, exit, lock>>
     \/ Fatal /\ drive' \in {drive, Started} /\ UNCHANGED <<mech, polls>>
  /\ Keep /\ UNCHANGED <<critical, disclosed, stages, certificate, session, port>>

\* What one read of the status says: the sanitize log of NVMe and ATA; REQUEST
\* SENSE of SCSI, where a unit attention or an empty sense buffer ends the wait.
Status == IF run.bus = "scsi" /\ (drive.attention \/ drive.senseAsData) THEN "done"
          ELSE IF drive.sanitize = "stale" THEN "done" ELSE drive.sanitize

\* Neither an end nor a failure: the loop waits, also for a sanitize never started,
\* and after an NVMe read that was denied and left the buffer zeroed.
Waits == Status \in {"idle", "running"} \/ run.bus = "nvme"

\* Variant: one poll past the budget.
PollOneMore ==
  /\ pc = "Poll"
  /\ \/ Fatal /\ UNCHANGED <<critical, polls>>
     \/ /\ Status = "done"
        /\ ladder' = "ok" /\ pc' = "Thermal" /\ UNCHANGED <<critical, polls, journal, exit, lock>>
     \/ /\ Waits /\ polls <= MaxPolls
        /\ critical' \in {critical, TRUE}
        /\ polls' = polls + 1 /\ UNCHANGED <<pc, ladder, journal, exit, lock>>
  /\ drive' = [drive EXCEPT !.attention = FALSE]
  /\ Keep /\ UNCHANGED <<mech, disclosed, stages, certificate, session, port>>

\* Variant: progress restarts the budget.
PollAfresh ==
  /\ pc = "Poll"
  /\ \/ Fatal /\ UNCHANGED <<critical, polls>>
     \/ /\ Status = "done"
        /\ ladder' = "ok" /\ pc' = "Thermal" /\ UNCHANGED <<critical, polls, journal, exit, lock>>
     \/ /\ Waits /\ polls < MaxPolls
        /\ critical' \in {critical, TRUE}
        /\ polls' = (polls + 1) % MaxPolls /\ UNCHANGED <<pc, ladder, journal, exit, lock>>
  /\ drive' = [drive EXCEPT !.attention = FALSE]
  /\ Keep /\ UNCHANGED <<mech, disclosed, stages, certificate, session, port>>

\* One turn of the poll loop.  A fault, a reported failure and a spent budget are
\* fatal; a SCSI turn reads the thermometer before it looks at the budget.
Poll ==
  /\ pc = "Poll"
  /\ \/ /\ Fatal
        /\ critical' \in {critical, critical \/ (run.bus = "scsi" /\ Waits)}
        /\ UNCHANGED polls
     \/ /\ Status = "done"
        /\ ladder' = "ok" /\ pc' = "Thermal" /\ UNCHANGED <<critical, polls, journal, exit, lock>>
     \/ /\ Waits /\ polls < MaxPolls
        /\ critical' \in {critical, TRUE}
        /\ polls' = polls + 1 /\ UNCHANGED <<pc, ladder, journal, exit, lock>>
  /\ drive' = [drive EXCEPT !.attention = FALSE]
  /\ Keep /\ UNCHANGED <<mech, disclosed, stages, certificate, session, port>>

\* Format NVM and FORMAT UNIT block; their good return is the completion.  What
\* Format NVM is denied or loses to EIO is read as in IssueSanitize.
IssueFormat ==
  /\ pc = "Issue" /\ mech \in Formats
  /\ \/ /\ \/ CanStart /\ \E left \in {"zeros", "scrambled", "sparse", "data"} :
                drive' = [drive EXCEPT !.media = left]
           \/ Denied
        /\ ladder' = "ok" /\ pc' = IF mech = "formatCrypto" THEN "Readback" ELSE "Thermal"
        /\ UNCHANGED <<mech, journal, exit, lock>>
     \/ /\ mech = "formatCrypto" /\ mech' = NextRung(run.bus, mech)
        /\ \E left \in {drive.media, "partial", "zeros"} :
             drive' = [drive EXCEPT !.media = IF CanStart THEN left ELSE @]
        /\ UNCHANGED <<pc, ladder, journal, exit, lock>>
     \/ /\ Fatal /\ UNCHANGED mech
        /\ \E left \in {drive.media, "partial", "zeros"} :
             drive' = [drive EXCEPT !.media = IF CanStart THEN left ELSE @]
  /\ Keep /\ UNCHANGED <<polls, critical, disclosed, stages, certificate, session, port>>

\* LogicalOverwrite is refused outright.
RefuseOverwrite ==
  /\ pc = "Issue" /\ mech = "overwrite"
  /\ Fatal
  /\ Keep /\ UNCHANGED <<drive, mech, polls, critical, disclosed, stages, certificate, session, port>>

\* SECURITY SET PASSWORD with the run's random password; enhanced falls to
\* normal when IDENTIFY does not list it.
SetPassword ==
  /\ pc = "Issue" /\ mech \in SecurityErases
  /\ LET armed == [drive EXCEPT !.password = "ours"]
     IN  \/ Fatal /\ UNCHANGED <<mech, drive>>
         \/ /\ "normal" \in drive.caps
            /\ mech' = IF "enhanced" \in drive.caps THEN mech ELSE "normal"
            /\ drive' = armed
            /\ Fatal \/ (pc' = "Prepare" /\ UNCHANGED <<ladder, journal, exit, lock>>)
  /\ Keep /\ UNCHANGED <<polls, critical, disclosed, stages, certificate, session, port>>

\* SECURITY ERASE PREPARE; on a bad status the password is taken off, if the
\* drive lets it be, and the result ignored.
Prepare ==
  /\ pc = "Prepare"
  /\ \/ pc' = "EraseUnit" /\ UNCHANGED <<drive, ladder, journal, exit, lock>>
     \/ Fatal /\ drive' \in {drive, [drive EXCEPT !.password = "none"]}
     \/ Fatal /\ UNCHANGED drive
  /\ Keep /\ UNCHANGED <<mech, polls, critical, disclosed, stages, certificate, session, port>>

\* SECURITY ERASE UNIT blocks: a good return voids the password, a bad status
\* goes to the repair, a transport fault ends the run.
EraseUnit ==
  /\ pc = "EraseUnit"
  /\ \E left \in {"data", "partial"}, l \in BOOLEAN :
       LET erased == [drive EXCEPT !.media = "zeros", !.password = "none"]
           broken == [drive EXCEPT !.media = left, !.locked = l]
       IN  \/ drive' = erased /\ ladder' = "ok" /\ pc' = "Thermal" /\ UNCHANGED <<journal, exit, lock>>
           \/ drive' = broken /\ pc' = "Repair" /\ UNCHANGED <<ladder, journal, exit, lock>>
           \/ drive' \in {broken, drive, erased} /\ Fatal
  /\ Keep /\ UNCHANGED <<mech, polls, critical, disclosed, stages, certificate, session, port>>

\* Variant: only the drive's second IDENTIFY is asked.
DisclosesIfLocked(repaired, locked) == locked

\* Whether execute_security_erase discloses the password: the repair was not
\* confirmed, or the drive still reads as locked.
Discloses(repaired, locked) == ~(repaired /\ ~locked)

\* no_harm_repair, the second IDENTIFY (read as unlocked when it fails) and the
\* verdict.  A locked drive aborts DISABLE PASSWORD.
Repair ==
  /\ pc = "Repair"
  /\ \E disabled, told, read \in BOOLEAN :
       /\ told => disabled
       /\ disabled => ~drive.locked
       /\ drive' = [drive EXCEPT !.password = IF disabled THEN "none" ELSE @]
       /\ IF Discloses(told, read /\ drive.locked)
          THEN disclosed' = TRUE /\ ladder' = "failed" /\ NoteFailed /\ End("LIFELINE_DISCLOSED")
          ELSE Fatal /\ UNCHANGED disclosed
  /\ Keep /\ UNCHANGED <<mech, polls, critical, stages, certificate, session, port>>
-----------------------------------------------------------------------------
(* From the ladder's success to the certificate.                           *)

\* Every sampled window reads as zeros; a drive at its sanitize aborts reads.
SamplesRead  == drive.sanitize # "running"
SamplesZero  == drive.media \in {"zeros", "sparse"}

\* Variant: the operator's mechanism decides, not the one that ran.
ReadbackRequested ==
  /\ pc = "Readback"
  /\ \/ run.request = "formatCrypto" /\ ~SamplesZero /\ NoteFailed /\ End("VERIFICATION_FAILED")
     \/ run.request # "formatCrypto" /\ pc' = "Thermal" /\ UNCHANGED <<journal, exit, lock>>
  /\ Keep /\ UNCHANGED <<drive, mech, polls, ladder, critical, disclosed, stages, certificate,
                         session, port>>

\* run_nvme_purge reads one window in 64 of a crypto format back for zeros.
Readback ==
  /\ pc = "Readback"
  /\ \/ End("io_error") /\ UNCHANGED journal
     \/ SamplesRead /\ ~SamplesZero /\ NoteFailed /\ End("VERIFICATION_FAILED")
     \/ SamplesRead /\ SamplesZero /\ pc' = "Thermal" /\ UNCHANGED <<journal, exit, lock>>
  /\ Keep /\ UNCHANGED <<drive, mech, polls, ladder, critical, disclosed, stages, certificate,
                         session, port>>

\* A critical temperature seen between two polls refuses the certificate.
Thermal ==
  /\ pc = "Thermal"
  /\ \/ critical /\ NoteFailed /\ End("THERMAL_CRITICAL")
     \/ ~critical /\ pc' = "Assemble" /\ UNCHANGED <<journal, exit, lock>>
  /\ Keep /\ UNCHANGED <<drive, mech, polls, ladder, critical, disclosed, stages, certificate,
                         session, port>>

\* FsmOrchestrator::begin_verify: only from Flushing.
begin_verify(state) == state = "Flushing"

\* assemble_purge_certificate compiles, approves and arms a fresh orchestrator
\* and asks it to verify; Verify, Completed and the certificate come after.
Assemble ==
  /\ pc = "Assemble"
  /\ IF begin_verify("Armed")
     THEN /\ journal' = journal \o <<"Verify", "Completed">>
          /\ certificate' = TRUE /\ End("certified")
     ELSE UNCHANGED <<journal, certificate>> /\ End("not_flushed")
  /\ Keep /\ UNCHANGED <<drive, mech, polls, ladder, critical, disclosed, stages, session, port>>

\* run_fabric_purge disconnects; the target acknowledges or does not.
Disconnect ==
  /\ pc = "Close"
  /\ session' \in {"closed", "unacked"} /\ pc' = "Done"
  /\ Keep /\ UNCHANGED <<drive, mech, polls, ladder, critical, disclosed, stages, certificate,
                         lock, port, journal, exit>>
-----------------------------------------------------------------------------
(* The drive, the operator and the host.                                   *)

\* A sanitize under way ends, with or without an error.
SanitizeEnds ==
  /\ drive.sanitize = "running"
  /\ \/ drive' = [drive EXCEPT !.sanitize = "done", !.media = "scrambled"]
     \/ drive' = [drive EXCEPT !.sanitize = "failed", !.media = "partial"]
  /\ UNCHANGED <<run, process, host, journal, signal, exit>>

\* A bus reset leaves a unit attention; a sanitize under way goes on.
Reset ==
  /\ run.bus = "scsi" /\ ~drive.attention /\ pc \in {"Issue", "Poll"}
  /\ drive' = [drive EXCEPT !.attention = TRUE, !.reset = TRUE]
  /\ UNCHANGED <<run, process, host, journal, signal, exit>>

\* SIGINT or SIGTERM sets the flag, and nothing else.
Signal ==
  /\ signal = "none" /\ pc # "Done"
  /\ signal' = IF pc \in BeforeLastLook THEN "early" ELSE "late"
  /\ UNCHANGED <<run, drive, process, host, journal, exit>>

\* The process dies; the kernel drops its lock, the fabric session stays.
Kill ==
  /\ pc # "Done"
  /\ pc' = "Done" /\ exit' = "killed" /\ lock' = FALSE
  /\ Keep /\ UNCHANGED <<drive, mech, polls, ladder, critical, disclosed, stages, certificate,
                         session, port, journal>>

Confirming == Connect \/ Probe \/ Identify \/ LunDelete \/ PmCycle \/ Select \/ Prompt \/ Token
Armed      == Arm \/ CreateJournal \/ Intake \/ IssueSanitize \/ Poll \/ IssueFormat
              \/ RefuseOverwrite \/ SetPassword \/ Prepare \/ EraseUnit \/ Repair
              \/ Readback \/ Thermal \/ Assemble \/ Disconnect
Around     == SanitizeEnds \/ Reset \/ Signal \/ Kill

Next == Confirming \/ Armed \/ Around
Spec == Init /\ [][Next]_vars

\* Nothing waits on the operator or on the drive once the block node is locked:
\* every command has a timeout and every poll loop a budget.
LiveSpec == Spec /\ WF_vars(Armed)
-----------------------------------------------------------------------------
(* What the purge promises.                                                *)

\* The state's type.  The budget holds: polls never passes max_polls
\* (dc-nvme/src/purge.rs, wait_for_sanitize_completion).
TypeOK ==
  /\ run \in Runs
  /\ drive \in [caps : SUBSET Mechanisms, frozen : BOOLEAN, locked : BOOLEAN, password : Passwords,
                hidden : {"none", "hpa", "dco"}, media : Media, sanitize : Sanitizing,
                attention : BOOLEAN, senseAsData : BOOLEAN, denied : BOOLEAN, reset : BOOLEAN]
  /\ pc \in Steps /\ exit \in Exits
  /\ mech \in Rungs(run.bus) \cup {"none"}
  /\ polls \in 0 .. MaxPolls
  /\ ladder \in {"none", "ok", "failed"}
  /\ {critical, disclosed, certificate, lock} \subseteq BOOLEAN
  /\ stages \subseteq {"dco", "hpa"}
  /\ journal \in Seq({"Header", "Armed", "Failed", "Verify", "Completed"})
  /\ session \in {"none", "open", "closed", "unacked"} /\ port \in {"on", "auto"}
  /\ signal \in {"none", "early", "late"}

\* The drive has been sent a command that erases or arms it, and took it.
Touched ==
  \/ drive.media \notin OldData
  \/ drive.sanitize \notin Unstarted
  \/ drive.password = "ours"

\* Nothing spoke for the drive but the drive: no denial was taken for success, no
\* reset left the attention that ends a SCSI wait, and the sense is where the code
\* looks for it.
Undeceived == ~drive.denied /\ ~drive.reset /\ ~drive.senseAsData

\* Short of a deceit, a sanitize the ladder reports as done is one it started and
\* the drive ended well, not an earlier one the log still tells of, and whatever
\* EIO started on the way; and a security erase has zeroed the drive and left no
\* password (execute_purge_ladder).
SummaryIsTerminal ==
  ladder = "ok" /\ Undeceived =>
    /\ mech \in Sanitizes => drive.sanitize = "done"
    /\ mech \in SecurityErases => drive.media = "zeros" /\ drive.password = "none"

\* A run comes to its certificate only with the ladder's success, no critical
\* temperature, and, whichever mechanism was asked for, zeros in every sampled
\* window of a drive that was to run the crypto format: also when the format was
\* denied, and with a sanitize EIO had started over (run_nvme_purge).  What the
\* other 63 windows in 64 hold it does not say.
AssemblesOnEvidence ==
  pc = "Assemble" \/ exit \in {"not_flushed", "certified"} =>
    /\ ladder = "ok" /\ ~critical
    /\ mech = "formatCrypto" => SamplesRead /\ SamplesZero

\* The evidence a run goes on with is that of the drive, from the ladder's word to
\* the certificate's assembly.
EvidenceIsReal == SummaryIsTerminal /\ AssemblesOnEvidence

\* An ATA or SCSI ladder takes another rung only from a drive no earlier rung has
\* touched: after a fault, which may have started the command, there is no next
\* rung.  NVMe is not of this kind: it takes the next rung on every EIO.
LadderWalksDown ==
  [][run.bus # "nvme" /\ mech' # mech /\ mech # "none" => ~Touched]_vars

\* A drive that was touched, whatever became of the process, has a journal that
\* says the run was armed; and the ladder runs under the lock.
ErasureIsJournaled ==
  /\ Touched => Len(journal) >= 2 /\ journal[1] = "Header" /\ journal[2] = "Armed"
  /\ pc \in {"Issue", "Poll", "Prepare", "EraseUnit", "Repair"} => lock

\* A dry run, and a run signalled before the last look at the signals, leave no
\* journal and an untouched drive (confirm_destructive_purge).
NothingWithoutConsent ==
  run.dryRun \/ signal = "early" => journal = <<>> /\ ~Touched

\* No erase without the lock, the journal that says so and the operator's word,
\* wherever a kill, a signal or a failed append struck.
ErasureHasAuthority == ErasureIsJournaled /\ NothingWithoutConsent

\* A rejected SECURITY ERASE UNIT ends with the password off the drive or
\* printed, whatever the repair and the second IDENTIFY answered.
EraseRefusalIsRecoverable ==
  [][pc = "Repair" /\ pc' # "Repair" /\ exit' # "killed"
       => drive'.password = "none" \/ disclosed']_vars

\* Once confirmed, a purge ends, whether or not the drive ever finishes.
PurgeEnds == pc = "Arm" ~> pc = "Done"
=============================================================================
