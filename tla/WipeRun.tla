------------------------------- MODULE WipeRun -------------------------------
(***************************************************************************)
(* One device, one sealed plan, one DCJ1 journal: the pipeline of          *)
(* `dc execute' (execute_device_inner) and of `dc resume' (cmd_resume), the *)
(* SyncEngine they drive, the FsmOrchestrator that hands out permits, and   *)
(* the world around them: SIGKILL, power loss, termination signals, the     *)
(* thermal pacer, EIO, a failing fsync, a device that drops a write and the *)
(* checks that end a run fail-closed.                                       *)
(*                                                                         *)
(* The device is opened O_RDWR|O_EXCL, so writes land in the page cache and *)
(* become durable at fsync; reads are served from the page cache.           *)
(***************************************************************************)
EXTENDS Integers, Sequences, FiniteSets

CONSTANTS
  NumPasses,      \* passes of the logical overwrite plan
  NumWindows,     \* LbaSpan::total_windows
  Pattern,        \* the pattern of each pass
  ZeroOut,        \* passes written by BLKZEROOUT (Pattern::Zero, supported)
  ChunkWindows,   \* windows per BLKZEROOUT chunk (2 GiB / window_bytes)
  Stride,         \* effective_stride of the verification level
  SkipVerify,     \* TRUE for VerifyLevel::None
  MaxEvents       \* how often each outside event may happen: a bound

(* What strikes from outside, and the resumes an operator asks for. *)
EventKind == {"kill", "power", "drop", "io", "guard", "signal", "thermal", "resume"}

Passes  == 0 .. NumPasses - 1
Windows == 0 .. NumWindows - 1

ASSUME PlanAssumption ==
  /\ NumPasses \in Nat \ {0}
  /\ NumWindows \in Nat \ {0}
  /\ DOMAIN Pattern = Passes
  /\ ZeroOut \subseteq Passes
  /\ ChunkWindows \in Nat \ {0}
  /\ Stride \in Nat \ {0}
  /\ SkipVerify \in BOOLEAN
  /\ MaxEvents \in [EventKind -> Nat]

VARIABLES
  media,      \* what each window durably holds
  cache,      \* what a read of each window returns
  volatile,   \* windows whose cached content has not reached the media
  journal,    \* the complete records of the journal file
  certs,      \* certificates written to the output directory
  pc,         \* where the running process stands, "idle" if there is none
  cmd,        \* the command it runs
  fsm,        \* FsmOrchestrator::state
  idx,        \* resume: next record of the journal scan
  last,       \* resume: last_pass_idx
  committed,  \* resume: last_pass_committed_windows
  reached,    \* resume: verify_reached
  off,        \* loop variable of the pass loop
  win,        \* loop variable of the window loops
  from,       \* first window of the loop that reports windows_written
  checked,    \* windows read back so far
  bad,        \* windows whose read-back differs from the pattern
  cancel,     \* GLOBAL_CANCEL
  aborted,    \* ThermalPacer::aborted is set
  exit,       \* how the last process ended
  budget      \* outside events that may still happen

device  == <<media, cache, volatile>>
scan    == <<idx, last, committed, reached>>
loops   == <<off, win, from>>
verdict == <<checked, bad>>
control == <<cancel, aborted>>
vars    == <<device, journal, certs, pc, cmd, fsm, scan, loops, verdict,
             control, exit, budget>>

------------------------------------------------------------------------------
(* Window content: 0 is the data of before the run, 2p + 2 a window wholly  *)
(* rewritten by pass p, 2p + 1 one that a torn write of pass p left mixed.  *)

Old      == 0
Whole(p) == 2 * p + 2
Torn(p)  == 2 * p + 1
Content  == 0 .. 2 * NumPasses

LastPass == NumPasses - 1

(* The content reads back as the pattern of the last pass. *)
Matches(c) == \E p \in Passes : c = Whole(p) /\ Pattern[p] = Pattern[LastPass]

(* A pwrite of pass p that stops half way; the pattern is deterministic, so *)
(* rewriting the bytes the window already holds changes nothing.            *)
TearWith(p, c) == IF c >= Torn(p) THEN c ELSE Torn(p)

------------------------------------------------------------------------------
(* Journal records *)

Header            == [type |-> "Header"]
Armed             == [type |-> "Armed"]
BeginPass(p)      == [type |-> "BeginPass", pass |-> p]
RangeCommit(p, f, n) ==
  [type |-> "RangeCommit", pass |-> p, first |-> f, num |-> n]
EndPass(p)        == [type |-> "EndPass", pass |-> p]
Flushed(p)        == [type |-> "Flushed", pass |-> p]
Verify(c, b)      == [type |-> "Verify", checked |-> c, mismatches |-> b]
Interrupted(p, w) == [type |-> "Interrupted", pass |-> p, through |-> w]
Failed(c)         == [type |-> "Failed", code |-> c]
Resumed(p, w)     == [type |-> "Resumed", pass |-> p, window |-> w]
Completed         == [type |-> "Completed"]

None == -1   \* an absent completed_through

JournalRecord ==
  {Header, Armed, Completed}
    \cup [type : {"BeginPass", "EndPass", "Flushed"}, pass : Nat]
    \cup [type : {"RangeCommit"}, pass : Nat, first : Nat, num : Nat]
    \cup [type : {"Verify"}, checked : SUBSET Windows, mismatches : SUBSET Windows]
    \cup [type : {"Interrupted"}, pass : Int, through : Int]
    \cup [type : {"Failed"}, code : {"EIO", "THERMAL_CRITICAL", "VERIFICATION_FAILED"}]
    \cup [type : {"Resumed"}, pass : Nat, window : Nat]

(* JournalWriter::append: fsynced before it returns *)
Log(r)    == journal' = Append(journal, r)

Logged(r) == \E i \in 1 .. Len(journal) : journal[i] = r
Has(t)    == \E i \in 1 .. Len(journal) : journal[i].type = t

(* records.last() is Completed *)
EndsCompleted == journal # <<>> /\ journal[Len(journal)] = Completed

------------------------------------------------------------------------------
(* FsmOrchestrator: the transitions and their guards *)

FsmArmed        == "Armed"          \* compile_plan; approve_plan; arm
MayBeginPass    == fsm \in {"Armed", "Flushing"}
MayBeginFlush   == fsm = "Executing"
MayBeginVerify  == fsm = "Flushing"
MayCertify      == fsm = "Verifying"

(* The index the loop hands to the engine and to the journal.  Resume       *)
(* enumerates before it skips, and adds last_pass_idx once more.            *)
PassIdx == IF cmd = "resume" THEN last + off ELSE off

StartWindowBug == IF cmd = "resume" /\ PassIdx = last THEN committed + 1 ELSE 0
StartWindow ==
  IF cmd = "resume" /\ PassIdx = last THEN committed ELSE 0

(* Resume journals BeginPass again only when the pass starts over. *)
StartsOverBug == cmd = "execute"
StartsOver == StartWindow = 0

MorePassesBug == off <= NumPasses
MorePasses == off < NumPasses

MoreWindows == win < NumWindows

(* windows_written: total.saturating_sub(start) of the loop that ran to its end *)
WindowsWritten == IF from < NumWindows THEN NumWindows - from ELSE 0

(* The pattern comes from the plan's pass at the offset, not at PassIdx. *)
FastPath == off \in ZeroOut

Spend(f) == budget[f] > 0 /\ budget' = [budget EXCEPT ![f] = @ - 1]

(* The process ends: its locks go, its locals go, the journal stays. *)
Quit(code) ==
  /\ pc' = "idle" /\ exit' = code /\ fsm' = "Probed" /\ cmd' = "none"
  /\ idx' = 1 /\ last' = 0 /\ committed' = 0 /\ reached' = FALSE
  /\ off' = 0 /\ win' = 0 /\ from' = 0
  /\ checked' = {} /\ bad' = {}
  /\ cancel' = FALSE /\ aborted' = FALSE

(* `?' on an error: the process returns without another record. *)
Abandon(code) == Quit(code) /\ UNCHANGED <<device, journal, certs, budget>>

Init ==
  /\ media = [w \in Windows |-> Old]
  /\ cache = [w \in Windows |-> Old]
  /\ volatile = {}
  /\ journal = <<>>
  /\ certs = {}
  /\ pc = "idle" /\ cmd = "none" /\ fsm = "Probed" /\ exit = "none"
  /\ idx = 1 /\ last = 0 /\ committed = 0 /\ reached = FALSE
  /\ off = 0 /\ win = 0 /\ from = 0
  /\ checked = {} /\ bad = {}
  /\ cancel = FALSE /\ aborted = FALSE
  /\ budget = MaxEvents

------------------------------------------------------------------------------
(* dc execute, up to the first pass *)

(* The FSM is armed and JournalWriter::create_new makes a new file. *)
StartExecute ==
  /\ pc = "idle" /\ journal = <<>>
  /\ pc' = "header" /\ cmd' = "execute" /\ fsm' = FsmArmed /\ exit' = "none"
  /\ UNCHANGED <<device, journal, certs, scan, loops, verdict, control, budget>>

AppendHeader ==
  /\ pc = "header"
  /\ Log(Header)
  /\ pc' = "armed"
  /\ UNCHANGED <<device, certs, cmd, fsm, scan, loops, verdict, control, exit, budget>>

AppendArmed ==
  /\ pc = "armed"
  /\ Log(Armed)
  /\ pc' = "pass"
  /\ UNCHANGED <<device, certs, cmd, fsm, scan, loops, verdict, control, exit, budget>>

------------------------------------------------------------------------------
(* dc resume, up to its first pass *)

(* The chain is read; an empty or a completed journal is refused. *)
ResumableBug == journal # <<>> /\ journal[Len(journal)].type \notin {"Completed", "Failed"}
Resumable == journal # <<>> /\ ~EndsCompleted

ResumeRefused ==
  /\ pc = "idle" /\ ~Resumable
  /\ Abandon("refused")

StartResume ==
  /\ pc = "idle" /\ Resumable
  /\ Spend("resume")
  /\ pc' = "scan" /\ cmd' = "resume" /\ exit' = "none"
  /\ UNCHANGED <<device, journal, certs, fsm, scan, loops, verdict, control>>

(* Any Flushed record makes the scan believe that only verification is left. *)
SetsReachedBug(r)  == r.type = "Completed"
SetsReachedLast(r) == r.type = "Flushed" /\ r.pass = LastPass
SetsReached(r) == r.type = "Flushed"

(* for r in &records *)
ScanRecord ==
  /\ pc = "scan" /\ idx <= Len(journal)
  /\ idx' = idx + 1
  /\ LET r == journal[idx] IN
     \/ /\ r.type = "BeginPass"
        /\ last' = r.pass /\ committed' = 0
        /\ UNCHANGED reached
     \/ /\ r.type = "RangeCommit"
        /\ committed' = IF r.pass = last THEN committed + r.num ELSE committed
        /\ UNCHANGED <<last, reached>>
     \/ /\ r.type \notin {"BeginPass", "RangeCommit"}
        /\ reached' = (reached \/ SetsReached(r))
        /\ UNCHANGED <<last, committed>>
  /\ UNCHANGED <<device, journal, certs, pc, cmd, fsm, loops, verdict, control, exit, budget>>

(* arm_and_lock, a fresh FSM driven to Armed, open_for_resume, Armed record *)
ResumeArm ==
  /\ pc = "scan" /\ idx > Len(journal)
  /\ Log(Armed)
  /\ fsm' = FsmArmed
  /\ pc' = "resumed"
  /\ UNCHANGED <<device, certs, cmd, scan, loops, verdict, control, exit, budget>>

AppendResumed ==
  /\ pc = "resumed"
  /\ Log(Resumed(last, committed))
  /\ pc' = IF reached THEN "verify" ELSE "pass"
  /\ off' = last
  /\ UNCHANGED <<device, certs, cmd, fsm, scan, win, from, verdict, control, exit, budget>>

------------------------------------------------------------------------------
(* The pass loop *)

(* begin_pass mints the permit; BeginPass is journalled before any write,   *)
(* by resume only when it starts the pass over.                             *)
StartPass ==
  /\ pc = "pass" /\ MorePasses
  /\ MayBeginPass
  /\ fsm' = "Executing"
  /\ IF StartsOver
       THEN Log(BeginPass(PassIdx)) ELSE UNCHANGED journal
  /\ win' = StartWindow /\ from' = StartWindow
  /\ pc' = IF FastPath THEN "zero" ELSE "write"
  /\ UNCHANGED <<device, certs, cmd, scan, off, verdict, control, exit, budget>>

(* The progress callback of execute lets the thermal pacer sample; at the   *)
(* critical limit it requests the cancel the signal handler uses.           *)
PacerTrip == cmd = "execute" /\ Spend("thermal") /\ cancel' = TRUE /\ aborted' = TRUE
PacerCalm == UNCHANGED <<control, budget>>

WriteWindow ==
  /\ pc = "write" /\ MoreWindows /\ ~cancel
  /\ cache' = [cache EXCEPT ![win] = Whole(off)]
  /\ volatile' = volatile \cup {win}
  /\ win' = win + 1
  /\ PacerTrip \/ PacerCalm
  /\ UNCHANGED <<media, journal, certs, pc, cmd, fsm, scan, off, from, verdict, exit>>

(* One BLKZEROOUT ioctl over the next chunk. *)
Chunk == {w \in Windows : win <= w /\ w < win + ChunkWindows}

NextChunk == IF win + ChunkWindows < NumWindows THEN win + ChunkWindows ELSE NumWindows

ZeroChunk ==
  /\ pc = "zero" /\ MoreWindows /\ ~cancel
  /\ cache' = [w \in Windows |-> IF w \in Chunk THEN Whole(off) ELSE cache[w]]
  /\ volatile' = volatile \cup Chunk
  /\ win' = NextChunk
  /\ PacerTrip \/ PacerCalm
  /\ UNCHANGED <<media, journal, certs, pc, cmd, fsm, scan, off, from, verdict, exit>>

(* The ioctl fails: write_pass takes over from here, and it is the one that *)
(* reports windows_written.                                                 *)
ZeroFallback ==
  /\ pc = "zero" /\ MoreWindows /\ ~cancel
  /\ Spend("io")
  /\ pc' = "write" /\ from' = win
  /\ UNCHANGED <<device, journal, certs, cmd, fsm, scan, off, win, verdict, control, exit>>

(* w.saturating_sub(1) *)
CompletedThrough == IF win = 0 THEN 0 ELSE win - 1

DrainWrite ==
  /\ pc \in {"write", "zero"} /\ MoreWindows /\ cancel
  /\ Log(IF aborted THEN Failed("THERMAL_CRITICAL")
                    ELSE Interrupted(PassIdx, CompletedThrough))
  /\ Quit(IF aborted THEN "thermal" ELSE "interrupted")
  /\ UNCHANGED <<device, certs, budget>>

(* pwrite fails for good, perhaps after part of the window. *)
WriteFails ==
  /\ pc = "write" /\ MoreWindows /\ ~cancel
  /\ Spend("io")
  /\ \E torn \in BOOLEAN :
       IF torn THEN /\ cache' = [cache EXCEPT ![win] = TearWith(off, @)]
                    /\ volatile' = volatile \cup {win}
               ELSE UNCHANGED <<cache, volatile>>
  /\ Log(Failed("EIO"))
  /\ Quit("io")
  /\ UNCHANGED <<media, certs>>

CommitRange ==
  /\ pc \in {"write", "zero"} /\ ~MoreWindows
  /\ Log(RangeCommit(PassIdx, StartWindow, WindowsWritten))
  /\ pc' = "endpass"
  /\ UNCHANGED <<device, certs, cmd, fsm, scan, loops, verdict, control, exit, budget>>

AppendEndPass ==
  /\ pc = "endpass"
  /\ Log(EndPass(PassIdx))
  /\ pc' = "flush"
  /\ UNCHANGED <<device, certs, cmd, fsm, scan, loops, verdict, control, exit, budget>>

(* begin_flush, then fsync of the device.  A device that acknowledges a     *)
(* write it drops keeps the old data under a clean page.                    *)
FsyncedBug == volatile \cap {NumWindows - 1}
Fsynced == volatile

Flush ==
  /\ pc = "flush" /\ MayBeginFlush
  /\ fsm' = "Flushing"
  /\ \E dropped \in SUBSET Fsynced :
       /\ IF dropped = {} THEN UNCHANGED budget ELSE Spend("drop")
       /\ media' = [w \in Windows |->
                      IF w \in Fsynced \ dropped THEN cache[w] ELSE media[w]]
  /\ volatile' = volatile \ Fsynced
  /\ pc' = "flushed"
  /\ UNCHANGED <<cache, journal, certs, cmd, scan, loops, verdict, control, exit>>

(* fsync reports EIO: no record, the error goes up. *)
FlushFails ==
  /\ pc = "flush" /\ MayBeginFlush
  /\ Spend("io")
  /\ Quit("io")
  /\ UNCHANGED <<device, journal, certs>>

AppendFlushed ==
  /\ pc = "flushed"
  /\ Log(Flushed(PassIdx))
  /\ off' = off + 1
  /\ pc' = "pass"
  /\ UNCHANGED <<device, certs, cmd, fsm, scan, win, from, verdict, control, exit, budget>>

(* The acoustic PUF guard of execute: asked before the first write, and      *)
(* behind the windows of pass 0, before its RangeCommit.  A chassis that     *)
(* does not answer or does not match ends the run without a record.          *)
GuardRefuses ==
  /\ cmd = "execute" /\ off = 0
  /\ pc = "pass" \/ (pc \in {"write", "zero"} /\ ~MoreWindows)
  /\ Spend("guard")
  /\ Quit("guard")
  /\ UNCHANGED <<device, journal, certs>>

------------------------------------------------------------------------------
(* Verification and certification *)

(* The pass loop is over, or resume jumped past it. *)
AtVerify == pc = "verify" \/ (pc = "pass" /\ ~MorePasses)

(* Verification always starts over at window 0, on resume too. *)
VerifyStartBug == committed
VerifyStart == 0

(* Execute skips the read-back at VerifyLevel::None, resume never does. *)
BeginVerify ==
  /\ AtVerify /\ MayBeginVerify
  /\ fsm' = "Verifying"
  /\ win' = VerifyStart
  /\ pc' = IF cmd = "execute" /\ SkipVerify THEN "report" ELSE "read"
  /\ UNCHANGED <<device, journal, certs, cmd, scan, off, from, verdict, control, exit, budget>>

(* "Cannot begin verification: media not flushed" *)
VerifyRefused ==
  /\ AtVerify /\ ~MayBeginVerify
  /\ Abandon("usage")

Sampled(w) == w % Stride = 0

ReadWindow ==
  /\ pc = "read" /\ MoreWindows /\ ~cancel
  /\ win' = win + 1
  /\ checked' = IF Sampled(win) THEN checked \cup {win} ELSE checked
  /\ bad' = IF Sampled(win) /\ ~Matches(cache[win]) THEN bad \cup {win} ELSE bad
  /\ PacerTrip \/ PacerCalm
  /\ UNCHANGED <<device, journal, certs, pc, cmd, fsm, scan, off, from, exit>>

DrainVerify ==
  /\ pc = "read" /\ MoreWindows /\ cancel
  /\ Log(Interrupted(None, None))
  /\ Quit("interrupted")
  /\ UNCHANGED <<device, certs, budget>>

ReadFails ==
  /\ pc = "read" /\ MoreWindows /\ ~cancel /\ Sampled(win)
  /\ Spend("io")
  /\ Log(Failed("EIO"))
  /\ Quit("io")
  /\ UNCHANGED <<device, certs>>

ReadDone ==
  /\ pc = "read" /\ ~MoreWindows
  /\ pc' = "report"
  /\ UNCHANGED <<device, journal, certs, cmd, fsm, scan, loops, verdict, control, exit, budget>>

AppendVerify ==
  /\ pc = "report"
  /\ Log(Verify(checked, bad))
  /\ pc' = "judge"
  /\ UNCHANGED <<device, certs, cmd, fsm, scan, loops, verdict, control, exit, budget>>

(* Execute refuses on a mismatch; resume has no such test. *)
RefusesMismatch == cmd = "execute" /\ bad # {}

RejectWipe ==
  /\ pc = "judge" /\ RefusesMismatch
  /\ Log(Failed("VERIFICATION_FAILED"))
  /\ Quit("mismatch")
  /\ UNCHANGED <<device, certs, budget>>

(* Past this point a signal is ignored: the certificate must come out. *)
AppendCompleted ==
  /\ pc = "judge" /\ ~RefusesMismatch /\ MayCertify
  /\ fsm' = "Certified"
  /\ Log(Completed)
  /\ pc' = "certify"
  /\ UNCHANGED <<device, certs, cmd, scan, loops, verdict, control, exit, budget>>

WriteCertificateBug ==
  /\ pc = "certify"
  /\ certs' = IF cancel THEN certs ELSE certs \cup {[checked |-> checked, mismatches |-> bad]}
  /\ Quit("interrupted")
  /\ UNCHANGED <<device, journal, budget>>

WriteCertificate ==
  /\ pc = "certify"
  /\ certs' = certs \cup {[checked |-> checked, mismatches |-> bad]}
  /\ Quit("ok")
  /\ UNCHANGED <<device, journal, budget>>

(* Behind Completed: the last guard check, the TPM quote, the vault, the     *)
(* signature and the write of the file may each fail, and fail closed.       *)
CertificateWithheld ==
  /\ pc = "certify"
  /\ Spend("guard")
  /\ Quit("withheld")
  /\ UNCHANGED <<device, journal, certs>>

(* dc cert --journal: rebuilt from the first Verify record of a completed   *)
(* journal.                                                                 *)
FirstVerify ==
  CHOOSE i \in 1 .. Len(journal) :
    /\ journal[i].type = "Verify"
    /\ \A j \in 1 .. i - 1 : journal[j].type # "Verify"

ReconstructCertificate ==
  /\ pc = "idle" /\ EndsCompleted
  /\ LET v == journal[FirstVerify] IN
       certs' = certs \cup {[checked |-> v.checked, mismatches |-> v.mismatches]}
  /\ UNCHANGED <<device, journal, pc, cmd, fsm, scan, loops, verdict, control, exit, budget>>

------------------------------------------------------------------------------
(* The world *)

(* SIGINT or SIGTERM: the handler sets GLOBAL_CANCEL and nothing else. *)
Signal ==
  /\ pc # "idle" /\ ~cancel
  /\ Spend("signal")
  /\ cancel' = TRUE
  /\ UNCHANGED <<device, journal, certs, pc, cmd, fsm, scan, loops, verdict, aborted, exit>>

(* The window a process that dies now may leave half written. *)
Torrent == IF pc = "write" /\ MoreWindows THEN {win} ELSE {}

(* SIGKILL: the page cache survives. *)
Kill ==
  /\ pc # "idle"
  /\ Spend("kill")
  /\ \E torn \in SUBSET Torrent :
       /\ cache' = [w \in Windows |->
                      IF w \in torn THEN TearWith(off, cache[w]) ELSE cache[w]]
       /\ volatile' = volatile \cup torn
  /\ Quit("killed")
  /\ UNCHANGED <<media, journal, certs>>

(* Power loss: each volatile window has reached the media or has not. *)
PowerLoss ==
  /\ pc # "idle" \/ volatile # {}
  /\ Spend("power")
  /\ \E kept \in SUBSET volatile :
       media' = [w \in Windows |-> IF w \in kept THEN cache[w] ELSE media[w]]
  /\ cache' = media'
  /\ volatile' = {}
  /\ Quit("killed")
  /\ UNCHANGED <<journal, certs>>

(* The kernel reclaims a clean page; the next read goes to the media. *)
Evict(w) ==
  /\ w \notin volatile /\ cache[w] # media[w]
  /\ cache' = [cache EXCEPT ![w] = media[w]]
  /\ UNCHANGED <<media, volatile, journal, certs, pc, cmd, fsm, scan, loops,
                 verdict, control, exit, budget>>

------------------------------------------------------------------------------
Prepare  == StartExecute \/ AppendHeader \/ AppendArmed
Recover  == StartResume \/ ScanRecord \/ ResumeArm \/ AppendResumed
Erase    == StartPass \/ WriteWindow \/ ZeroChunk \/ CommitRange
              \/ AppendEndPass \/ Flush \/ AppendFlushed
Drain    == DrainWrite \/ DrainVerify
Refuse   == ResumeRefused \/ VerifyRefused \/ RejectWipe
Fails    == ZeroFallback \/ WriteFails \/ FlushFails \/ ReadFails
              \/ GuardRefuses \/ CertificateWithheld
Attest   == BeginVerify \/ ReadWindow \/ ReadDone \/ AppendVerify
              \/ AppendCompleted \/ WriteCertificate
World    == Signal \/ Kill \/ PowerLoss \/ \E w \in Windows : Evict(w)

Next == Prepare \/ Recover \/ Erase \/ Drain \/ Refuse \/ Fails \/ Attest
          \/ ReconstructCertificate \/ World

Spec == Init /\ [][Next]_vars

(* A started process keeps running: its steps are plain sequential code. *)
Running ==
  \/ AppendHeader \/ AppendArmed \/ ScanRecord \/ ResumeArm \/ AppendResumed
  \/ Erase \/ Drain \/ VerifyRefused \/ RejectWipe \/ Attest

FairSpec == Spec /\ WF_vars(Running)

(* An operator who runs `dc resume' again whenever no process is left. *)
RetrySpec == FairSpec /\ WF_vars(StartResume) /\ WF_vars(StartExecute)

------------------------------------------------------------------------------
(* How the last process ended. *)
ExitCode == {"none", "ok", "interrupted", "thermal", "io", "mismatch",
             "usage", "refused", "guard", "withheld", "killed"}

DeviceOK ==
  /\ media \in [Windows -> Content] /\ cache \in [Windows -> Content]
  /\ volatile \in SUBSET Windows

EvidenceOK ==
  /\ journal \in Seq(JournalRecord)
  /\ certs \subseteq [checked : SUBSET Windows, mismatches : SUBSET Windows]

ControlOK ==
  /\ pc \in {"idle", "header", "armed", "scan", "resumed", "pass", "write",
             "zero", "endpass", "flush", "flushed", "verify", "read",
             "report", "judge", "certify"}
  /\ cmd \in {"none", "execute", "resume"}
  /\ fsm \in {"Probed", "Armed", "Executing", "Flushing", "Verifying", "Certified"}
  /\ exit \in ExitCode
  /\ cancel \in BOOLEAN /\ aborted \in BOOLEAN /\ reached \in BOOLEAN

LocalsOK ==
  /\ idx \in Nat \ {0} /\ last \in Nat /\ committed \in Nat
  /\ off \in Nat /\ win \in Nat /\ from \in Nat
  /\ checked \in SUBSET Windows /\ bad \in SUBSET Windows

BudgetOK == budget \in [EventKind -> Nat]

(* Every variable keeps to the values the Rust types allow it; in           *)
(* particular no window ever holds content of a pass outside the plan.      *)
TypeOK == DeviceOK /\ EvidenceOK /\ ControlOK /\ LocalsOK /\ BudgetOK

------------------------------------------------------------------------------
(* What the pipeline promises *)

NoDrops  == budget["drop"] = MaxEvents["drop"]
NoOutage == budget["power"] = MaxEvents["power"]

(* The journal leads the media: no window, cached or durable, carries a     *)
(* byte of pass p unless BeginPass{p} is in the journal, so whatever a      *)
(* crash leaves on the device the resume scan knows the pass it belongs to. *)
WriteAhead ==
  \A w \in Windows, p \in Passes :
    {cache[w], media[w]} \cap {Torn(p), Whole(p)} # {} => Logged(BeginPass(p))

(* Flushed{p} in the journal means every window durably holds pass p or a   *)
(* later one, whatever kills and outages follow, because the fsync comes    *)
(* before the record.  A run resumed after an outage is the exception: its  *)
(* RangeCommits may count windows that the outage took back.                *)
FlushedIsDurable ==
  NoDrops => \A i \in 1 .. Len(journal) :
    /\ journal[i].type = "Flushed"
    /\ NoOutage \/ \A j \in 1 .. i : journal[j].type # "Resumed"
    => \A w \in Windows : media[w] >= Whole(journal[i].pass)

(* Every window that the RangeCommit record at i counts has been written. *)
Backed(i) ==
  LET r == journal[i] IN
    r.type = "RangeCommit" =>
      \A w \in Windows : r.first <= w /\ w < r.first + r.num => cache[w] >= Whole(r.pass)

(* Short of a power loss and of a write the device drops, a window a        *)
(* RangeCommit counts has been written, also when BLKZEROOUT gave up half   *)
(* way and write_pass reported only its own share, and also across the      *)
(* resumes of one pass.                                                     *)
CommitBacked == NoDrops /\ NoOutage => \A i \in 1 .. Len(journal) : Backed(i)

(* What the read-back sees is what the media holds: no read is served while *)
(* a write is still on its way.                                             *)
ReadBackIsDurable ==
  NoDrops /\ fsm \in {"Verifying", "Certified"} => volatile = {} /\ cache = media

(* A certificate without mismatches stands for a device whose every sampled *)
(* window durably reads as the pattern of the last pass: through crashes,   *)
(* outages, interrupted and resumed runs.                                   *)
CertificateTruthful ==
  NoDrops /\ ~SkipVerify =>
    \A c \in certs : \A w \in Windows :
      Sampled(w) /\ w \notin c.mismatches => Matches(media[w])

(* Without an outage the unsampled windows are as erased as the sampled     *)
(* ones: sampling saves reads, never writes.                                *)
CertificateErased ==
  NoDrops /\ NoOutage /\ certs # {} => \A w \in Windows : media[w] = Whole(LastPass)

(* What the run leaves behind claims no window it has not written: neither  *)
(* a RangeCommit of the journal nor a certificate.                          *)
ClaimsAreBacked == CommitBacked /\ CertificateErased

(* The passes of the plan are journalled in the plan's order, none beyond   *)
(* its end, each after the one before it was flushed: the property the      *)
(* resume loop's index arithmetic (last_pass_idx + offset) endangers.       *)
PassesInOrder ==
  \A i \in 1 .. Len(journal) : journal[i].type = "BeginPass" =>
    LET p == journal[i].pass IN
      /\ p \in Passes
      /\ p > 0 => \E j \in 1 .. i - 1 : journal[j] = Flushed(p - 1)

(* One journal attests at most one verification, so the certificate rebuilt *)
(* from its first Verify record is the one the run wrote.                   *)
OneVerification ==
  /\ \A i, j \in 1 .. Len(journal) :
       journal[i].type = "Verify" /\ journal[j].type = "Verify" => i = j
  /\ \A c, d \in certs : c = d

(* The run is a Sanitization of its device: overwritten in the order of the *)
(* plan, attested pass by pass when the device holds it, judged once behind *)
(* the last pass, untouched from then on and certified as it was judged.    *)
(* The doubt of a run resumed after an outage is the one of RangeCommits    *)
(* that count windows the outage took back.                                 *)
Device == INSTANCE Sanitization WITH
  Samples  <- IF SkipVerify THEN {} ELSE {w \in Windows : Sampled(w)},
  erased   <- [p \in Passes |-> {w \in Windows : media[w] >= Whole(p)}],
  matching <- {w \in Windows : Matches(media[w])},
  attested <- {p \in Passes : Logged(Flushed(p))},
  verdicts <- {[checked |-> journal[i].checked, mismatches |-> journal[i].mismatches] :
                 i \in {j \in 1 .. Len(journal) : journal[j].type = "Verify"}},
  certs    <- certs,
  lossy    <- ~NoDrops,
  doubtful <- ~NoOutage /\ Has("Resumed")

ImplementsSanitization == Device!Spec

(* Victory lap: once verification has passed, a signal no longer costs the  *)
(* certificate.  A kill or an outage may, and so may what follows Completed *)
(* and fails closed; but that leaves a completed journal, from which        *)
(* `dc cert --journal' builds the certificate still.                        *)
VictoryLap ==
  pc = "judge" /\ ~RefusesMismatch ~>
    certs # {} \/ exit = "killed" \/ (exit = "withheld" /\ EndsCompleted)

(* An operator who keeps retrying gets the first pass flushed: no crash, no *)
(* drain and no I/O error before that leaves a journal resume cannot take   *)
(* up.                                                                      *)
RetryReachesFlush == journal # <<>> ~> Has("Flushed")

------------------------------------------------------------------------------
(* What the repository says of the program and the code does not do *)

(* "a fail-open bug that reports a drive as wiped when a single block was   *)
(* skipped is catastrophic": no certificate lists mismatching windows.      *)
NoCertificateWithMismatch == \A c \in certs : c.mismatches = {}

==============================================================================
