---------------------------- MODULE WipeRunProofs ----------------------------
(***************************************************************************)
(* Theorems about WipeRun for every plan, every device size, every pattern *)
(* and any number of kills, outages, drops, I/O errors, signals and         *)
(* resumes.  The inductive invariant is CoreInv (types, the grammar of the  *)
(* journal, what the running process knows), on top of it EraseInv (what is *)
(* volatile, what the read-back has established) and, on both, ProgressInv  *)
(* (content only grows, and the loops, commits and flushes that prove it).  *)
(* From all three follows that WipeRun implements Sanitization.             *)
(***************************************************************************)
EXTENDS WipeRun, TLAPS

(* Program points inside the pass loop, and those after begin_pass. *)
Writing  == {"write", "zero", "endpass", "flush", "flushed"}
PassLoop == Writing \cup {"pass"}

JournalInv ==
  /\ PassesInOrder
  /\ \A i \in 1 .. Len(journal) :
       journal[i].type = "RangeCommit" => Logged(BeginPass(journal[i].pass))
  /\ Has("Completed") => Has("Verify")
  /\ Has("Verify") => Has("Flushed")
  /\ \A i, j \in 1 .. Len(journal) :
       journal[i].type = "Verify" /\ journal[j].type = "Verify" => i = j

(* What a process knows at each point. *)
AtRest == pc = "idle" => idx = 1 /\ last = 0 /\ committed = 0 /\ off = 0

Preparing ==
  pc \in {"header", "armed"} =>
    cmd = "execute" /\ off = 0 /\ committed = 0 /\ ~Has("Verify")

(* A resume that has not met a Flushed record is still at pass 0: this is   *)
(* what keeps PassIdx = off, and the journal's pass numbers right.          *)
Scanning ==
  /\ pc \in {"scan", "resumed"} => cmd = "resume" /\ (last > 0 => reached)
  /\ pc = "scan" =>
       \A i \in 1 .. Len(journal) : i < idx /\ journal[i].type = "Flushed" => reached
  /\ pc = "resumed" => (Has("Flushed") => reached)
  /\ pc \in {"resumed", "verify"} => fsm = "Armed"

FrontierBegun ==
  pc \in {"scan", "resumed"} \cup PassLoop =>
    (committed > 0 => Logged(BeginPass(last)))

InPassLoop ==
  /\ pc \in PassLoop => cmd = "execute" \/ (cmd = "resume" /\ last = 0)
  /\ pc \in PassLoop => (off > 0 => Logged(Flushed(off - 1)))
  /\ pc \in Writing => off \in Passes /\ Logged(BeginPass(off))

Verifying ==
  /\ pc \in PassLoop \cup {"read", "report"} => ~Has("Verify")
  /\ pc \in {"read", "report", "judge", "certify"} => Has("Flushed")
  /\ pc \in {"judge", "certify"} => Logged(Verify(checked, bad))

ProcessInv ==
  AtRest /\ Preparing /\ Scanning /\ FrontierBegun /\ InPassLoop /\ Verifying

CoreInv == TypeOK /\ JournalInv /\ ProcessInv /\ WriteAhead

(* The read-back found nothing wrong outside b.                             *)
Clean(b) == \A w \in Windows : Sampled(w) /\ w \notin b => Matches(media[w])

DropsCounted == budget["drop"] \in Nat /\ budget["drop"] <= MaxEvents["drop"]

CacheClean == NoDrops => \A w \in Windows : w \notin volatile => cache[w] = media[w]

(* The permits of the FSM at work: reading needs Verifying, which only      *)
(* Flushing leads to, and no write can follow without begin_pass.           *)
PermitInv ==
  /\ fsm \in {"Flushing", "Verifying", "Certified"} => volatile = {}
  /\ pc \in {"write", "zero", "endpass", "flush"} => fsm = "Executing"
  /\ pc \in {"read", "report", "judge"} => fsm = "Verifying"
  /\ Has("Verify") => volatile = {}

ReadBackInv ==
  NoDrops =>
    /\ pc = "read" =>
         \A w \in Windows : w < win /\ Sampled(w) /\ w \notin bad => Matches(media[w])
    /\ pc = "report" /\ ~SkipVerify => Clean(bad)

VerdictInv ==
  NoDrops /\ ~SkipVerify =>
    \A i \in 1 .. Len(journal) :
      journal[i].type = "Verify" => Clean(journal[i].mismatches)

CertsLogged == \A c \in certs : Logged(Verify(c.checked, c.mismatches))

EraseInv ==
  DropsCounted /\ CacheClean /\ PermitInv /\ ReadBackInv /\ VerdictInv /\ CertsLogged

OutagesCounted == budget["power"] \in Nat /\ budget["power"] <= MaxEvents["power"]

(* A write is seen before it is durable; content of pass p is below that of *)
(* any later pass.                                                          *)
CacheLeads == \A w \in Windows : media[w] <= cache[w]

(* The pass loop stands past every pass it has flushed: with PassesInOrder  *)
(* and WriteAhead, no window is ahead of the pass the loop writes.          *)
FlushedBehind ==
  /\ pc \in PassLoop =>
       \A i \in 1 .. Len(journal) : journal[i].type = "Flushed" => journal[i].pass < off
  /\ pc \in {"header", "armed"} => ~Has("Flushed")

(* Resume skips windows only on the word of a RangeCommit of that pass.     *)
ScanCounts ==
  committed > 0 =>
    \E i \in 1 .. Len(journal) : journal[i].type = "RangeCommit" /\ journal[i].pass = last

ResumeMarked == pc \in PassLoop => (cmd = "execute" /\ committed = 0) \/ Has("Resumed")

PlanFlushed ==
  pc \in {"read", "report"} \/ Has("Verify") =>
    \E i \in 1 .. Len(journal) : journal[i].type = "Flushed" /\ journal[i].pass >= LastPass

OrderInv == CacheLeads /\ FlushedBehind /\ ScanCounts /\ ResumeMarked /\ PlanFlushed

Reached(content, p) == \A w \in Windows : content[w] >= Whole(p)

(* A RangeCommit is logged only once the window loop is through, so it      *)
(* stands for the whole device, whatever share it reports.                  *)
RangesWritten ==
  NoDrops /\ NoOutage =>
    \A i \in 1 .. Len(journal) :
      journal[i].type = "RangeCommit" => Reached(cache, journal[i].pass)

(* What the pass under way has behind it; after an outage only a run that   *)
(* started at window 0 knows.                                               *)
LoopWrites ==
  NoDrops /\ (NoOutage \/ ~Has("Resumed")) =>
    /\ pc \in {"write", "zero"} => \A w \in Windows : w < win => cache[w] >= Whole(off)
    /\ pc \in {"endpass", "flush"} => Reached(cache, off)
    /\ pc = "flushed" => Reached(media, off)

ProgressInv == OutagesCounted /\ OrderInv /\ RangesWritten /\ LoopWrites /\ FlushedIsDurable

------------------------------------------------------------------------------
(* The journal after an append *)

(* An appended record comes last and leaves the others where they were.     *)
LEMMA LogShape ==
  ASSUME NEW S, journal \in Seq(S), NEW r \in S, Log(r)
  PROVE  /\ journal' \in Seq(S)
         /\ Len(journal') = Len(journal) + 1
         /\ \A i \in 1 .. Len(journal) : journal'[i] = journal[i]
         /\ journal'[Len(journal) + 1] = r
  BY DEF Log

(* What was logged stays logged; a type that appears is the new record's.   *)
LEMMA LogKeeps ==
  ASSUME NEW S, journal \in Seq(S), NEW r \in S, Log(r)
  PROVE  /\ \A x : Logged(x) => Logged(x)'
         /\ Logged(r)'
         /\ \A t : Has(t)' <=> (Has(t) \/ r.type = t)
<1>1. /\ Len(journal) \in Nat
      /\ Len(journal') = Len(journal) + 1
      /\ \A i \in 1 .. Len(journal) : journal'[i] = journal[i]
      /\ journal'[Len(journal) + 1] = r
  BY LogShape
<1>2. \A x : Logged(x) => Logged(x)'
  BY <1>1 DEF Logged
<1>3. Logged(r)'
  BY <1>1 DEF Logged
<1>4. \A t : Has(t)' <=> (Has(t) \/ r.type = t)
  BY <1>1 DEF Has
<1> QED  BY <1>2, <1>3, <1>4

(* Appending r keeps the grammar of the journal if r fits behind it.        *)
LEMMA LogGrammar ==
  ASSUME NEW S, journal \in Seq(S), NEW r \in S, Log(r), JournalInv,
         r.type = "BeginPass" =>
           r.pass \in Passes /\ (r.pass > 0 => Logged(Flushed(r.pass - 1))),
         r.type = "RangeCommit" => Logged(BeginPass(r.pass)),
         r.type = "Completed" => Has("Verify"),
         r.type = "Verify" => Has("Flushed") /\ ~Has("Verify")
  PROVE  JournalInv'
<1>1. /\ Len(journal) \in Nat
      /\ Len(journal') = Len(journal) + 1
      /\ \A i \in 1 .. Len(journal) : journal'[i] = journal[i]
      /\ journal'[Len(journal) + 1] = r
  BY LogShape
<1>2. /\ \A x : Logged(x) => Logged(x)'
      /\ \A t : Has(t)' <=> (Has(t) \/ r.type = t)
  BY LogKeeps
<1>3. PassesInOrder'
  <2> SUFFICES ASSUME NEW i \in 1 .. Len(journal'), journal'[i].type = "BeginPass"
               PROVE  /\ journal'[i].pass \in Passes
                      /\ journal'[i].pass > 0 =>
                           \E j \in 1 .. i - 1 : journal'[j] = Flushed(journal'[i].pass - 1)
    BY DEF PassesInOrder
  <2>1. CASE i = Len(journal) + 1
    BY <2>1, <1>1 DEF Logged
  <2>2. CASE i \in 1 .. Len(journal)
    BY <2>2, <1>1 DEF JournalInv, PassesInOrder
  <2> QED  BY <2>1, <2>2, <1>1
<1>4. (\A i \in 1 .. Len(journal) :
         journal[i].type = "RangeCommit" => Logged(BeginPass(journal[i].pass)))'
  <2> SUFFICES ASSUME NEW i \in 1 .. Len(journal'), journal'[i].type = "RangeCommit"
               PROVE  \E j \in 1 .. Len(journal') : journal'[j] = BeginPass(journal'[i].pass)
    BY DEF Logged, BeginPass
  <2>1. Logged(BeginPass(journal'[i].pass))
    BY <1>1 DEF JournalInv
  <2> QED  BY <2>1, <1>1 DEF Logged
<1>5. (Has("Completed") => Has("Verify"))' /\ (Has("Verify") => Has("Flushed"))'
  BY <1>2 DEF JournalInv
<1>6. \A i, j \in 1 .. Len(journal') :
        journal'[i].type = "Verify" /\ journal'[j].type = "Verify" => i = j
  BY <1>1 DEF JournalInv, Has
<1> QED  BY <1>3, <1>4, <1>5, <1>6 DEF JournalInv

(* Every record the code appends is one. *)
LEMMA RecordTypes ==
  /\ {Header, Armed, Completed} \subseteq JournalRecord
  /\ \A p \in Nat : /\ BeginPass(p) \in JournalRecord
                    /\ EndPass(p) \in JournalRecord
                    /\ Flushed(p) \in JournalRecord
  /\ \A p, f, n \in Nat : RangeCommit(p, f, n) \in JournalRecord
  /\ \A p, w \in Nat : Resumed(p, w) \in JournalRecord
  /\ \A p, w \in Int : Interrupted(p, w) \in JournalRecord
  /\ \A c, b \in SUBSET Windows : Verify(c, b) \in JournalRecord
  /\ \A c \in {"EIO", "THERMAL_CRITICAL", "VERIFICATION_FAILED"} : Failed(c) \in JournalRecord
  BY DEF JournalRecord, Header, Armed, Completed, BeginPass, EndPass, Flushed,
         RangeCommit, Resumed, Interrupted, Verify, Failed

------------------------------------------------------------------------------
(* Steps *)

(* A process that ends leaves nothing but its journal behind.               *)
LEMMA QuitProcess ==
  ASSUME NEW code, Quit(code)
  PROVE  /\ ProcessInv' /\ LocalsOK'
         /\ code \in ExitCode => ControlOK'
<1>1. ProcessInv'
  BY DEF Quit, ProcessInv, AtRest, Preparing, Scanning, FrontierBegun, InPassLoop,
         Verifying, PassLoop, Writing
<1>2. LocalsOK'
  BY DEF Quit, LocalsOK
<1>3. code \in ExitCode => ControlOK'
  BY DEF Quit, ControlOK
<1> QED  BY <1>1, <1>2, <1>3

(* The grammar of the journal depends on the journal alone.                 *)
LEMMA JournalKept ==
  ASSUME journal' = journal
  PROVE  /\ JournalInv => JournalInv'
         /\ \A x : Logged(x)' <=> Logged(x)
         /\ \A t : Has(t)' <=> Has(t)
  BY DEF JournalInv, PassesInOrder, Logged, Has

(* Content that only moves between the cache and the media stays behind     *)
(* the journal.                                                             *)
LEMMA ContentMoves ==
  ASSUME WriteAhead, \A x : Logged(x) => Logged(x)',
         \A w \in Windows : {cache'[w], media'[w]} \subseteq {cache[w], media[w]}
  PROVE  WriteAhead'
  BY DEF WriteAhead

(* So does content stamped by a pass the journal has begun.                 *)
LEMMA ContentStamped ==
  ASSUME WriteAhead, \A x : Logged(x) => Logged(x)',
         off \in Passes, Logged(BeginPass(off)), media' = media,
         \A w \in Windows : cache'[w] \in {cache[w], Torn(off), Whole(off)}
  PROVE  WriteAhead'
<1> SUFFICES ASSUME NEW w \in Windows, NEW p \in Passes,
                    {cache'[w], media'[w]} \cap {Torn(p), Whole(p)} # {}
             PROVE  Logged(BeginPass(p))'
  BY DEF WriteAhead
<1>1. CASE {cache[w], media[w]} \cap {Torn(p), Whole(p)} # {}
  BY <1>1 DEF WriteAhead
<1>2. CASE cache'[w] \in {Torn(off), Whole(off)} /\ cache'[w] \in {Torn(p), Whole(p)}
  <2>1. off = p
    BY <1>2, PlanAssumption DEF Torn, Whole, Passes
  <2> QED  BY <2>1
<1> QED  BY <1>1, <1>2

(* A window stamped by a pass of the plan holds content of the plan.        *)
LEMMA StampTypes ==
  ASSUME NEW p \in Passes
  PROVE  /\ p \in Nat /\ Whole(p) \in Content /\ Torn(p) \in Content
         /\ \A c \in Content : TearWith(p, c) \in {c, Torn(p)}
  BY PlanAssumption DEF Passes, Content, Whole, Torn, TearWith

(* A pass of the engine is what the plan says it is, and so are windows.    *)
LEMMA WindowTypes ==
  ASSUME LocalsOK
  PROVE  /\ NumWindows \in Nat /\ NumPasses \in Nat /\ WindowsWritten \in Nat
         /\ MoreWindows => win \in Windows
         /\ NextChunk \in Nat
  BY PlanAssumption DEF LocalsOK, WindowsWritten, MoreWindows, Windows, NextChunk

(* The progress callback may spend a thermal event.                         *)
LEMMA PacerTypes ==
  ASSUME BudgetOK, ControlOK, PacerTrip \/ PacerCalm
  PROVE  BudgetOK' /\ cancel' \in BOOLEAN /\ aborted' \in BOOLEAN
<1>1. cancel' \in BOOLEAN /\ aborted' \in BOOLEAN
  BY DEF ControlOK, PacerTrip, PacerCalm, control
<1>2. BudgetOK'
  BY DEF BudgetOK, PacerTrip, PacerCalm, Spend, EventKind
<1> QED  BY <1>1, <1>2

(* One outside event fewer may happen.                                      *)
LEMMA SpendTypes ==
  ASSUME BudgetOK, NEW f \in EventKind, Spend(f)
  PROVE  BudgetOK'
  BY DEF BudgetOK, Spend

(* While the pass loop runs, execute or resume, the index it journals is    *)
(* the index of the plan's pass it writes.                                  *)
LEMMA PassIdxIsOff ==
  ASSUME LocalsOK, ProcessInv, pc \in PassLoop
  PROVE  PassIdx = off /\ PassIdx \in Nat /\ StartWindow \in Nat
  BY DEF LocalsOK, ProcessInv, InPassLoop, PassIdx, StartWindow

(* The certificate of a completed journal is rebuilt from its only verdict. *)
LEMMA FirstVerifyExists ==
  ASSUME CoreInv, Has("Completed")
  PROVE  FirstVerify \in 1 .. Len(journal) /\ journal[FirstVerify].type = "Verify"
<1>1. PICK i \in 1 .. Len(journal) : journal[i].type = "Verify"
  BY DEF CoreInv, JournalInv, Has
<1>2. \A k \in 1 .. Len(journal) : journal[k].type = "Verify" => k = i
  BY <1>1 DEF CoreInv, JournalInv
<1>3. \A j \in 1 .. i - 1 : journal[j].type # "Verify"
  BY <1>2 DEF CoreInv, TypeOK, EvidenceOK
<1> QED  BY <1>1, <1>3 DEF FirstVerify

(* Every step of the program and of the world keeps CoreInv.                *)
LEMMA CoreStep ==
  ASSUME CoreInv, [Next]_vars
  PROVE  CoreInv'
<1> USE DEF CoreInv, TypeOK
<1>1. CASE StartExecute
  <2>1. journal' = journal
    BY <1>1 DEF StartExecute
  <2>2. /\ JournalInv'
        /\ \A x : Logged(x)' <=> Logged(x)
        /\ \A t : Has(t)' <=> Has(t)
    BY <2>1, JournalKept
  <2>4. DeviceOK' /\ EvidenceOK' /\ BudgetOK'
    BY <1>1, <2>1 DEF DeviceOK, EvidenceOK, BudgetOK, StartExecute, device, FsmArmed
  <2>6. ControlOK'
    BY <1>1 DEF ControlOK, StartExecute, ExitCode, FsmArmed, control, scan
  <2>7. LocalsOK'
    BY <1>1 DEF LocalsOK, StartExecute, device, scan, loops, verdict, control, FsmArmed
  <2>9. ProcessInv'
    <3>1. AtRest' /\ Scanning' /\ FrontierBegun' /\ InPassLoop' /\ Verifying'
      BY <1>1, <2>1, <2>2 DEF ProcessInv, AtRest, Scanning, FrontierBegun, InPassLoop, Verifying,
         PassLoop, Writing, StartExecute, device, scan, loops, verdict, control, FsmArmed
    <3>2. Preparing'
      BY <1>1, <2>1, <2>2 DEF ProcessInv, Preparing, PassLoop, Writing, StartExecute,
         device, scan, loops, verdict, control, FsmArmed, AtRest, Has
    <3> QED  BY <3>1, <3>2 DEF ProcessInv
  <2>10. WriteAhead'
    BY <1>1, <2>2, ContentMoves DEF StartExecute, device
  <2> QED  BY <2>2, <2>4, <2>6, <2>7, <2>9, <2>10
<1>2. CASE AppendHeader
  <2>1. PICK r \in JournalRecord : r = Header /\ Log(r)
    BY <1>2, RecordTypes DEF AppendHeader
  <2>2. /\ journal' \in Seq(JournalRecord)
        /\ \A x : Logged(x) => Logged(x)'
        /\ Logged(r)'
        /\ \A t : Has(t)' <=> (Has(t) \/ r.type = t)
    BY <2>1, LogShape, LogKeeps DEF EvidenceOK
  <2>3. JournalInv'
    BY <2>1, LogGrammar, <1>2 DEF EvidenceOK, Header
  <2>4. DeviceOK' /\ EvidenceOK' /\ BudgetOK'
    BY <1>2, <2>2 DEF DeviceOK, EvidenceOK, BudgetOK, AppendHeader, device
  <2>6. ControlOK' /\ LocalsOK'
    BY <1>2 DEF ControlOK, LocalsOK, AppendHeader, device, scan, loops, verdict, control
  <2>9. ProcessInv'
    BY <1>2, <2>1, <2>2
    DEF ProcessInv, AtRest, Preparing, Scanning, FrontierBegun, InPassLoop, Verifying,
         PassLoop, Writing, AppendHeader, device, scan, loops, verdict, control, Header
  <2>10. WriteAhead'
    BY <1>2, <2>2, ContentMoves DEF AppendHeader, device
  <2> QED  BY <2>3, <2>4, <2>6, <2>9, <2>10
<1>3. CASE AppendArmed
  <2>1. PICK r \in JournalRecord : r = Armed /\ Log(r)
    BY <1>3, RecordTypes DEF AppendArmed
  <2>2. /\ journal' \in Seq(JournalRecord)
        /\ \A x : Logged(x) => Logged(x)'
        /\ Logged(r)'
        /\ \A t : Has(t)' <=> (Has(t) \/ r.type = t)
    BY <2>1, LogShape, LogKeeps DEF EvidenceOK
  <2>3. JournalInv'
    BY <2>1, LogGrammar, <1>3 DEF EvidenceOK, Armed
  <2>4. DeviceOK' /\ EvidenceOK' /\ BudgetOK'
    BY <1>3, <2>2 DEF DeviceOK, EvidenceOK, BudgetOK, AppendArmed, device
  <2>6. ControlOK' /\ LocalsOK'
    BY <1>3 DEF ControlOK, LocalsOK, AppendArmed, device, scan, loops, verdict, control
  <2>9. ProcessInv'
    <3>1. AtRest' /\ Preparing' /\ Scanning'
      BY <1>3, <2>1, <2>2 DEF ProcessInv, AtRest, Preparing, Scanning,
         PassLoop, Writing, AppendArmed, device, scan, loops, verdict, control, Armed
    <3>2. FrontierBegun'
      BY <1>3, <2>1, <2>2 DEF ProcessInv, FrontierBegun, PassLoop, Writing, AppendArmed,
         device, scan, loops, verdict, control, Armed, Preparing, Armed
    <3>3. InPassLoop'
      BY <1>3, <2>1, <2>2 DEF ProcessInv, InPassLoop, PassLoop, Writing, AppendArmed,
         device, scan, loops, verdict, control, Armed, Preparing, Armed
    <3>4. Verifying'
      BY <1>3, <2>1, <2>2 DEF ProcessInv, Verifying, PassLoop, Writing, AppendArmed,
         device, scan, loops, verdict, control, Armed, Preparing, Armed
    <3> QED  BY <3>1, <3>2, <3>3, <3>4 DEF ProcessInv
  <2>10. WriteAhead'
    BY <1>3, <2>2, ContentMoves DEF AppendArmed, device
  <2> QED  BY <2>3, <2>4, <2>6, <2>9, <2>10
<1>4. CASE StartResume
  <2>1. journal' = journal
    BY <1>4 DEF StartResume
  <2>2. /\ JournalInv'
        /\ \A x : Logged(x)' <=> Logged(x)
        /\ \A t : Has(t)' <=> Has(t)
    BY <2>1, JournalKept
  <2>4. DeviceOK' /\ EvidenceOK'
    BY <1>4, <2>1 DEF DeviceOK, EvidenceOK, StartResume, device
  <2>8. BudgetOK'
    BY <1>4, SpendTypes DEF StartResume, EventKind
  <2>6. ControlOK'
    BY <1>4 DEF ControlOK, StartResume, ExitCode, control, scan
  <2>7. LocalsOK'
    BY <1>4 DEF LocalsOK, StartResume, device, scan, loops, verdict, control
  <2>9. ProcessInv'
    <3>1. AtRest' /\ Preparing' /\ InPassLoop' /\ Verifying'
      BY <1>4, <2>1, <2>2 DEF ProcessInv, AtRest, Preparing, InPassLoop, Verifying,
         PassLoop, Writing, StartResume, device, scan, loops, verdict, control
    <3>2. Scanning'
      BY <1>4, <2>1, <2>2 DEF ProcessInv, Scanning, PassLoop, Writing, StartResume,
         device, scan, loops, verdict, control, AtRest
    <3>3. FrontierBegun'
      BY <1>4, <2>1, <2>2 DEF ProcessInv, FrontierBegun, PassLoop, Writing, StartResume,
         device, scan, loops, verdict, control, AtRest
    <3> QED  BY <3>1, <3>2, <3>3 DEF ProcessInv
  <2>10. WriteAhead'
    BY <1>4, <2>2, ContentMoves DEF StartResume, device
  <2> QED  BY <2>2, <2>4, <2>8, <2>6, <2>7, <2>9, <2>10
<1>5. CASE ScanRecord
  <2>1. journal' = journal
    BY <1>5 DEF ScanRecord
  <2>2. /\ JournalInv'
        /\ \A x : Logged(x)' <=> Logged(x)
        /\ \A t : Has(t)' <=> Has(t)
    BY <2>1, JournalKept
  <2>4. DeviceOK' /\ EvidenceOK' /\ BudgetOK'
    BY <1>5, <2>1 DEF DeviceOK, EvidenceOK, BudgetOK, ScanRecord, device, SetsReached
  <2>6. ControlOK'
    BY <1>5 DEF ControlOK, ScanRecord, device, scan, loops, verdict, control, SetsReached
  <2>7. LocalsOK'
    <3>1. journal[idx] \in JournalRecord
      BY <1>5 DEF ScanRecord, EvidenceOK, LocalsOK
    <3>2. /\ journal[idx].type = "BeginPass" => journal[idx].pass \in Nat
          /\ journal[idx].type = "RangeCommit" => journal[idx].num \in Nat
      BY <3>1 DEF JournalRecord, Header, Armed, Completed
    <3> QED  BY <1>5, <3>2 DEF LocalsOK, ScanRecord, loops, verdict
  <2>9. ProcessInv'
    <3>1. AtRest' /\ Preparing' /\ InPassLoop' /\ Verifying'
      BY <1>5, <2>1, <2>2 DEF ProcessInv, AtRest, Preparing, InPassLoop, Verifying,
         PassLoop, Writing, ScanRecord, device, scan, loops, verdict, control, SetsReached
    <3>2. Scanning'
      <4> DEFINE r == journal[idx]
      <4>1. idx \in 1 .. Len(journal) /\ cmd = "resume" /\ pc = "scan" /\ pc' = "scan" /\ idx' = idx + 1
        BY <1>5 DEF ScanRecord, LocalsOK, ProcessInv, Scanning
      <4>2. r.type = "BeginPass" /\ r.pass > 0 => reached
        <5>1. SUFFICES ASSUME r.type = "BeginPass", r.pass > 0 PROVE reached
          OBVIOUS
        <5>2. r.pass \in Passes /\ \E j \in 1 .. idx - 1 : journal[j] = Flushed(r.pass - 1)
          BY <4>1, <5>1 DEF JournalInv, PassesInOrder
        <5>3. PICK j \in 1 .. idx - 1 : journal[j] = Flushed(r.pass - 1)
          BY <5>2
        <5>4. j \in 1 .. Len(journal) /\ j < idx /\ journal[j].type = "Flushed"
          BY <5>3, <4>1 DEF Flushed, EvidenceOK
        <5> QED  BY <5>4, <4>1 DEF ProcessInv, Scanning
      <4>3. reached => reached'
        BY <1>5 DEF ScanRecord
      <4>4. last' > 0 => reached'
        BY <1>5, <4>1, <4>2, <4>3 DEF ScanRecord, ProcessInv, Scanning
      <4>5. r.type = "Flushed" => reached'
        BY <1>5 DEF ScanRecord, SetsReached
      <4> QED
        BY <1>5, <2>1, <4>1, <4>3, <4>4, <4>5 DEF ScanRecord, ProcessInv, Scanning, LocalsOK
    <3>3. FrontierBegun'
      <4>1. idx \in 1 .. Len(journal) /\ pc = "scan"
        BY <1>5 DEF ScanRecord, LocalsOK
      <4>2. journal[idx].type = "RangeCommit" => Logged(BeginPass(journal[idx].pass))
        BY <4>1 DEF JournalInv
      <4>3. committed > 0 => Logged(BeginPass(last))
        BY <4>1 DEF ProcessInv, FrontierBegun
      <4> QED  BY <1>5, <2>2, <4>1, <4>2, <4>3 DEF ScanRecord, FrontierBegun, LocalsOK
    <3> QED  BY <3>1, <3>2, <3>3 DEF ProcessInv
  <2>10. WriteAhead'
    BY <1>5, <2>2, ContentMoves DEF ScanRecord, device
  <2> QED  BY <2>2, <2>4, <2>6, <2>7, <2>9, <2>10
<1>6. CASE ResumeArm
  <2>1. PICK r \in JournalRecord : r = Armed /\ Log(r)
    BY <1>6, RecordTypes DEF ResumeArm
  <2>2. /\ journal' \in Seq(JournalRecord)
        /\ \A x : Logged(x) => Logged(x)'
        /\ Logged(r)'
        /\ \A t : Has(t)' <=> (Has(t) \/ r.type = t)
    BY <2>1, LogShape, LogKeeps DEF EvidenceOK
  <2>3. JournalInv'
    BY <2>1, LogGrammar, <1>6 DEF EvidenceOK, Armed
  <2>4. DeviceOK' /\ EvidenceOK' /\ BudgetOK'
    BY <1>6, <2>2 DEF DeviceOK, EvidenceOK, BudgetOK, ResumeArm, device, FsmArmed
  <2>6. ControlOK' /\ LocalsOK'
    BY <1>6 DEF ControlOK, LocalsOK, ResumeArm, device, scan, loops, verdict, control, FsmArmed
  <2>9. ProcessInv'
    <3>1. AtRest' /\ Preparing' /\ FrontierBegun' /\ InPassLoop' /\ Verifying'
      BY <1>6, <2>1, <2>2 DEF ProcessInv, AtRest, Preparing, FrontierBegun, InPassLoop, Verifying,
         PassLoop, Writing, ResumeArm, device, scan, loops, verdict, control, FsmArmed, Armed
    <3>2. Scanning'
      <4>1. Has("Flushed") => reached
        BY <1>6 DEF ResumeArm, Has, ProcessInv, Scanning, EvidenceOK, LocalsOK
      <4>2. Has("Flushed")' => reached'
        BY <1>6, <2>1, <2>2, <4>1 DEF ResumeArm, Armed, scan
      <4> QED  BY <1>6, <4>2 DEF ResumeArm, ProcessInv, Scanning, FsmArmed, scan
    <3> QED  BY <3>1, <3>2 DEF ProcessInv
  <2>10. WriteAhead'
    BY <1>6, <2>2, ContentMoves DEF ResumeArm, device
  <2> QED  BY <2>3, <2>4, <2>6, <2>9, <2>10
<1>7. CASE AppendResumed
  <2>1. PICK r \in JournalRecord : r = Resumed(last, committed) /\ Log(r)
    BY <1>7, RecordTypes DEF AppendResumed, LocalsOK
  <2>2. /\ journal' \in Seq(JournalRecord)
        /\ \A x : Logged(x) => Logged(x)'
        /\ Logged(r)'
        /\ \A t : Has(t)' <=> (Has(t) \/ r.type = t)
    BY <2>1, LogShape, LogKeeps DEF EvidenceOK
  <2>3. JournalInv'
    BY <2>1, LogGrammar, <1>7 DEF EvidenceOK, Resumed
  <2>4. DeviceOK' /\ EvidenceOK' /\ BudgetOK'
    BY <1>7, <2>2 DEF DeviceOK, EvidenceOK, BudgetOK, AppendResumed, device
  <2>6. ControlOK' /\ LocalsOK'
    BY <1>7 DEF ControlOK, LocalsOK, AppendResumed, device, scan, loops, verdict, control
  <2>9. ProcessInv'
    <3>1. AtRest' /\ Preparing' /\ Scanning' /\ FrontierBegun'
      BY <1>7, <2>1, <2>2 DEF ProcessInv, AtRest, Preparing, Scanning, FrontierBegun,
         PassLoop, Writing, AppendResumed, device, scan, loops, verdict, control, Resumed
    <3>2. InPassLoop'
      <4>1. ~reached => last = 0 /\ ~Has("Verify")
        BY <1>7 DEF AppendResumed, ProcessInv, Scanning, JournalInv, LocalsOK
      <4> QED
        BY <1>7, <2>1, <2>2, <4>1
        DEF AppendResumed, ProcessInv, Scanning, InPassLoop, PassLoop, Writing, Resumed, scan, verdict
    <3>3. Verifying'
      <4>1. ~reached => last = 0 /\ ~Has("Verify")
        BY <1>7 DEF AppendResumed, ProcessInv, Scanning, JournalInv, LocalsOK
      <4> QED
        BY <1>7, <2>1, <2>2, <4>1
        DEF AppendResumed, ProcessInv, Scanning, Verifying, PassLoop, Writing, Resumed, scan, verdict
    <3> QED  BY <3>1, <3>2, <3>3 DEF ProcessInv
  <2>10. WriteAhead'
    BY <1>7, <2>2, ContentMoves DEF AppendResumed, device
  <2> QED  BY <2>3, <2>4, <2>6, <2>9, <2>10
<1>8. CASE StartPass
  <2>0. pc = "pass" /\ off \in Passes /\ pc \in PassLoop /\ pc' \in {"zero", "write"} /\ off' = off
    BY <1>8, PlanAssumption DEF StartPass, MorePasses, LocalsOK, Passes, PassLoop
  <2>1. PassIdx = off /\ StartWindow \in Nat
    BY <2>0, PassIdxIsOff
  <2>2. ~StartsOver => Logged(BeginPass(off))
    <3>1. SUFFICES ASSUME StartWindow # 0 PROVE Logged(BeginPass(off))
      BY DEF StartsOver
    <3>2. off = last /\ committed > 0
      BY <3>1, <2>1 DEF StartWindow, LocalsOK
    <3> QED  BY <3>2, <2>0 DEF ProcessInv, FrontierBegun
  <2>3. off > 0 => Logged(Flushed(off - 1))
    BY <2>0 DEF ProcessInv, InPassLoop
  <2>4. /\ journal' \in Seq(JournalRecord) /\ JournalInv'
        /\ \A x : Logged(x) => Logged(x)'
        /\ Logged(BeginPass(off))'
        /\ Has("Verify")' <=> Has("Verify")
    <3>1. CASE StartsOver
      <4>1. PICK r \in JournalRecord : r = BeginPass(off) /\ Log(r)
        BY <1>8, <2>0, <2>1, <3>1, StampTypes, RecordTypes DEF StartPass
      <4>2. r.type = "BeginPass" /\ r.pass = off
        BY <4>1 DEF BeginPass
      <4>3. JournalInv'
        BY <4>1, <4>2, <2>0, <2>3, LogGrammar DEF EvidenceOK
      <4> QED  BY <2>0, <4>1, <4>2, <4>3, LogShape, LogKeeps DEF EvidenceOK
    <3>2. CASE ~StartsOver
      <4>1. journal' = journal
        BY <1>8, <3>2 DEF StartPass
      <4> QED  BY <2>0, <4>1, <3>2, <2>2, JournalKept DEF EvidenceOK
    <3> QED  BY <3>1, <3>2
  <2>5. DeviceOK' /\ EvidenceOK' /\ BudgetOK'
    BY <1>8, <2>4 DEF StartPass, DeviceOK, EvidenceOK, BudgetOK, device
  <2>6. ControlOK' /\ LocalsOK'
    BY <1>8, <2>0, <2>1 DEF StartPass, ControlOK, LocalsOK, scan, verdict, control
  <2>7. AtRest' /\ Preparing' /\ Scanning'
    BY <1>8, <2>0 DEF AtRest, Preparing, Scanning
  <2>8. FrontierBegun' /\ InPassLoop'
    BY <1>8, <2>0, <2>3, <2>4 DEF StartPass, ProcessInv, FrontierBegun, InPassLoop, PassLoop,
       Writing, scan
  <2>9. Verifying'
    BY <1>8, <2>0, <2>4 DEF StartPass, ProcessInv, Verifying, PassLoop, Writing, verdict
  <2>10. WriteAhead'
    BY <1>8, <2>4, ContentMoves DEF StartPass, device
  <2> QED  BY <2>4, <2>5, <2>6, <2>7, <2>8, <2>9, <2>10 DEF ProcessInv
<1>9. CASE WriteWindow
  <2>a. off \in Passes /\ Logged(BeginPass(off))
    BY <1>9 DEF WriteWindow, ProcessInv, InPassLoop, Writing
  <2>1. journal' = journal
    BY <1>9 DEF WriteWindow
  <2>2. /\ JournalInv'
        /\ \A x : Logged(x)' <=> Logged(x)
        /\ \A t : Has(t)' <=> Has(t)
    BY <2>1, JournalKept
  <2>4. EvidenceOK'
    BY <1>9, <2>1 DEF EvidenceOK, WriteWindow, MoreWindows, PacerTrip, PacerCalm
  <2>5. DeviceOK'
    BY <1>9, <2>a, WindowTypes, StampTypes DEF WriteWindow, DeviceOK
  <2>8. BudgetOK'
    BY <1>9, PacerTypes DEF WriteWindow
  <2>6. ControlOK'
    BY <1>9, PacerTypes DEF ControlOK, WriteWindow, scan, control
  <2>7. LocalsOK'
    BY <1>9 DEF WriteWindow, LocalsOK, scan, verdict
  <2>9. ProcessInv'
    <3>1. AtRest' /\ Preparing' /\ Scanning' /\ FrontierBegun' /\ Verifying'
      BY <1>9, <2>1, <2>2 DEF ProcessInv, AtRest, Preparing, Scanning, FrontierBegun, Verifying,
         PassLoop, Writing, WriteWindow, device, scan, loops, verdict, control, MoreWindows, PacerTrip, PacerCalm
    <3>2. InPassLoop'
      BY <1>9, <2>1, <2>2 DEF WriteWindow, ProcessInv, InPassLoop, PassLoop, scan
    <3> QED  BY <3>1, <3>2 DEF ProcessInv
  <2>10. WriteAhead'
    BY <1>9, <2>a, <2>2, ContentStamped, StampTypes DEF DeviceOK, WriteWindow
  <2> QED  BY <2>2, <2>4, <2>5, <2>8, <2>6, <2>7, <2>9, <2>10
<1>10. CASE ZeroChunk
  <2>a. off \in Passes /\ Logged(BeginPass(off))
    BY <1>10 DEF ZeroChunk, ProcessInv, InPassLoop, Writing
  <2>1. journal' = journal
    BY <1>10 DEF ZeroChunk
  <2>2. /\ JournalInv'
        /\ \A x : Logged(x)' <=> Logged(x)
        /\ \A t : Has(t)' <=> Has(t)
    BY <2>1, JournalKept
  <2>4. EvidenceOK'
    BY <1>10, <2>1 DEF EvidenceOK, ZeroChunk, MoreWindows, PacerTrip, PacerCalm, Chunk
  <2>5. DeviceOK'
    BY <1>10, <2>a, StampTypes DEF ZeroChunk, DeviceOK, Chunk
  <2>8. BudgetOK'
    BY <1>10, PacerTypes DEF ZeroChunk
  <2>6. ControlOK'
    BY <1>10, PacerTypes DEF ControlOK, ZeroChunk, scan, control
  <2>7. LocalsOK'
    BY <1>10, WindowTypes DEF ZeroChunk, LocalsOK, scan, verdict
  <2>9. ProcessInv'
    BY <1>10, <2>1, <2>2
    DEF ProcessInv, AtRest, Preparing, Scanning, FrontierBegun, InPassLoop, Verifying,
         PassLoop, Writing, ZeroChunk, device, scan, loops, verdict, control, MoreWindows, PacerTrip, PacerCalm, Chunk
  <2>10. WriteAhead'
    BY <1>10, <2>a, <2>2, ContentStamped, StampTypes DEF DeviceOK, ZeroChunk
  <2> QED  BY <2>2, <2>4, <2>5, <2>8, <2>6, <2>7, <2>9, <2>10
<1>11. CASE CommitRange
  <2>0. pc \in PassLoop
    BY <1>11 DEF CommitRange, PassLoop, Writing
  <2>1. PICK r \in JournalRecord : r = RangeCommit(PassIdx, StartWindow, WindowsWritten) /\ Log(r)
    BY <1>11, <2>0, PassIdxIsOff, WindowTypes, RecordTypes DEF CommitRange
  <2>2. /\ journal' \in Seq(JournalRecord)
        /\ \A x : Logged(x) => Logged(x)'
        /\ Logged(r)'
        /\ \A t : Has(t)' <=> (Has(t) \/ r.type = t)
    BY <2>1, LogShape, LogKeeps DEF EvidenceOK
  <2>3. JournalInv'
    <3>1. Logged(BeginPass(PassIdx))
      BY <1>11, <2>0, PassIdxIsOff DEF CommitRange, ProcessInv, InPassLoop, Writing
    <3> QED  BY <2>1, <3>1, LogGrammar DEF EvidenceOK, RangeCommit
  <2>4. DeviceOK' /\ EvidenceOK' /\ BudgetOK'
    BY <1>11, <2>2 DEF DeviceOK, EvidenceOK, BudgetOK, CommitRange, device
  <2>6. ControlOK' /\ LocalsOK'
    BY <1>11, <2>0, PassIdxIsOff, WindowTypes
    DEF ControlOK, LocalsOK, CommitRange, device, scan, loops, verdict, control
  <2>9. ProcessInv'
    BY <1>11, <2>1, <2>2, <2>0, PassIdxIsOff, WindowTypes
    DEF ProcessInv, AtRest, Preparing, Scanning, FrontierBegun, InPassLoop, Verifying,
         PassLoop, Writing, CommitRange, device, scan, loops, verdict, control, RangeCommit
  <2>10. WriteAhead'
    BY <1>11, <2>2, ContentMoves DEF CommitRange, device
  <2> QED  BY <2>3, <2>4, <2>6, <2>9, <2>10
<1>12. CASE AppendEndPass
  <2>0. pc \in PassLoop
    BY <1>12 DEF AppendEndPass, PassLoop, Writing
  <2>1. PICK r \in JournalRecord : r = EndPass(PassIdx) /\ Log(r)
    BY <1>12, <2>0, PassIdxIsOff, RecordTypes DEF AppendEndPass
  <2>2. /\ journal' \in Seq(JournalRecord)
        /\ \A x : Logged(x) => Logged(x)'
        /\ Logged(r)'
        /\ \A t : Has(t)' <=> (Has(t) \/ r.type = t)
    BY <2>1, LogShape, LogKeeps DEF EvidenceOK
  <2>3. JournalInv'
    BY <2>1, LogGrammar, <1>12, <2>0, PassIdxIsOff DEF EvidenceOK, EndPass
  <2>4. DeviceOK' /\ EvidenceOK' /\ BudgetOK'
    BY <1>12, <2>2 DEF DeviceOK, EvidenceOK, BudgetOK, AppendEndPass, device
  <2>6. ControlOK' /\ LocalsOK'
    BY <1>12, <2>0, PassIdxIsOff
    DEF ControlOK, LocalsOK, AppendEndPass, device, scan, loops, verdict, control
  <2>9. ProcessInv'
    BY <1>12, <2>1, <2>2, <2>0, PassIdxIsOff
    DEF ProcessInv, AtRest, Preparing, Scanning, FrontierBegun, InPassLoop, Verifying,
         PassLoop, Writing, AppendEndPass, device, scan, loops, verdict, control, EndPass
  <2>10. WriteAhead'
    BY <1>12, <2>2, ContentMoves DEF AppendEndPass, device
  <2> QED  BY <2>3, <2>4, <2>6, <2>9, <2>10
<1>13. CASE Flush
  <2>1. journal' = journal
    BY <1>13 DEF Flush
  <2>2. /\ JournalInv'
        /\ \A x : Logged(x)' <=> Logged(x)
        /\ \A t : Has(t)' <=> Has(t)
    BY <2>1, JournalKept
  <2>4. EvidenceOK'
    BY <1>13, <2>1 DEF EvidenceOK, Flush
  <2>5. DeviceOK'
    BY <1>13 DEF Flush, DeviceOK
  <2>8. BudgetOK'
    BY <1>13, SpendTypes DEF Flush, EventKind, BudgetOK
  <2>6. ControlOK' /\ LocalsOK'
    BY <1>13 DEF ControlOK, LocalsOK, Flush, device, scan, loops, verdict, control
  <2>9. ProcessInv'
    BY <1>13, <2>1, <2>2
    DEF ProcessInv, AtRest, Preparing, Scanning, FrontierBegun, InPassLoop, Verifying,
         PassLoop, Writing, Flush, device, scan, loops, verdict, control
  <2>10. WriteAhead'
    BY <1>13, <2>2, ContentMoves DEF Flush
  <2> QED  BY <2>2, <2>4, <2>5, <2>8, <2>6, <2>9, <2>10
<1>14. CASE AppendFlushed
  <2>0. pc \in PassLoop
    BY <1>14 DEF AppendFlushed, PassLoop, Writing
  <2>1. PICK r \in JournalRecord : r = Flushed(PassIdx) /\ Log(r)
    BY <1>14, <2>0, PassIdxIsOff, RecordTypes DEF AppendFlushed
  <2>2. /\ journal' \in Seq(JournalRecord)
        /\ \A x : Logged(x) => Logged(x)'
        /\ Logged(r)'
        /\ \A t : Has(t)' <=> (Has(t) \/ r.type = t)
    BY <2>1, LogShape, LogKeeps DEF EvidenceOK
  <2>3. JournalInv'
    BY <2>1, LogGrammar, <1>14, <2>0, PassIdxIsOff DEF EvidenceOK, Flushed
  <2>4. DeviceOK' /\ EvidenceOK' /\ BudgetOK'
    BY <1>14, <2>2 DEF DeviceOK, EvidenceOK, BudgetOK, AppendFlushed, device
  <2>6. ControlOK' /\ LocalsOK'
    BY <1>14, <2>0, PassIdxIsOff
    DEF ControlOK, LocalsOK, AppendFlushed, device, scan, loops, verdict, control
  <2>9. ProcessInv'
    BY <1>14, <2>1, <2>2, <2>0, PassIdxIsOff
    DEF ProcessInv, AtRest, Preparing, Scanning, FrontierBegun, InPassLoop, Verifying,
         PassLoop, Writing, AppendFlushed, device, scan, loops, verdict, control, Flushed
  <2>10. WriteAhead'
    BY <1>14, <2>2, ContentMoves DEF AppendFlushed, device
  <2> QED  BY <2>3, <2>4, <2>6, <2>9, <2>10
<1>15. CASE ResumeRefused
  <2>1. journal' = journal
    BY <1>15 DEF ResumeRefused, Abandon
  <2>2. /\ JournalInv'
        /\ \A x : Logged(x)' <=> Logged(x)
        /\ \A t : Has(t)' <=> Has(t)
    BY <2>1, JournalKept
  <2>4. DeviceOK' /\ EvidenceOK' /\ BudgetOK'
    BY <1>15, <2>1 DEF DeviceOK, EvidenceOK, BudgetOK, ResumeRefused, device, Abandon
  <2>6. ControlOK' /\ LocalsOK' /\ ProcessInv'
    BY <1>15, QuitProcess DEF ResumeRefused, ExitCode, Abandon
  <2>10. WriteAhead'
    BY <1>15, <2>2, ContentMoves DEF ResumeRefused, device, Abandon
  <2> QED  BY <2>2, <2>4, <2>6, <2>10
<1>16. CASE VerifyRefused
  <2>1. journal' = journal
    BY <1>16 DEF VerifyRefused, Abandon
  <2>2. /\ JournalInv'
        /\ \A x : Logged(x)' <=> Logged(x)
        /\ \A t : Has(t)' <=> Has(t)
    BY <2>1, JournalKept
  <2>4. DeviceOK' /\ EvidenceOK' /\ BudgetOK'
    BY <1>16, <2>1 DEF DeviceOK, EvidenceOK, BudgetOK, VerifyRefused, device, Abandon
  <2>6. ControlOK' /\ LocalsOK' /\ ProcessInv'
    BY <1>16, QuitProcess DEF VerifyRefused, ExitCode, Abandon
  <2>10. WriteAhead'
    BY <1>16, <2>2, ContentMoves DEF VerifyRefused, device, Abandon
  <2> QED  BY <2>2, <2>4, <2>6, <2>10
<1>17. CASE RejectWipe
  <2>1. PICK r \in JournalRecord : r = Failed("VERIFICATION_FAILED") /\ Log(r)
    BY <1>17, RecordTypes DEF RejectWipe
  <2>2. /\ journal' \in Seq(JournalRecord)
        /\ \A x : Logged(x) => Logged(x)'
        /\ Logged(r)'
        /\ \A t : Has(t)' <=> (Has(t) \/ r.type = t)
    BY <2>1, LogShape, LogKeeps DEF EvidenceOK
  <2>3. JournalInv'
    BY <2>1, LogGrammar, <1>17 DEF EvidenceOK, Failed
  <2>4. DeviceOK' /\ EvidenceOK' /\ BudgetOK'
    BY <1>17, <2>2 DEF DeviceOK, EvidenceOK, BudgetOK, RejectWipe, device
  <2>6. ControlOK' /\ LocalsOK' /\ ProcessInv'
    BY <1>17, QuitProcess DEF RejectWipe, ExitCode
  <2>10. WriteAhead'
    BY <1>17, <2>2, ContentMoves DEF RejectWipe, device
  <2> QED  BY <2>3, <2>4, <2>6, <2>10
<1>18. CASE DrainWrite
  <2>0. pc \in PassLoop
    BY <1>18 DEF DrainWrite, PassLoop, Writing
  <2>1. PICK r \in JournalRecord : Log(r) /\ r.type \in {"Failed", "Interrupted"}
    <3>1. Failed("THERMAL_CRITICAL") \in JournalRecord
      BY RecordTypes
    <3>2. Interrupted(PassIdx, CompletedThrough) \in JournalRecord
      BY <2>0, PassIdxIsOff, RecordTypes DEF CompletedThrough, LocalsOK
    <3> QED  BY <1>18, <3>1, <3>2 DEF DrainWrite, Failed, Interrupted
  <2>2. journal' \in Seq(JournalRecord) /\ \A x : Logged(x) => Logged(x)'
    BY <2>1, LogShape, LogKeeps DEF EvidenceOK
  <2>3. JournalInv'
    BY <2>1, LogGrammar DEF EvidenceOK
  <2>4. DeviceOK' /\ EvidenceOK' /\ BudgetOK'
    BY <1>18, <2>2 DEF DrainWrite, DeviceOK, EvidenceOK, BudgetOK, device
  <2>5. ControlOK' /\ LocalsOK' /\ ProcessInv'
    BY <1>18, QuitProcess DEF DrainWrite, ExitCode
  <2>6. WriteAhead'
    BY <1>18, <2>2, ContentMoves DEF DrainWrite, device
  <2> QED  BY <2>3, <2>4, <2>5, <2>6
<1>19. CASE DrainVerify
  <2>1. PICK r \in JournalRecord : r = Interrupted(None, None) /\ Log(r)
    BY <1>19, RecordTypes DEF DrainVerify, None
  <2>2. /\ journal' \in Seq(JournalRecord)
        /\ \A x : Logged(x) => Logged(x)'
        /\ Logged(r)'
        /\ \A t : Has(t)' <=> (Has(t) \/ r.type = t)
    BY <2>1, LogShape, LogKeeps DEF EvidenceOK
  <2>3. JournalInv'
    BY <2>1, LogGrammar, <1>19 DEF EvidenceOK, Interrupted
  <2>4. DeviceOK' /\ EvidenceOK' /\ BudgetOK'
    BY <1>19, <2>2 DEF DeviceOK, EvidenceOK, BudgetOK, DrainVerify, device
  <2>6. ControlOK' /\ LocalsOK' /\ ProcessInv'
    BY <1>19, QuitProcess DEF DrainVerify, ExitCode
  <2>10. WriteAhead'
    BY <1>19, <2>2, ContentMoves DEF DrainVerify, device
  <2> QED  BY <2>3, <2>4, <2>6, <2>10
<1>20. CASE ZeroFallback
  <2>1. journal' = journal
    BY <1>20 DEF ZeroFallback
  <2>2. /\ JournalInv'
        /\ \A x : Logged(x)' <=> Logged(x)
        /\ \A t : Has(t)' <=> Has(t)
    BY <2>1, JournalKept
  <2>4. DeviceOK' /\ EvidenceOK'
    BY <1>20, <2>1 DEF DeviceOK, EvidenceOK, ZeroFallback, device
  <2>8. BudgetOK'
    BY <1>20, SpendTypes DEF ZeroFallback, EventKind
  <2>6. ControlOK' /\ LocalsOK'
    BY <1>20 DEF ControlOK, LocalsOK, ZeroFallback, device, scan, loops, verdict, control
  <2>9. ProcessInv'
    BY <1>20, <2>1, <2>2
    DEF ProcessInv, AtRest, Preparing, Scanning, FrontierBegun, InPassLoop, Verifying,
         PassLoop, Writing, ZeroFallback, device, scan, loops, verdict, control
  <2>10. WriteAhead'
    BY <1>20, <2>2, ContentMoves DEF ZeroFallback, device
  <2> QED  BY <2>2, <2>4, <2>8, <2>6, <2>9, <2>10
<1>21. CASE WriteFails
  <2>a. off \in Passes /\ Logged(BeginPass(off))
    BY <1>21 DEF WriteFails, ProcessInv, InPassLoop, Writing
  <2>1. PICK r \in JournalRecord : r = Failed("EIO") /\ Log(r)
    BY <1>21, RecordTypes DEF WriteFails
  <2>2. /\ journal' \in Seq(JournalRecord)
        /\ \A x : Logged(x) => Logged(x)'
        /\ Logged(r)'
        /\ \A t : Has(t)' <=> (Has(t) \/ r.type = t)
    BY <2>1, LogShape, LogKeeps DEF EvidenceOK
  <2>3. JournalInv'
    BY <2>1, LogGrammar, <1>21 DEF EvidenceOK, Failed
  <2>4. EvidenceOK'
    BY <1>21, <2>2 DEF EvidenceOK, WriteFails
  <2>5. DeviceOK'
    BY <1>21, <2>a, WindowTypes, StampTypes DEF WriteFails, DeviceOK
  <2>8. BudgetOK'
    BY <1>21, SpendTypes DEF WriteFails, EventKind
  <2>6. ControlOK' /\ LocalsOK' /\ ProcessInv'
    BY <1>21, QuitProcess DEF WriteFails, ExitCode
  <2>10. WriteAhead'
    BY <1>21, <2>a, <2>2, ContentStamped, StampTypes DEF DeviceOK, WriteFails
  <2> QED  BY <2>3, <2>4, <2>5, <2>8, <2>6, <2>10
<1>22. CASE FlushFails
  <2>1. journal' = journal
    BY <1>22 DEF FlushFails
  <2>2. /\ JournalInv'
        /\ \A x : Logged(x)' <=> Logged(x)
        /\ \A t : Has(t)' <=> Has(t)
    BY <2>1, JournalKept
  <2>4. DeviceOK' /\ EvidenceOK'
    BY <1>22, <2>1 DEF DeviceOK, EvidenceOK, FlushFails, device
  <2>8. BudgetOK'
    BY <1>22, SpendTypes DEF FlushFails, EventKind
  <2>6. ControlOK' /\ LocalsOK' /\ ProcessInv'
    BY <1>22, QuitProcess DEF FlushFails, ExitCode
  <2>10. WriteAhead'
    BY <1>22, <2>2, ContentMoves DEF FlushFails, device
  <2> QED  BY <2>2, <2>4, <2>8, <2>6, <2>10
<1>23. CASE ReadFails
  <2>1. PICK r \in JournalRecord : r = Failed("EIO") /\ Log(r)
    BY <1>23, RecordTypes DEF ReadFails
  <2>2. /\ journal' \in Seq(JournalRecord)
        /\ \A x : Logged(x) => Logged(x)'
        /\ Logged(r)'
        /\ \A t : Has(t)' <=> (Has(t) \/ r.type = t)
    BY <2>1, LogShape, LogKeeps DEF EvidenceOK
  <2>3. JournalInv'
    BY <2>1, LogGrammar, <1>23 DEF EvidenceOK, Failed
  <2>4. DeviceOK' /\ EvidenceOK'
    BY <1>23, <2>2 DEF DeviceOK, EvidenceOK, ReadFails, device
  <2>8. BudgetOK'
    BY <1>23, SpendTypes DEF ReadFails, EventKind
  <2>6. ControlOK' /\ LocalsOK' /\ ProcessInv'
    BY <1>23, QuitProcess DEF ReadFails, ExitCode
  <2>10. WriteAhead'
    BY <1>23, <2>2, ContentMoves DEF ReadFails, device
  <2> QED  BY <2>3, <2>4, <2>8, <2>6, <2>10
<1>24. CASE BeginVerify
  <2>1. journal' = journal
    BY <1>24 DEF BeginVerify
  <2>2. /\ JournalInv'
        /\ \A x : Logged(x)' <=> Logged(x)
        /\ \A t : Has(t)' <=> Has(t)
    BY <2>1, JournalKept
  <2>4. DeviceOK' /\ EvidenceOK' /\ BudgetOK'
    BY <1>24, <2>1
    DEF DeviceOK, EvidenceOK, BudgetOK, BeginVerify, device, AtVerify, MayBeginVerify, VerifyStart,
        MorePasses
  <2>6. ControlOK' /\ LocalsOK'
    BY <1>24
    DEF ControlOK, LocalsOK, BeginVerify, device, scan, loops, verdict, control, AtVerify,
        MayBeginVerify, VerifyStart, MorePasses
  <2>9. ProcessInv'
    <3>1. AtRest' /\ Preparing' /\ Scanning' /\ FrontierBegun' /\ InPassLoop'
      BY <1>24, <2>1, <2>2 DEF ProcessInv, AtRest, Preparing, Scanning, FrontierBegun, InPassLoop,
         PassLoop, Writing, BeginVerify, device, scan, loops, verdict, control, AtVerify, MayBeginVerify, VerifyStart, MorePasses
    <3>2. Verifying'
      <4>1. pc = "pass" /\ ~MorePasses
        BY <1>24 DEF BeginVerify, AtVerify, MayBeginVerify, ProcessInv, Scanning
      <4>2. Logged(Flushed(off - 1)) /\ ~Has("Verify")
        BY <4>1, PlanAssumption DEF MorePasses, LocalsOK, ProcessInv, InPassLoop, Verifying, PassLoop
      <4>3. Has("Flushed")
        BY <4>2 DEF Logged, Has, Flushed
      <4> QED  BY <1>24, <2>2, <4>2, <4>3 DEF BeginVerify, Verifying, PassLoop, Writing
    <3> QED  BY <3>1, <3>2 DEF ProcessInv
  <2>10. WriteAhead'
    BY <1>24, <2>2, ContentMoves DEF BeginVerify, device
  <2> QED  BY <2>2, <2>4, <2>6, <2>9, <2>10
<1>25. CASE ReadWindow
  <2>1. journal' = journal
    BY <1>25 DEF ReadWindow
  <2>2. /\ JournalInv'
        /\ \A x : Logged(x)' <=> Logged(x)
        /\ \A t : Has(t)' <=> Has(t)
    BY <2>1, JournalKept
  <2>4. DeviceOK' /\ EvidenceOK'
    BY <1>25, <2>1 DEF DeviceOK, EvidenceOK, ReadWindow, device, MoreWindows, PacerTrip, PacerCalm
  <2>8. BudgetOK'
    BY <1>25, PacerTypes DEF ReadWindow
  <2>6. ControlOK'
    BY <1>25, PacerTypes DEF ControlOK, ReadWindow, scan, control
  <2>7. LocalsOK'
    BY <1>25, WindowTypes DEF ReadWindow, LocalsOK, scan
  <2>9. ProcessInv'
    BY <1>25, <2>1, <2>2
    DEF ProcessInv, AtRest, Preparing, Scanning, FrontierBegun, InPassLoop, Verifying,
         PassLoop, Writing, ReadWindow, device, scan, loops, verdict, control, MoreWindows, PacerTrip, PacerCalm
  <2>10. WriteAhead'
    BY <1>25, <2>2, ContentMoves DEF ReadWindow, device
  <2> QED  BY <2>2, <2>4, <2>8, <2>6, <2>7, <2>9, <2>10
<1>26. CASE ReadDone
  <2>1. journal' = journal
    BY <1>26 DEF ReadDone
  <2>2. /\ JournalInv'
        /\ \A x : Logged(x)' <=> Logged(x)
        /\ \A t : Has(t)' <=> Has(t)
    BY <2>1, JournalKept
  <2>4. DeviceOK' /\ EvidenceOK' /\ BudgetOK'
    BY <1>26, <2>1 DEF DeviceOK, EvidenceOK, BudgetOK, ReadDone, device
  <2>6. ControlOK' /\ LocalsOK'
    BY <1>26 DEF ControlOK, LocalsOK, ReadDone, device, scan, loops, verdict, control
  <2>9. ProcessInv'
    BY <1>26, <2>1, <2>2
    DEF ProcessInv, AtRest, Preparing, Scanning, FrontierBegun, InPassLoop, Verifying,
         PassLoop, Writing, ReadDone, device, scan, loops, verdict, control
  <2>10. WriteAhead'
    BY <1>26, <2>2, ContentMoves DEF ReadDone, device
  <2> QED  BY <2>2, <2>4, <2>6, <2>9, <2>10
<1>27. CASE AppendVerify
  <2>1. PICK r \in JournalRecord : r = Verify(checked, bad) /\ Log(r)
    BY <1>27, RecordTypes DEF AppendVerify, LocalsOK
  <2>2. /\ journal' \in Seq(JournalRecord)
        /\ \A x : Logged(x) => Logged(x)'
        /\ Logged(r)'
        /\ \A t : Has(t)' <=> (Has(t) \/ r.type = t)
    BY <2>1, LogShape, LogKeeps DEF EvidenceOK
  <2>3. JournalInv'
    <3>1. Has("Flushed") /\ ~Has("Verify")
      BY <1>27 DEF AppendVerify, ProcessInv, Verifying
    <3> QED  BY <2>1, <3>1, LogGrammar DEF EvidenceOK, Verify
  <2>4. DeviceOK' /\ EvidenceOK' /\ BudgetOK'
    BY <1>27, <2>2 DEF DeviceOK, EvidenceOK, BudgetOK, AppendVerify, device
  <2>6. ControlOK' /\ LocalsOK'
    BY <1>27 DEF ControlOK, LocalsOK, AppendVerify, device, scan, loops, verdict, control
  <2>9. ProcessInv'
    BY <1>27, <2>1, <2>2
    DEF ProcessInv, AtRest, Preparing, Scanning, FrontierBegun, InPassLoop, Verifying,
         PassLoop, Writing, AppendVerify, device, scan, loops, verdict, control, Verify
  <2>10. WriteAhead'
    BY <1>27, <2>2, ContentMoves DEF AppendVerify, device
  <2> QED  BY <2>3, <2>4, <2>6, <2>9, <2>10
<1>28. CASE AppendCompleted
  <2>1. PICK r \in JournalRecord : r = Completed /\ Log(r)
    BY <1>28, RecordTypes DEF AppendCompleted
  <2>2. /\ journal' \in Seq(JournalRecord)
        /\ \A x : Logged(x) => Logged(x)'
        /\ Logged(r)'
        /\ \A t : Has(t)' <=> (Has(t) \/ r.type = t)
    BY <2>1, LogShape, LogKeeps DEF EvidenceOK
  <2>3. JournalInv'
    <3>1. Has("Verify")
      BY <1>28 DEF AppendCompleted, ProcessInv, Verifying, Logged, Has, Verify
    <3> QED  BY <2>1, <3>1, LogGrammar DEF EvidenceOK, Completed
  <2>4. DeviceOK' /\ EvidenceOK' /\ BudgetOK'
    BY <1>28, <2>2 DEF DeviceOK, EvidenceOK, BudgetOK, AppendCompleted, device
  <2>6. ControlOK' /\ LocalsOK'
    BY <1>28 DEF ControlOK, LocalsOK, AppendCompleted, device, scan, loops, verdict, control
  <2>9. ProcessInv'
    BY <1>28, <2>1, <2>2
    DEF ProcessInv, AtRest, Preparing, Scanning, FrontierBegun, InPassLoop, Verifying,
         PassLoop, Writing, AppendCompleted, device, scan, loops, verdict, control, Completed
  <2>10. WriteAhead'
    BY <1>28, <2>2, ContentMoves DEF AppendCompleted, device
  <2> QED  BY <2>3, <2>4, <2>6, <2>9, <2>10
<1>29. CASE WriteCertificate
  <2>1. journal' = journal
    BY <1>29 DEF WriteCertificate
  <2>2. /\ JournalInv'
        /\ \A x : Logged(x)' <=> Logged(x)
        /\ \A t : Has(t)' <=> Has(t)
    BY <2>1, JournalKept
  <2>4. DeviceOK' /\ BudgetOK'
    BY <1>29, <2>1 DEF DeviceOK, BudgetOK, WriteCertificate, device
  <2>11. EvidenceOK'
    BY <1>29, <2>1 DEF EvidenceOK, WriteCertificate, LocalsOK
  <2>6. ControlOK' /\ LocalsOK' /\ ProcessInv'
    BY <1>29, QuitProcess DEF WriteCertificate, ExitCode
  <2>10. WriteAhead'
    BY <1>29, <2>2, ContentMoves DEF WriteCertificate, device
  <2> QED  BY <2>2, <2>4, <2>11, <2>6, <2>10
<1>30. CASE ReconstructCertificate
  <2>1. journal' = journal
    BY <1>30 DEF ReconstructCertificate
  <2>2. /\ JournalInv'
        /\ \A x : Logged(x)' <=> Logged(x)
        /\ \A t : Has(t)' <=> Has(t)
    BY <2>1, JournalKept
  <2>4. DeviceOK' /\ BudgetOK'
    BY <1>30, <2>1 DEF DeviceOK, BudgetOK, ReconstructCertificate, device
  <2>11. EvidenceOK'
    <3>1. Has("Completed")
      BY <1>30 DEF ReconstructCertificate, EndsCompleted, Has, Completed, EvidenceOK
    <3>2. FirstVerify \in 1 .. Len(journal) /\ journal[FirstVerify].type = "Verify"
      BY <3>1, FirstVerifyExists
    <3>3. journal[FirstVerify] \in JournalRecord
      BY <3>2 DEF EvidenceOK
    <3>4. /\ journal[FirstVerify].checked \in SUBSET Windows
          /\ journal[FirstVerify].mismatches \in SUBSET Windows
      BY <3>2, <3>3 DEF JournalRecord, Header, Armed, Completed
    <3> QED  BY <1>30, <2>1, <3>4 DEF ReconstructCertificate, EvidenceOK
  <2>6. ControlOK' /\ LocalsOK'
    BY <1>30 DEF ControlOK, LocalsOK, ReconstructCertificate, device, scan, loops, verdict, control
  <2>9. ProcessInv'
    BY <1>30, <2>1, <2>2
    DEF ProcessInv, AtRest, Preparing, Scanning, FrontierBegun, InPassLoop, Verifying,
         PassLoop, Writing, ReconstructCertificate, device, scan, loops, verdict, control
  <2>10. WriteAhead'
    BY <1>30, <2>2, ContentMoves DEF ReconstructCertificate, device
  <2> QED  BY <2>2, <2>4, <2>11, <2>6, <2>9, <2>10
<1>31. CASE Signal
  <2>1. journal' = journal
    BY <1>31 DEF Signal
  <2>2. /\ JournalInv'
        /\ \A x : Logged(x)' <=> Logged(x)
        /\ \A t : Has(t)' <=> Has(t)
    BY <2>1, JournalKept
  <2>4. DeviceOK' /\ EvidenceOK'
    BY <1>31, <2>1 DEF DeviceOK, EvidenceOK, Signal, device
  <2>8. BudgetOK'
    BY <1>31, SpendTypes DEF Signal, EventKind
  <2>6. ControlOK' /\ LocalsOK'
    BY <1>31 DEF ControlOK, LocalsOK, Signal, device, scan, loops, verdict, control
  <2>9. ProcessInv'
    BY <1>31, <2>1, <2>2
    DEF ProcessInv, AtRest, Preparing, Scanning, FrontierBegun, InPassLoop, Verifying,
         PassLoop, Writing, Signal, device, scan, loops, verdict, control
  <2>10. WriteAhead'
    BY <1>31, <2>2, ContentMoves DEF Signal, device
  <2> QED  BY <2>2, <2>4, <2>8, <2>6, <2>9, <2>10
<1>32. CASE Kill
  <2>1. journal' = journal /\ media' = media
    BY <1>32 DEF Kill
  <2>2. JournalInv' /\ \A x : Logged(x)' <=> Logged(x)
    BY <2>1, JournalKept
  <2>3. PICK torn \in SUBSET Torrent :
          /\ cache' = [w \in Windows |-> IF w \in torn THEN TearWith(off, cache[w]) ELSE cache[w]]
          /\ volatile' = volatile \cup torn
    BY <1>32 DEF Kill
  <2>4. torn \subseteq Windows
    BY <2>3, WindowTypes DEF Torrent
  <2>5. torn # {} => off \in Passes /\ Logged(BeginPass(off))
    BY <2>3 DEF Torrent, ProcessInv, InPassLoop, Writing
  <2>6. CASE torn = {}
    <3>1. cache' = cache
      BY <2>3, <2>6 DEF DeviceOK
    <3> QED
      <4>1. DeviceOK' /\ WriteAhead'
        BY <2>1, <2>2, <2>3, <2>6, <3>1, ContentMoves DEF DeviceOK
      <4>2. ControlOK' /\ LocalsOK' /\ ProcessInv'
        BY <1>32, QuitProcess DEF Kill, ExitCode
      <4>3. EvidenceOK' /\ BudgetOK'
        BY <1>32, <2>1, SpendTypes DEF Kill, EvidenceOK, EventKind
      <4> QED  BY <2>2, <4>1, <4>2, <4>3
  <2>7. CASE torn # {}
    <3>1. \A w \in Windows : cache'[w] \in {cache[w], Torn(off)}
      BY <2>3, <2>5, <2>7, StampTypes DEF DeviceOK
    <3>2. DeviceOK'
      BY <2>1, <2>3, <2>4, <2>5, <2>7, <3>1, StampTypes DEF DeviceOK
    <3>3. WriteAhead'
      BY <2>1, <2>2, <2>5, <2>7, <3>1, ContentStamped
    <3>4. ControlOK' /\ LocalsOK' /\ ProcessInv'
      BY <1>32, QuitProcess DEF Kill, ExitCode
    <3>5. EvidenceOK' /\ BudgetOK'
      BY <1>32, <2>1, SpendTypes DEF Kill, EvidenceOK, EventKind
    <3> QED  BY <2>2, <3>2, <3>3, <3>4, <3>5
  <2> QED  BY <2>6, <2>7
<1>33. CASE PowerLoss
  <2>1. journal' = journal
    BY <1>33 DEF PowerLoss
  <2>2. /\ JournalInv'
        /\ \A x : Logged(x)' <=> Logged(x)
        /\ \A t : Has(t)' <=> Has(t)
    BY <2>1, JournalKept
  <2>4. EvidenceOK'
    BY <1>33, <2>1 DEF EvidenceOK, PowerLoss
  <2>5. DeviceOK'
    BY <1>33 DEF PowerLoss, DeviceOK
  <2>8. BudgetOK'
    BY <1>33, SpendTypes DEF PowerLoss, EventKind
  <2>6. ControlOK' /\ LocalsOK' /\ ProcessInv'
    BY <1>33, QuitProcess DEF PowerLoss, ExitCode
  <2>10. WriteAhead'
    BY <1>33, <2>2, ContentMoves DEF PowerLoss
  <2> QED  BY <2>2, <2>4, <2>5, <2>8, <2>6, <2>10
<1>34. CASE \E w \in Windows : Evict(w)
  <2>1. journal' = journal
    BY <1>34 DEF Evict
  <2>2. /\ JournalInv'
        /\ \A x : Logged(x)' <=> Logged(x)
        /\ \A t : Has(t)' <=> Has(t)
    BY <2>1, JournalKept
  <2>4. DeviceOK' /\ EvidenceOK' /\ BudgetOK'
    BY <1>34, <2>1 DEF DeviceOK, EvidenceOK, BudgetOK, Evict, device
  <2>6. ControlOK' /\ LocalsOK'
    BY <1>34 DEF ControlOK, LocalsOK, Evict, device, scan, loops, verdict, control
  <2>9. ProcessInv'
    BY <1>34, <2>1, <2>2
    DEF ProcessInv, AtRest, Preparing, Scanning, FrontierBegun, InPassLoop, Verifying,
         PassLoop, Writing, Evict, device, scan, loops, verdict, control
  <2>10. WriteAhead'
    BY <1>34, <2>2, ContentMoves DEF Evict, device
  <2> QED  BY <2>2, <2>4, <2>6, <2>9, <2>10
<1>35. CASE GuardRefuses
  <2>1. journal' = journal
    BY <1>35 DEF GuardRefuses
  <2>2. /\ JournalInv'
        /\ \A x : Logged(x)' <=> Logged(x)
        /\ \A t : Has(t)' <=> Has(t)
    BY <2>1, JournalKept
  <2>4. DeviceOK' /\ EvidenceOK'
    BY <1>35, <2>1 DEF DeviceOK, EvidenceOK, GuardRefuses, device
  <2>8. BudgetOK'
    BY <1>35, SpendTypes DEF GuardRefuses, EventKind
  <2>6. ControlOK' /\ LocalsOK' /\ ProcessInv'
    BY <1>35, QuitProcess DEF GuardRefuses, ExitCode
  <2>10. WriteAhead'
    BY <1>35, <2>2, ContentMoves DEF GuardRefuses, device
  <2> QED  BY <2>2, <2>4, <2>8, <2>6, <2>10
<1>36. CASE CertificateWithheld
  <2>1. journal' = journal
    BY <1>36 DEF CertificateWithheld
  <2>2. /\ JournalInv'
        /\ \A x : Logged(x)' <=> Logged(x)
        /\ \A t : Has(t)' <=> Has(t)
    BY <2>1, JournalKept
  <2>4. DeviceOK' /\ EvidenceOK'
    BY <1>36, <2>1 DEF DeviceOK, EvidenceOK, CertificateWithheld, device
  <2>8. BudgetOK'
    BY <1>36, SpendTypes DEF CertificateWithheld, EventKind
  <2>6. ControlOK' /\ LocalsOK' /\ ProcessInv'
    BY <1>36, QuitProcess DEF CertificateWithheld, ExitCode
  <2>10. WriteAhead'
    BY <1>36, <2>2, ContentMoves DEF CertificateWithheld, device
  <2> QED  BY <2>2, <2>4, <2>8, <2>6, <2>10
<1>37. CASE UNCHANGED vars
  BY <1>37, JournalKept DEF vars, device, scan, loops, verdict, control,
     DeviceOK, EvidenceOK, ControlOK, LocalsOK, BudgetOK, WriteAhead, ProcessInv,
     AtRest, Preparing, Scanning, FrontierBegun, InPassLoop, Verifying, Logged, Has
<1> QED
  BY <1>1, <1>2, <1>3, <1>4, <1>5, <1>6, <1>7, <1>8, <1>9, <1>10, <1>11, <1>12, <1>13, <1>14, <1>15,
     <1>16, <1>17, <1>18, <1>19, <1>20, <1>21, <1>22, <1>23, <1>24, <1>25, <1>26, <1>27, <1>28, <1>29,
     <1>30, <1>31, <1>32, <1>33, <1>34, <1>35, <1>36, <1>37
  DEF Next, Prepare, Recover, Erase, Drain, Refuse, Fails, Attest, World


(* The initial state, an untouched device and no journal, meets CoreInv.    *)
THEOREM CoreInit == Init => CoreInv
<1> SUFFICES ASSUME Init PROVE CoreInv
  OBVIOUS
<1>1. DeviceOK
  BY PlanAssumption DEF Init, DeviceOK, Content, Old
<1>2. EvidenceOK /\ ControlOK /\ LocalsOK /\ BudgetOK
  <2>1. EvidenceOK
    BY DEF Init, EvidenceOK
  <2>2. ControlOK
    BY DEF Init, ControlOK, ExitCode
  <2>4. LocalsOK
    BY DEF Init, LocalsOK
  <2>3. BudgetOK
    BY PlanAssumption DEF Init, BudgetOK
  <2> QED  BY <2>1, <2>2, <2>3, <2>4
<1>3. JournalInv
  BY DEF Init, JournalInv, PassesInOrder, Has, Logged
<1>4. ProcessInv
  BY DEF Init, ProcessInv, AtRest, Preparing, Scanning, FrontierBegun, InPassLoop,
     Verifying, PassLoop, Writing
<1>5. WriteAhead
  BY PlanAssumption DEF Init, WriteAhead, Old, Torn, Whole, Passes
<1> QED  BY <1>1, <1>2, <1>3, <1>4, <1>5 DEF CoreInv, TypeOK

(* CoreInv is an invariant of the pipeline.                                 *)
THEOREM CoreInvariant == Spec => []CoreInv
<1>1. Init => CoreInv
  BY CoreInit
<1>2. CoreInv /\ [Next]_vars => CoreInv'
  BY CoreStep
<1> QED  BY <1>1, <1>2, PTL DEF Spec

(* The types of the Rust fields hold for every plan and every outside event *)
(* budget; no window ever carries content of a pass outside the plan.       *)
THEOREM TypeCorrect == Spec => []TypeOK
<1>1. CoreInv => TypeOK
  BY DEF CoreInv
<1> QED  BY <1>1, CoreInvariant, PTL

(* WAL ordering: pass bytes reach the cache or the media only after the     *)
(* journal names the pass (BeginPass in execute.rs, cmd_resume).            *)
THEOREM JournalLeadsMedia == Spec => []WriteAhead
<1>1. CoreInv => WriteAhead
  BY DEF CoreInv
<1> QED  BY <1>1, CoreInvariant, PTL

(* However often a run is killed and resumed, cmd_resume's index arithmetic *)
(* journals only passes of the plan, each after the one before it flushed.  *)
THEOREM PassesStayInOrder == Spec => []PassesInOrder
<1>1. CoreInv => PassesInOrder
  BY DEF CoreInv, JournalInv
<1> QED  BY <1>1, CoreInvariant, PTL

------------------------------------------------------------------------------
(* What the steps of EraseInv rest on: which steps touch what *)

(* Every step leaves the outside events alone or uses up one of them.       *)
LEMMA BudgetSteps ==
  ASSUME [Next]_vars
  PROVE  budget' = budget \/ \E f \in EventKind : Spend(f)
<1>1. ASSUME Prepare \/ Recover PROVE budget' = budget \/ Spend("resume")
  BY <1>1 DEF Prepare, Recover, StartExecute, AppendHeader, AppendArmed, StartResume,
     ScanRecord, ResumeArm, AppendResumed
<1>2. ASSUME Erase PROVE budget' = budget \/ Spend("thermal") \/ Spend("drop")
  BY <1>2 DEF Erase, StartPass, WriteWindow, ZeroChunk, CommitRange, AppendEndPass,
     Flush, AppendFlushed, PacerTrip, PacerCalm
<1>3. ASSUME Drain \/ Refuse PROVE budget' = budget
  BY <1>3 DEF Drain, Refuse, DrainWrite, DrainVerify, ResumeRefused, VerifyRefused,
     RejectWipe, Abandon
<1>4. ASSUME Fails PROVE Spend("io") \/ Spend("guard")
  BY <1>4 DEF Fails, ZeroFallback, WriteFails, FlushFails, ReadFails, GuardRefuses, CertificateWithheld
<1>5. ASSUME Attest \/ ReconstructCertificate PROVE budget' = budget \/ Spend("thermal")
  BY <1>5 DEF Attest, BeginVerify, ReadWindow, ReadDone, AppendVerify, AppendCompleted,
     WriteCertificate, ReconstructCertificate, PacerTrip, PacerCalm
<1>6. ASSUME World
      PROVE  budget' = budget \/ Spend("signal") \/ Spend("kill") \/ Spend("power")
  BY <1>6 DEF World, Signal, Kill, PowerLoss, Evict
<1>7. ASSUME UNCHANGED vars PROVE budget' = budget
  BY <1>7 DEF vars
<1> QED  BY <1>1, <1>2, <1>3, <1>4, <1>5, <1>6, <1>7 DEF Next, EventKind

(* No step takes a dropped write back.                                      *)
LEMMA DropsStep ==
  ASSUME TypeOK, DropsCounted, [Next]_vars
  PROVE  DropsCounted' /\ (NoDrops' => NoDrops)
<1>1. budget \in [EventKind -> Nat] /\ budget' \in [EventKind -> Nat]
  BY BudgetSteps, SpendTypes DEF TypeOK, BudgetOK
<1>2. budget'["drop"] <= budget["drop"]
  BY <1>1, BudgetSteps DEF Spend, EventKind
<1>3. MaxEvents["drop"] \in Nat /\ budget["drop"] \in Nat /\ budget'["drop"] \in Nat
  BY <1>1, PlanAssumption DEF EventKind
<1> QED  BY <1>2, <1>3 DEF DropsCounted, NoDrops

(* The steps that touch the device.                                         *)
LEMMA DeviceSteps ==
  ASSUME [Next]_vars
  PROVE  \/ UNCHANGED device
         \/ WriteWindow \/ ZeroChunk \/ WriteFails \/ Flush \/ Kill \/ PowerLoss
         \/ \E w \in Windows : Evict(w)
<1>1. ASSUME Prepare \/ Recover PROVE UNCHANGED device
  BY <1>1 DEF Prepare, Recover, StartExecute, AppendHeader, AppendArmed, StartResume,
     ScanRecord, ResumeArm, AppendResumed
<1>2. ASSUME Erase PROVE UNCHANGED device \/ WriteWindow \/ ZeroChunk \/ Flush
  BY <1>2 DEF Erase, StartPass, CommitRange, AppendEndPass, AppendFlushed
<1>3. ASSUME Drain \/ Refuse PROVE UNCHANGED device
  BY <1>3 DEF Drain, Refuse, DrainWrite, DrainVerify, ResumeRefused, VerifyRefused,
     RejectWipe, Abandon
<1>4. ASSUME Fails PROVE UNCHANGED device \/ WriteFails
  BY <1>4 DEF Fails, ZeroFallback, FlushFails, ReadFails, GuardRefuses, CertificateWithheld
<1>5. ASSUME Attest \/ ReconstructCertificate PROVE UNCHANGED device
  BY <1>5 DEF Attest, BeginVerify, ReadWindow, ReadDone, AppendVerify, AppendCompleted,
     WriteCertificate, ReconstructCertificate
<1>6. ASSUME World
      PROVE  UNCHANGED device \/ Kill \/ PowerLoss \/ \E w \in Windows : Evict(w)
  BY <1>6 DEF World, Signal
<1>7. ASSUME UNCHANGED vars PROVE UNCHANGED device
  BY <1>7 DEF vars
<1> QED  BY <1>1, <1>2, <1>3, <1>4, <1>5, <1>6, <1>7 DEF Next

(* One step each logs a range, a flush and the verdict.                     *)
LEMMA RecordSteps ==
  ASSUME [Next]_vars
  PROVE  \/ journal' = journal
         \/ CommitRange \/ AppendFlushed \/ AppendVerify
         \/ \E r : Log(r) /\ r.type \notin {"RangeCommit", "Flushed", "Verify"}
<1>1. ASSUME Prepare PROVE journal' = journal \/ Log(Header) \/ Log(Armed)
  BY <1>1 DEF Prepare, StartExecute, AppendHeader, AppendArmed
<1>2. ASSUME Recover PROVE journal' = journal \/ Log(Armed) \/ Log(Resumed(last, committed))
  BY <1>2 DEF Recover, StartResume, ScanRecord, ResumeArm, AppendResumed
<1>3. ASSUME Erase
      PROVE  \/ journal' = journal \/ CommitRange \/ AppendFlushed
             \/ Log(BeginPass(PassIdx)) \/ Log(EndPass(PassIdx))
  BY <1>3 DEF Erase, StartPass, WriteWindow, ZeroChunk, AppendEndPass, Flush
<1>4. ASSUME Drain \/ Refuse \/ Fails
      PROVE  \/ journal' = journal
             \/ Log(Interrupted(PassIdx, CompletedThrough)) \/ Log(Interrupted(None, None))
             \/ \E c : Log(Failed(c))
  BY <1>4 DEF Drain, Refuse, Fails, DrainWrite, DrainVerify, ResumeRefused, VerifyRefused,
     RejectWipe, Abandon, ZeroFallback, WriteFails, FlushFails, ReadFails, GuardRefuses, CertificateWithheld
<1>5. ASSUME Attest \/ ReconstructCertificate
      PROVE  journal' = journal \/ AppendVerify \/ Log(Completed)
  BY <1>5 DEF Attest, BeginVerify, ReadWindow, ReadDone, AppendCompleted,
     WriteCertificate, ReconstructCertificate
<1>6. ASSUME World \/ UNCHANGED vars PROVE journal' = journal
  BY <1>6 DEF World, Signal, Kill, PowerLoss, Evict, vars
<1> DEFINE Other(r) == r.type \notin {"RangeCommit", "Flushed", "Verify"}
<1>7. /\ Other(Header) /\ Other(Armed) /\ Other(Completed)
      /\ \A p, w : Other(Resumed(p, w)) /\ Other(Interrupted(p, w))
      /\ \A p : Other(BeginPass(p)) /\ Other(EndPass(p)) /\ Other(Failed(p))
  BY DEF Header, Armed, Completed, Resumed, Interrupted, BeginPass, EndPass, Failed
<1> QED  BY <1>1, <1>2, <1>3, <1>4, <1>5, <1>6, <1>7 DEF Next

(* One step logs the verdict; no other record is a Verify.                  *)
LEMMA VerifySteps ==
  ASSUME [Next]_vars
  PROVE  \/ journal' = journal
         \/ AppendVerify
         \/ \E r : Log(r) /\ r.type # "Verify"
  BY RecordSteps DEF CommitRange, AppendFlushed, RangeCommit, Flushed

(* Once the journal carries the verdict, and while it is being reached, the *)
(* device is at rest: the pages are clean and no write is on its way.       *)
LEMMA DeviceAtRest ==
  ASSUME CoreInv, EraseInv, [Next]_vars, NoDrops', Has("Verify") \/ pc \in {"read", "report"}
  PROVE  media' = media /\ cache' = cache
<1>1. NoDrops
  BY DropsStep DEF EraseInv, CoreInv
<1>2. volatile = {}
  BY DEF EraseInv, PermitInv
<1>3. media = cache
  BY <1>1, <1>2 DEF EraseInv, CacheClean, CoreInv, TypeOK, DeviceOK
<1>4. pc \notin Writing
  BY DEF CoreInv, ProcessInv, Verifying, PassLoop, Writing
<1>5. CASE UNCHANGED device
  BY <1>5 DEF device
<1>6. CASE WriteWindow \/ ZeroChunk \/ WriteFails \/ Flush
  BY <1>4, <1>6 DEF WriteWindow, ZeroChunk, WriteFails, Flush, Writing
<1>7. CASE Kill
  <2>1. Torrent = {}
    BY <1>4 DEF Torrent, Writing
  <2> QED  BY <1>7, <2>1 DEF Kill, CoreInv, TypeOK, DeviceOK
<1>8. CASE PowerLoss
  BY <1>2, <1>3, <1>8 DEF PowerLoss, CoreInv, TypeOK, DeviceOK
<1>9. CASE \E w \in Windows : Evict(w)
  BY <1>3, <1>9 DEF Evict
<1> QED  BY <1>5, <1>6, <1>7, <1>8, <1>9, DeviceSteps

(* A clean page holds what the media hold.                                  *)
LEMMA CacheCleanStep ==
  ASSUME CoreInv, EraseInv, [Next]_vars
  PROVE  CacheClean'
<1> SUFFICES ASSUME NoDrops'
             PROVE  \A w \in Windows : w \notin volatile' => cache'[w] = media'[w]
  BY DEF CacheClean
<1>1. NoDrops /\ \A w \in Windows : w \notin volatile => cache[w] = media[w]
  BY DropsStep DEF EraseInv, CoreInv, CacheClean
<1>2. media \in [Windows -> Content] /\ cache \in [Windows -> Content]
  BY DEF CoreInv, TypeOK, DeviceOK
<1>3. CASE UNCHANGED device
  BY <1>1, <1>3 DEF device
<1>4. CASE WriteWindow \/ ZeroChunk
  BY <1>1, <1>2, <1>4 DEF WriteWindow, ZeroChunk
<1>5. CASE WriteFails
  BY <1>1, <1>2, <1>5 DEF WriteFails
<1>6. CASE Flush
  <2>1. PICK dropped \in SUBSET volatile :
          /\ IF dropped = {} THEN UNCHANGED budget ELSE Spend("drop")
          /\ media' = [w \in Windows |-> IF w \in volatile \ dropped THEN cache[w] ELSE media[w]]
    BY <1>6 DEF Flush, Fsynced
  <2>2. dropped = {}
    <3>1. SUFFICES ASSUME Spend("drop") PROVE FALSE
      BY <2>1
    <3>2. budget'["drop"] = budget["drop"] - 1 /\ budget["drop"] \in Nat
      BY <3>1 DEF Spend, CoreInv, TypeOK, BudgetOK, EventKind
    <3> QED  BY <3>2, <1>1 DEF NoDrops
  <2> QED  BY <1>1, <1>6, <2>1, <2>2 DEF Flush
<1>7. CASE Kill
  BY <1>1, <1>2, <1>7 DEF Kill
<1>8. CASE PowerLoss
  BY <1>8 DEF PowerLoss
<1>9. CASE \E w \in Windows : Evict(w)
  BY <1>1, <1>9 DEF Evict
<1> QED  BY <1>3, <1>4, <1>5, <1>6, <1>7, <1>8, <1>9, DeviceSteps

(* The verdict in the journal stays true of the device.                     *)
LEMMA VerdictStep ==
  ASSUME CoreInv, EraseInv, [Next]_vars
  PROVE  VerdictInv'
<1> SUFFICES ASSUME NoDrops', ~SkipVerify, NEW i \in 1 .. Len(journal'),
                    journal'[i].type = "Verify"
             PROVE  \A w \in Windows :
                      Sampled(w) /\ w \notin journal'[i].mismatches => Matches(media'[w])
  BY DEF VerdictInv, Clean
<1>1. NoDrops
  BY DropsStep DEF EraseInv, CoreInv
<1>2. journal \in Seq(JournalRecord) /\ Len(journal) \in Nat
  BY DEF CoreInv, TypeOK, EvidenceOK
<1>3. CASE i \in 1 .. Len(journal) /\ journal'[i] = journal[i]
  <2>1. Has("Verify") /\ Clean(journal[i].mismatches)
    BY <1>1, <1>3 DEF Has, EraseInv, VerdictInv
  <2>2. media' = media
    BY <2>1, DeviceAtRest
  <2> QED  BY <1>3, <2>1, <2>2 DEF Clean
<1>4. CASE AppendVerify /\ i = Len(journal) + 1
  <2>1. journal'[i] = Verify(checked, bad) /\ pc = "report"
    BY <1>2, <1>4 DEF AppendVerify, Log
  <2>2. Clean(bad)
    BY <1>1, <2>1 DEF EraseInv, ReadBackInv
  <2>3. media' = media
    BY <2>1, DeviceAtRest
  <2> QED  BY <2>1, <2>2, <2>3 DEF Clean, Verify
<1>5. (i \in 1 .. Len(journal) /\ journal'[i] = journal[i]) \/ (AppendVerify /\ i = Len(journal) + 1)
  <2>1. CASE journal' = journal
    BY <2>1
  <2>2. CASE AppendVerify
    BY <1>2, <2>2 DEF AppendVerify, Log
  <2>3. CASE \E r : Log(r) /\ r.type # "Verify"
    BY <1>2, <2>3 DEF Log
  <2> QED  BY <2>1, <2>2, <2>3, VerifySteps
<1> QED  BY <1>3, <1>4, <1>5

(* Only the step that logs the verdict brings a Verify record.              *)
LEMMA HasVerifySteps ==
  ASSUME journal \in Seq(JournalRecord), [Next]_vars
  PROVE  Has("Verify")' => Has("Verify") \/ AppendVerify
<1>1. CASE journal' = journal
  BY <1>1 DEF Has
<1>2. CASE \E r : Log(r) /\ r.type # "Verify"
  BY <1>2 DEF Has, Log
<1> QED  BY <1>1, <1>2, VerifySteps

(* A process that ends hands its permits back.                              *)
LEMMA QuitPermits ==
  ASSUME EraseInv, NEW code, Quit(code),
         Has("Verify")' => Has("Verify") /\ volatile' = volatile
  PROVE  PermitInv'
  BY DEF EraseInv, PermitInv, Quit

(* The permits survive every step: nothing is written without begin_pass.   *)
LEMMA PermitStep ==
  ASSUME CoreInv, EraseInv, [Next]_vars
  PROVE  PermitInv'
<1>0. Has("Verify")' => Has("Verify") \/ AppendVerify
  BY HasVerifySteps DEF CoreInv, TypeOK, EvidenceOK
<1>1. CASE Prepare
  BY <1>0, <1>1 DEF EraseInv, PermitInv, Prepare, StartExecute, AppendHeader, AppendArmed,
     AppendVerify, device, FsmArmed
<1>2. CASE Recover
  BY <1>0, <1>2 DEF EraseInv, PermitInv, Recover, StartResume, ScanRecord, ResumeArm,
     AppendResumed, AppendVerify, device, FsmArmed
<1>3. CASE Erase
  <2>1. ~Has("Verify")' /\ pc \in PassLoop
    BY <1>0, <1>3 DEF Erase, StartPass, WriteWindow, ZeroChunk, CommitRange, AppendEndPass,
       Flush, AppendFlushed, AppendVerify, CoreInv, ProcessInv, Verifying, PassLoop, Writing
  <2>2. CASE Flush
    BY <2>1, <2>2 DEF Flush, Fsynced, PermitInv
  <2>3. CASE Erase /\ ~Flush
    BY <2>1, <2>3 DEF EraseInv, PermitInv, Erase, StartPass, WriteWindow, ZeroChunk,
       CommitRange, AppendEndPass, AppendFlushed, device
  <2> QED  BY <1>3, <2>2, <2>3
<1>4. CASE Drain \/ Refuse
  <2>1. UNCHANGED device /\ ~AppendVerify
    BY <1>4 DEF Drain, Refuse, DrainWrite, DrainVerify, ResumeRefused, VerifyRefused,
       RejectWipe, Abandon, AppendVerify, AtVerify, Quit
  <2>2. \E code : Quit(code)
    BY <1>4 DEF Drain, Refuse, DrainWrite, DrainVerify, ResumeRefused, VerifyRefused,
       RejectWipe, Abandon
  <2>3. PICK code : Quit(code)
    BY <2>2
  <2> QED  BY <1>0, <2>1, <2>3 DEF EraseInv, PermitInv, Quit, device
<1>5. CASE Fails
  <2>1. CASE ZeroFallback
    BY <1>0, <2>1 DEF ZeroFallback, EraseInv, PermitInv, AppendVerify, device
  <2>2. CASE FlushFails \/ ReadFails \/ GuardRefuses \/ CertificateWithheld
    BY <1>0, <2>2, QuitPermits
    DEF FlushFails, ReadFails, GuardRefuses, CertificateWithheld, AppendVerify, device
  <2>3. CASE WriteFails
    BY <1>0, <2>3, QuitPermits DEF WriteFails, AppendVerify, CoreInv, ProcessInv, Verifying,
       PassLoop, Writing
  <2> QED  BY <1>5, <2>1, <2>2, <2>3 DEF Fails
<1>6. CASE Attest \/ ReconstructCertificate
  <2>1. CASE BeginVerify
    BY <1>0, <2>1 DEF BeginVerify, MayBeginVerify, EraseInv, PermitInv, AppendVerify,
       AtVerify, device
  <2>2. CASE ReadWindow \/ ReadDone
    BY <1>0, <2>2 DEF ReadWindow, ReadDone, EraseInv, PermitInv, AppendVerify, device
  <2>3. CASE AppendVerify
    BY <2>3 DEF AppendVerify, EraseInv, PermitInv, device
  <2>4. CASE AppendCompleted
    BY <1>0, <2>4 DEF AppendCompleted, EraseInv, PermitInv, AppendVerify, device
  <2>5. CASE WriteCertificate
    BY <1>0, <2>5, QuitPermits DEF WriteCertificate, AppendVerify, device
  <2>6. CASE ReconstructCertificate
    BY <1>0, <2>6 DEF ReconstructCertificate, EraseInv, PermitInv, AppendVerify, device
  <2> QED  BY <1>6, <2>1, <2>2, <2>3, <2>4, <2>5, <2>6 DEF Attest
<1>7. CASE World
  <2>1. CASE Signal
    BY <1>0, <2>1 DEF Signal, EraseInv, PermitInv, AppendVerify, device
  <2>2. CASE Kill
    <3>1. Has("Verify") => Torrent = {}
      BY DEF Torrent, CoreInv, ProcessInv, Verifying, PassLoop, Writing
    <3>2. Has("Verify")' => Has("Verify") /\ volatile' = volatile
      BY <2>2, <3>1, JournalKept DEF Kill
    <3> QED  BY <2>2, <3>2, QuitPermits DEF Kill
  <2>3. CASE PowerLoss
    BY <2>3 DEF PowerLoss, Quit, PermitInv
  <2>4. CASE \E w \in Windows : Evict(w)
    BY <1>0, <2>4 DEF Evict, EraseInv, PermitInv, AppendVerify
  <2> QED  BY <1>7, <2>1, <2>2, <2>3, <2>4 DEF World
<1>8. CASE UNCHANGED vars
  BY <1>8, JournalKept DEF vars, device, EraseInv, PermitInv
<1> QED  BY <1>1, <1>2, <1>3, <1>4, <1>5, <1>6, <1>7, <1>8 DEF Next

(* The read-back judges windows the device keeps as they were read.         *)
LEMMA ReadBackStep ==
  ASSUME CoreInv, EraseInv, [Next]_vars
  PROVE  ReadBackInv'
<1> SUFFICES ASSUME NoDrops'
             PROVE  /\ pc' = "read" =>
                         \A w \in Windows : w < win' /\ Sampled(w) /\ w \notin bad' => Matches(media'[w])
                    /\ pc' = "report" /\ ~SkipVerify =>
                         \A w \in Windows : Sampled(w) /\ w \notin bad' => Matches(media'[w])
  BY DEF ReadBackInv, Clean
<1>1. NoDrops
  BY DropsStep DEF EraseInv, CoreInv
<1>2. pc \in {"read", "report"} => media' = media
  BY DeviceAtRest
<1>3. CASE BeginVerify
  BY <1>3 DEF BeginVerify, VerifyStart, Windows
<1>4. CASE ReadWindow
  <2>1. volatile = {} /\ pc = "read"
    BY <1>4 DEF ReadWindow, EraseInv, PermitInv
  <2>2. \A w \in Windows : cache[w] = media[w]
    BY <1>1, <2>1 DEF EraseInv, CacheClean
  <2>3. \A w \in Windows : w < win /\ Sampled(w) /\ w \notin bad => Matches(media[w])
    BY <1>1, <2>1 DEF EraseInv, ReadBackInv
  <2>4. win' = win + 1 /\ bad \subseteq bad' /\ pc' = "read" /\ win \in Nat
    BY <1>4, <2>1 DEF ReadWindow, CoreInv, TypeOK, LocalsOK
  <2>5. Sampled(win) /\ win \notin bad' => Matches(cache[win])
    BY <1>4 DEF ReadWindow
  <2>6. \A w \in Windows : w < win' => w < win \/ w = win
    BY <2>4 DEF Windows
  <2> QED  BY <1>2, <2>1, <2>2, <2>3, <2>4, <2>5, <2>6
<1>5. CASE ReadDone
  <2>1. \A w \in Windows : w < win
    BY <1>5, PlanAssumption DEF ReadDone, MoreWindows, Windows, CoreInv, TypeOK, LocalsOK
  <2>2. pc = "read" /\ pc' = "report" /\ bad' = bad
    BY <1>5 DEF ReadDone, verdict
  <2> QED  BY <1>1, <1>2, <2>1, <2>2 DEF EraseInv, ReadBackInv
<1>6. CASE pc' = pc /\ bad' = bad /\ win' = win
  BY <1>1, <1>2, <1>6 DEF EraseInv, ReadBackInv, Clean
<1>7. CASE pc' \notin {"read", "report"}
  BY <1>7
<1>8. \/ BeginVerify \/ ReadWindow \/ ReadDone
      \/ (pc' = pc /\ bad' = bad /\ win' = win)
      \/ pc' \notin {"read", "report"}
  <2>1. ASSUME Prepare \/ Recover PROVE pc' \notin {"read", "report"}
    BY <2>1 DEF Prepare, Recover, StartExecute, AppendHeader, AppendArmed, StartResume,
       ScanRecord, ResumeArm, AppendResumed
  <2>2. ASSUME Erase PROVE pc' \notin {"read", "report"}
    BY <2>2 DEF Erase, StartPass, WriteWindow, ZeroChunk, CommitRange, AppendEndPass,
       Flush, AppendFlushed
  <2>3. ASSUME Drain \/ Refuse \/ Fails PROVE pc' \notin {"read", "report"}
    BY <2>3 DEF Drain, Refuse, Fails, DrainWrite, DrainVerify, ResumeRefused, VerifyRefused,
       RejectWipe, Abandon, ZeroFallback, WriteFails, FlushFails, ReadFails, GuardRefuses, CertificateWithheld, Quit
  <2>4. ASSUME AppendVerify \/ AppendCompleted \/ WriteCertificate
        PROVE  pc' \notin {"read", "report"}
    BY <2>4 DEF AppendVerify, AppendCompleted, WriteCertificate, Quit
  <2>5. ASSUME ReconstructCertificate \/ World \/ UNCHANGED vars
        PROVE  (pc' = pc /\ bad' = bad /\ win' = win) \/ pc' \notin {"read", "report"}
    BY <2>5 DEF ReconstructCertificate, World, Signal, Kill, PowerLoss, Evict, Quit, vars,
       loops, verdict
  <2> QED  BY <2>1, <2>2, <2>3, <2>4, <2>5 DEF Next, Attest
<1> QED  BY <1>3, <1>4, <1>5, <1>6, <1>7, <1>8

(* Whoever writes a certificate, now or from the journal, copies a verdict  *)
(* the journal carries.                                                     *)
LEMMA CertsStep ==
  ASSUME CoreInv, EraseInv, [Next]_vars
  PROVE  CertsLogged'
<1>1. \A x : Logged(x) => Logged(x)'
  <2>1. journal \in Seq(JournalRecord)
    BY DEF CoreInv, TypeOK, EvidenceOK
  <2>2. journal' = journal \/ \E r : Log(r)
    BY VerifySteps DEF AppendVerify
  <2> QED  BY <2>1, <2>2 DEF Logged, Log
<1>2. CASE certs' = certs
  BY <1>1, <1>2 DEF EraseInv, CertsLogged
<1>3. CASE WriteCertificate
  <2>1. Logged(Verify(checked, bad))
    BY <1>3 DEF WriteCertificate, CoreInv, ProcessInv, Verifying
  <2> QED  BY <1>1, <1>3, <2>1 DEF WriteCertificate, EraseInv, CertsLogged
<1>4. CASE ReconstructCertificate
  <2>1. Has("Completed")
    BY <1>4 DEF ReconstructCertificate, EndsCompleted, Has, Completed, CoreInv, TypeOK, EvidenceOK
  <2>2. FirstVerify \in 1 .. Len(journal) /\ journal[FirstVerify].type = "Verify"
    BY <2>1, FirstVerifyExists
  <2>3. journal[FirstVerify] \in JournalRecord
    BY <2>2 DEF CoreInv, TypeOK, EvidenceOK
  <2>4. journal[FirstVerify] = Verify(journal[FirstVerify].checked, journal[FirstVerify].mismatches)
    BY <2>2, <2>3 DEF JournalRecord, Header, Armed, Completed, Verify
  <2>5. Logged(Verify(journal[FirstVerify].checked, journal[FirstVerify].mismatches))
    BY <2>2, <2>4 DEF Logged
  <2> QED  BY <1>1, <1>4, <2>5 DEF ReconstructCertificate, EraseInv, CertsLogged
<1>5. certs' = certs \/ WriteCertificate \/ ReconstructCertificate
  <2>1. ASSUME Prepare \/ Recover PROVE certs' = certs
    BY <2>1 DEF Prepare, Recover, StartExecute, AppendHeader, AppendArmed, StartResume,
       ScanRecord, ResumeArm, AppendResumed
  <2>2. ASSUME Erase PROVE certs' = certs
    BY <2>2 DEF Erase, StartPass, WriteWindow, ZeroChunk, CommitRange, AppendEndPass,
       Flush, AppendFlushed
  <2>3. ASSUME Drain \/ Refuse \/ Fails PROVE certs' = certs
    BY <2>3 DEF Drain, Refuse, Fails, DrainWrite, DrainVerify, ResumeRefused, VerifyRefused,
       RejectWipe, Abandon, ZeroFallback, WriteFails, FlushFails, ReadFails, GuardRefuses, CertificateWithheld
  <2>4. ASSUME BeginVerify \/ ReadWindow \/ ReadDone \/ AppendVerify \/ AppendCompleted
        PROVE  certs' = certs
    BY <2>4 DEF BeginVerify, ReadWindow, ReadDone, AppendVerify, AppendCompleted
  <2>5. ASSUME World \/ UNCHANGED vars PROVE certs' = certs
    BY <2>5 DEF World, Signal, Kill, PowerLoss, Evict, vars
  <2> QED  BY <2>1, <2>2, <2>3, <2>4, <2>5 DEF Next, Attest
<1> QED  BY <1>2, <1>3, <1>4, <1>5

(* EraseInv holds initially.                                                *)
LEMMA EraseInit == Init => EraseInv
<1> SUFFICES ASSUME Init PROVE EraseInv
  OBVIOUS
<1>1. DropsCounted
  BY PlanAssumption DEF Init, DropsCounted, EventKind
<1>2. CacheClean /\ PermitInv /\ ReadBackInv /\ VerdictInv /\ CertsLogged
  BY DEF Init, CacheClean, PermitInv, ReadBackInv, VerdictInv, CertsLogged, Has
<1> QED  BY <1>1, <1>2 DEF EraseInv

(* EraseInv is an invariant, relative to CoreInv.                           *)
THEOREM EraseInvariant == Spec => [](CoreInv /\ EraseInv)
<1>1. Init => CoreInv /\ EraseInv
  BY CoreInit, EraseInit
<1>2. CoreInv /\ EraseInv /\ [Next]_vars => (CoreInv /\ EraseInv)'
  <2> SUFFICES ASSUME CoreInv, EraseInv, [Next]_vars PROVE (CoreInv /\ EraseInv)'
    OBVIOUS
  <2>1. CoreInv'
    BY CoreStep
  <2>2. DropsCounted'
    BY DropsStep DEF CoreInv, EraseInv
  <2> QED  BY <2>1, <2>2, CacheCleanStep, PermitStep, ReadBackStep, VerdictStep, CertsStep
           DEF EraseInv
<1> QED  BY <1>1, <1>2, PTL DEF Spec

(* Verification reads what the media hold: no read is served from a page    *)
(* that a write has still to leave, whatever was killed or cut off before.  *)
THEOREM ReadBackDurable == Spec => []ReadBackIsDurable
<1>1. CoreInv /\ EraseInv => ReadBackIsDurable
  BY DEF CoreInv, TypeOK, DeviceOK, EraseInv, PermitInv, CacheClean, ReadBackIsDurable
<1> QED  BY <1>1, EraseInvariant, PTL

(* A certificate's clean windows durably read as the last pass's pattern,   *)
(* through kills, outages, cancelled, resumed and re-certified runs.        *)
THEOREM CertificatesAreTruthful == Spec => []CertificateTruthful
<1>1. CoreInv /\ EraseInv => CertificateTruthful
  <2> SUFFICES ASSUME CoreInv, EraseInv, NoDrops, ~SkipVerify, NEW c \in certs
               PROVE  Clean(c.mismatches)
    BY DEF CertificateTruthful, Clean
  <2>1. PICK i \in 1 .. Len(journal) : journal[i] = Verify(c.checked, c.mismatches)
    BY DEF EraseInv, CertsLogged, Logged
  <2>2. journal[i].type = "Verify" /\ journal[i].mismatches = c.mismatches
    BY <2>1 DEF Verify
  <2> QED  BY <2>2 DEF EraseInv, VerdictInv
<1> QED  BY <1>1, EraseInvariant, PTL

(* One journal carries one verdict, and every certificate copies it.        *)
THEOREM VerifiedOnce == Spec => []OneVerification
<1>1. CoreInv /\ EraseInv => OneVerification
  <2> SUFFICES ASSUME CoreInv, EraseInv PROVE OneVerification
    OBVIOUS
  <2>1. \A i, j \in 1 .. Len(journal) :
          journal[i].type = "Verify" /\ journal[j].type = "Verify" => i = j
    BY DEF CoreInv, JournalInv
  <2>2. ASSUME NEW c \in certs, NEW d \in certs PROVE c = d
    <3>1. PICK i \in 1 .. Len(journal) : journal[i] = Verify(c.checked, c.mismatches)
      BY DEF EraseInv, CertsLogged, Logged
    <3>2. PICK j \in 1 .. Len(journal) : journal[j] = Verify(d.checked, d.mismatches)
      BY DEF EraseInv, CertsLogged, Logged
    <3>3. i = j
      BY <2>1, <3>1, <3>2 DEF Verify
    <3>4. c.checked = d.checked /\ c.mismatches = d.mismatches
      BY <3>1, <3>2, <3>3 DEF Verify
    <3>5. /\ c \in [checked : SUBSET Windows, mismatches : SUBSET Windows]
          /\ d \in [checked : SUBSET Windows, mismatches : SUBSET Windows]
      BY DEF CoreInv, TypeOK, EvidenceOK
    <3> QED  BY <3>4, <3>5
  <2> QED  BY <2>1, <2>2 DEF OneVerification
<1> QED  BY <1>1, EraseInvariant, PTL

------------------------------------------------------------------------------
(* Progress: what a commit and a flush stand for *)

(* No step takes an outage back.                                            *)
LEMMA OutagesStep ==
  ASSUME TypeOK, OutagesCounted, [Next]_vars
  PROVE  OutagesCounted' /\ (NoOutage' => NoOutage)
<1>1. budget \in [EventKind -> Nat] /\ budget' \in [EventKind -> Nat]
  BY BudgetSteps, SpendTypes DEF TypeOK, BudgetOK
<1>2. budget'["power"] <= budget["power"]
  BY <1>1, BudgetSteps DEF Spend, EventKind
<1>3. MaxEvents["power"] \in Nat /\ budget["power"] \in Nat /\ budget'["power"] \in Nat
  BY <1>1, PlanAssumption DEF EventKind
<1> QED  BY <1>2, <1>3 DEF OutagesCounted, NoOutage

(* A power loss is counted.                                                 *)
LEMMA OutageCounts ==
  ASSUME TypeOK, OutagesCounted, PowerLoss
  PROVE  ~NoOutage'
  BY PlanAssumption DEF TypeOK, BudgetOK, OutagesCounted, PowerLoss, Spend, NoOutage, EventKind

(* The journal only grows, by a record that says which step wrote it.       *)
LEMMA NewRecord ==
  ASSUME CoreInv, [Next]_vars
  PROVE  /\ Len(journal) \in Nat /\ Len(journal') \in {Len(journal), Len(journal) + 1}
         /\ \A i \in 1 .. Len(journal) : i \in 1 .. Len(journal') /\ journal'[i] = journal[i]
         /\ \A i \in 1 .. Len(journal') : i \notin 1 .. Len(journal) =>
              /\ i = Len(journal) + 1
              /\ \/ CommitRange /\ journal'[i] = RangeCommit(off, StartWindow, WindowsWritten)
                 \/ AppendFlushed /\ journal'[i] = Flushed(off)
                 \/ AppendVerify /\ journal'[i].type = "Verify"
                 \/ journal'[i].type \notin {"RangeCommit", "Flushed", "Verify"}
<1>1. journal \in Seq(JournalRecord)
  BY DEF CoreInv, TypeOK, EvidenceOK
<1>2. CASE journal' = journal
  BY <1>1, <1>2
<1>3. ASSUME NEW r, Log(r)
      PROVE  /\ Len(journal) \in Nat /\ Len(journal') = Len(journal) + 1
             /\ \A i \in 1 .. Len(journal) : journal'[i] = journal[i]
             /\ journal'[Len(journal) + 1] = r
  BY <1>1, <1>3 DEF Log
<1>4. CASE CommitRange
  <2>1. PassIdx = off
    BY <1>4, PassIdxIsOff DEF CommitRange, CoreInv, TypeOK, PassLoop, Writing
  <2> QED  BY <1>4, <2>1, <1>3 DEF CommitRange
<1>5. CASE AppendFlushed
  <2>1. PassIdx = off
    BY <1>5, PassIdxIsOff DEF AppendFlushed, CoreInv, TypeOK, PassLoop, Writing
  <2> QED  BY <1>5, <2>1, <1>3 DEF AppendFlushed
<1>6. CASE AppendVerify
  BY <1>6, <1>3 DEF AppendVerify, Verify
<1>7. CASE \E r : Log(r) /\ r.type \notin {"RangeCommit", "Flushed", "Verify"}
  BY <1>7, <1>3
<1> QED  BY <1>2, <1>4, <1>5, <1>6, <1>7, RecordSteps

(* No window is ahead of the pass the loop writes.                          *)
LEMMA ContentBehind ==
  ASSUME CoreInv, OrderInv, pc \in Writing
  PROVE  \A w \in Windows : media[w] <= cache[w] /\ cache[w] <= Whole(off)
<1> SUFFICES ASSUME NEW w \in Windows PROVE cache[w] <= Whole(off)
  BY DEF OrderInv, CacheLeads
<1>1. cache[w] \in Content /\ off \in Nat /\ NumPasses \in Nat
  BY PlanAssumption DEF CoreInv, TypeOK, DeviceOK, LocalsOK
<1>2. CASE cache[w] = 0
  BY <1>1, <1>2 DEF Whole
<1>3. CASE cache[w] # 0
  <2> DEFINE p == (cache[w] - 1) \div 2
  <2>1. p \in Passes /\ cache[w] \in {Torn(p), Whole(p)}
    BY <1>1, <1>3 DEF Content, Passes, Torn, Whole
  <2>2. Logged(BeginPass(p))
    BY <2>1 DEF CoreInv, WriteAhead
  <2> HIDE DEF p
  <2>3. PICK i \in 1 .. Len(journal) : journal[i] = BeginPass(p)
    BY <2>2 DEF Logged
  <2>4. CASE p = 0
    BY <1>1, <2>1, <2>4 DEF Torn, Whole
  <2>5. CASE p > 0
    <3>1. PICK j \in 1 .. i - 1 : journal[j] = Flushed(p - 1)
      BY <2>3, <2>5 DEF BeginPass, CoreInv, JournalInv, PassesInOrder
    <3>2. j \in 1 .. Len(journal)
      BY <2>3, <3>1 DEF CoreInv, TypeOK, EvidenceOK
    <3>3. p - 1 < off
      BY <3>1, <3>2 DEF OrderInv, FlushedBehind, PassLoop, Flushed
    <3> QED  BY <1>1, <2>1, <3>3 DEF Torn, Whole, Passes
  <2> QED  BY <2>1, <2>4, <2>5, <1>1 DEF Passes
<1> QED  BY <1>2, <1>3

(* The media never fall back, and the cache stays ahead of them.            *)
LEMMA MediaGrow ==
  ASSUME CoreInv, OrderInv, [Next]_vars
  PROVE  CacheLeads' /\ \A w \in Windows : media'[w] >= media[w]
<1>1. /\ media \in [Windows -> Content] /\ cache \in [Windows -> Content]
      /\ Content \subseteq Nat
  BY PlanAssumption DEF CoreInv, TypeOK, DeviceOK, Content
<1>2. \A w \in Windows : media[w] \in Nat /\ cache[w] \in Nat /\ media[w] <= cache[w]
  BY <1>1 DEF OrderInv, CacheLeads
<1>3. CASE UNCHANGED device
  BY <1>2, <1>3 DEF device, CacheLeads
<1>4. ASSUME pc \in Writing
      PROVE  \A w \in Windows : cache[w] <= Whole(off) /\ media[w] <= Whole(off) /\ off \in Nat
  BY <1>2, <1>4, ContentBehind DEF Whole, CoreInv, TypeOK, LocalsOK
<1>5. CASE WriteWindow \/ ZeroChunk
  <2>1. pc \in Writing /\ media' = media
    BY <1>5 DEF WriteWindow, ZeroChunk, Writing
  <2>2. \A w \in Windows : cache'[w] \in {cache[w], Whole(off)}
    BY <1>1, <1>5 DEF WriteWindow, ZeroChunk
  <2> QED  BY <1>2, <1>4, <2>1, <2>2 DEF CacheLeads
<1>6. CASE WriteFails \/ Kill
  <2>1. media' = media
    BY <1>6 DEF WriteFails, Kill
  <2>2. \A w \in Windows : cache'[w] = cache[w] \/ cache'[w] = TearWith(off, cache[w])
    BY <1>1, <1>6 DEF WriteFails, Kill
  <2>3. \A w \in Windows : TearWith(off, cache[w]) >= cache[w] /\ TearWith(off, cache[w]) \in Nat
    BY <1>2 DEF TearWith, Torn, CoreInv, TypeOK, LocalsOK
  <2> QED  BY <1>2, <2>1, <2>2, <2>3 DEF CacheLeads
<1>7. CASE Flush
  BY <1>1, <1>2, <1>7 DEF Flush, CacheLeads
<1>8. CASE PowerLoss
  BY <1>1, <1>2, <1>8 DEF PowerLoss, CacheLeads
<1>9. CASE \E w \in Windows : Evict(w)
  BY <1>1, <1>2, <1>9 DEF Evict, CacheLeads
<1> QED  BY <1>3, <1>5, <1>6, <1>7, <1>8, <1>9, DeviceSteps

(* Without a drop only a power loss takes back what a read sees.            *)
LEMMA CacheGrows ==
  ASSUME CoreInv, EraseInv, OrderInv, [Next]_vars, NoDrops, ~PowerLoss
  PROVE  \A w \in Windows : cache'[w] >= cache[w]
<1>1. /\ media \in [Windows -> Content] /\ cache \in [Windows -> Content]
      /\ Content \subseteq Nat
  BY PlanAssumption DEF CoreInv, TypeOK, DeviceOK, Content
<1>2. \A w \in Windows : cache[w] \in Nat
  BY <1>1
<1>3. CASE UNCHANGED device
  BY <1>2, <1>3 DEF device
<1>4. CASE WriteWindow \/ ZeroChunk
  <2>1. pc \in Writing /\ off \in Nat
    BY <1>4 DEF WriteWindow, ZeroChunk, Writing, CoreInv, TypeOK, LocalsOK
  <2>2. \A w \in Windows : cache'[w] \in {cache[w], Whole(off)}
    BY <1>1, <1>4 DEF WriteWindow, ZeroChunk
  <2>3. \A w \in Windows : cache[w] <= Whole(off) /\ Whole(off) \in Nat
    BY <2>1, ContentBehind DEF Whole
  <2> QED  BY <1>2, <2>2, <2>3
<1>5. CASE WriteFails \/ Kill
  <2>1. \A w \in Windows : cache'[w] = cache[w] \/ cache'[w] = TearWith(off, cache[w])
    BY <1>1, <1>5 DEF WriteFails, Kill
  <2>2. \A w \in Windows : TearWith(off, cache[w]) >= cache[w]
    BY <1>2 DEF TearWith, Torn, CoreInv, TypeOK, LocalsOK
  <2> QED  BY <1>2, <2>1, <2>2
<1>6. CASE Flush
  BY <1>2, <1>6 DEF Flush
<1>7. CASE \E w \in Windows : Evict(w)
  BY <1>7 DEF Evict, EraseInv, CacheClean
<1> QED  BY <1>3, <1>4, <1>5, <1>6, <1>7, DeviceSteps

(* The pass loop moves past a pass exactly when it logs its flush.          *)
LEMMA FlushedBehindStep ==
  ASSUME CoreInv, OrderInv, [Next]_vars
  PROVE  FlushedBehind'
<1>1. /\ Len(journal) \in Nat
      /\ \A i \in 1 .. Len(journal) : i \in 1 .. Len(journal') /\ journal'[i] = journal[i]
      /\ \A i \in 1 .. Len(journal') : i \notin 1 .. Len(journal) =>
           \/ AppendFlushed /\ journal'[i] = Flushed(off)
           \/ journal'[i].type # "Flushed"
  BY NewRecord DEF RangeCommit
<1>2. ~AppendFlushed => (Has("Flushed")' => Has("Flushed"))
  BY <1>1 DEF Has
<1>3. CASE StartExecute
  <2>1. ~Has("Flushed")
    BY <1>3 DEF StartExecute, Has
  <2> QED  BY <1>2, <1>3, <2>1 DEF StartExecute, AppendFlushed, FlushedBehind, PassLoop, Writing
<1>4. CASE AppendHeader \/ AppendArmed
  <2>1. ~Has("Flushed")
    BY <1>4 DEF AppendHeader, AppendArmed, OrderInv, FlushedBehind
  <2>2. ~Has("Flushed")'
    BY <1>2, <1>4, <2>1 DEF AppendHeader, AppendArmed, AppendFlushed
  <2> QED  BY <2>2 DEF FlushedBehind, Has
<1>5. CASE AppendResumed
  <2>1. pc = "resumed" /\ (pc' \in PassLoop => ~reached) /\ pc' \notin {"header", "armed"}
    BY <1>5 DEF AppendResumed, PassLoop, Writing
  <2>2. pc' \in PassLoop => ~Has("Flushed")
    BY <2>1 DEF CoreInv, ProcessInv, Scanning
  <2>3. pc' \in PassLoop => ~Has("Flushed")'
    BY <1>2, <2>1, <2>2 DEF AppendFlushed
  <2> QED  BY <2>1, <2>3 DEF FlushedBehind, Has
<1>6. CASE AppendFlushed
  <2>1. pc \in PassLoop /\ off' = off + 1 /\ pc' = "pass" /\ off \in Nat
    BY <1>6 DEF AppendFlushed, PassLoop, Writing, CoreInv, TypeOK, LocalsOK
  <2>2. \A i \in 1 .. Len(journal) : journal[i].type = "Flushed" => journal[i].pass < off
    BY <2>1 DEF OrderInv, FlushedBehind
  <2>3. ASSUME NEW i \in 1 .. Len(journal'), journal'[i].type = "Flushed"
        PROVE  journal'[i].pass < off'
    <3>1. CASE i \in 1 .. Len(journal)
      <4>1. journal'[i] = journal[i] /\ journal[i] \in JournalRecord
        BY <1>1, <3>1 DEF CoreInv, TypeOK, EvidenceOK
      <4>2. journal[i].pass \in Nat /\ journal[i].pass < off
        BY <2>2, <2>3, <3>1, <4>1 DEF JournalRecord, Header, Armed, Completed
      <4> QED  BY <2>1, <4>1, <4>2
    <3>2. CASE i \notin 1 .. Len(journal)
      BY <1>1, <2>1, <2>3, <3>2 DEF Flushed
    <3> QED  BY <3>1, <3>2
  <2> QED  BY <2>1, <2>3 DEF FlushedBehind
<1>7. CASE off' = off /\ pc \in PassLoop /\ pc' \in PassLoop
  <2>1. ~AppendFlushed
    BY <1>7 DEF AppendFlushed, CoreInv, TypeOK, LocalsOK
  <2> QED  BY <1>1, <1>7, <2>1 DEF OrderInv, FlushedBehind, PassLoop, Writing
<1>8. CASE off' = off /\ pc' = pc /\ journal' = journal
  BY <1>8 DEF OrderInv, FlushedBehind, Has
<1>9. CASE pc' \notin PassLoop \cup {"header", "armed"}
  BY <1>9 DEF FlushedBehind
<1>10. \/ StartExecute \/ AppendHeader \/ AppendArmed \/ AppendResumed \/ AppendFlushed
       \/ (off' = off /\ pc \in PassLoop /\ pc' \in PassLoop)
       \/ (off' = off /\ pc' = pc /\ journal' = journal)
       \/ pc' \notin PassLoop \cup {"header", "armed"}
  <2> USE DEF PassLoop, Writing
  <2>1. ASSUME StartResume \/ ScanRecord \/ ResumeArm
        PROVE  pc' \notin PassLoop \cup {"header", "armed"}
    BY <2>1 DEF StartResume, ScanRecord, ResumeArm
  <2>2. ASSUME Erase
        PROVE  AppendFlushed \/ (off' = off /\ pc \in PassLoop /\ pc' \in PassLoop)
    BY <2>2 DEF Erase, StartPass, WriteWindow, ZeroChunk, CommitRange, AppendEndPass,
       Flush, loops
  <2>3. ASSUME Drain \/ Refuse PROVE pc' \notin PassLoop \cup {"header", "armed"}
    BY <2>3 DEF Drain, Refuse, DrainWrite, DrainVerify, ResumeRefused, VerifyRefused,
       RejectWipe, Abandon, Quit
  <2>4. ASSUME Fails
        PROVE  \/ (off' = off /\ pc \in PassLoop /\ pc' \in PassLoop)
               \/ pc' \notin PassLoop \cup {"header", "armed"}
    BY <2>4
    DEF Fails, ZeroFallback, WriteFails, FlushFails, ReadFails, GuardRefuses, CertificateWithheld, Quit
  <2>5. ASSUME Attest PROVE pc' \notin PassLoop \cup {"header", "armed"}
    BY <2>5 DEF Attest, BeginVerify, ReadWindow, ReadDone, AppendVerify, AppendCompleted,
       WriteCertificate, Quit
  <2>6. ASSUME ReconstructCertificate \/ World \/ UNCHANGED vars
        PROVE  \/ (off' = off /\ pc' = pc /\ journal' = journal)
               \/ pc' \notin PassLoop \cup {"header", "armed"}
    BY <2>6 DEF ReconstructCertificate, World, Signal, Kill, PowerLoss, Evict, Quit, vars, loops
  <2> QED  BY <2>1, <2>2, <2>3, <2>4, <2>5, <2>6 DEF Next, Prepare, Recover
<1> QED  BY <1>3, <1>4, <1>5, <1>6, <1>7, <1>8, <1>9, <1>10

(* The steps of the resume scan; every other step keeps what it found, or   *)
(* ends the process that knew it.                                           *)
LEMMA ScanSteps ==
  ASSUME [Next]_vars
  PROVE  ScanRecord \/ (last' = last /\ committed' = committed) \/ committed' = 0
<1>1. ASSUME Prepare \/ Recover
      PROVE  ScanRecord \/ (last' = last /\ committed' = committed)
  BY <1>1 DEF Prepare, Recover, StartExecute, AppendHeader, AppendArmed, StartResume,
     ResumeArm, AppendResumed, scan
<1>2. ASSUME Erase PROVE last' = last /\ committed' = committed
  BY <1>2 DEF Erase, StartPass, WriteWindow, ZeroChunk, CommitRange, AppendEndPass,
     Flush, AppendFlushed, scan
<1>3. ASSUME Drain \/ Refuse PROVE committed' = 0
  BY <1>3 DEF Drain, Refuse, DrainWrite, DrainVerify, ResumeRefused, VerifyRefused,
     RejectWipe, Abandon, Quit
<1>4. ASSUME Fails PROVE (last' = last /\ committed' = committed) \/ committed' = 0
  BY <1>4
  DEF Fails, ZeroFallback, WriteFails, FlushFails, ReadFails, GuardRefuses, CertificateWithheld, Quit,
      scan
<1>5. ASSUME Attest \/ ReconstructCertificate
      PROVE  (last' = last /\ committed' = committed) \/ committed' = 0
  BY <1>5 DEF Attest, BeginVerify, ReadWindow, ReadDone, AppendVerify, AppendCompleted,
     WriteCertificate, ReconstructCertificate, Quit, scan
<1>6. ASSUME World \/ UNCHANGED vars
      PROVE  (last' = last /\ committed' = committed) \/ committed' = 0
  BY <1>6 DEF World, Signal, Kill, PowerLoss, Evict, Quit, vars, scan
<1> QED  BY <1>1, <1>2, <1>3, <1>4, <1>5, <1>6 DEF Next

(* The scan counts windows of RangeCommits only.                            *)
LEMMA ScanCountsStep ==
  ASSUME CoreInv, OrderInv, [Next]_vars
  PROVE  ScanCounts'
<1>1. \A i \in 1 .. Len(journal) : i \in 1 .. Len(journal') /\ journal'[i] = journal[i]
  BY NewRecord
<1>2. CASE last' = last /\ committed' = committed
  BY <1>1, <1>2 DEF OrderInv, ScanCounts
<1>3. CASE committed' = 0
  BY <1>3 DEF ScanCounts
<1>4. CASE ScanRecord
  <2>1. idx \in 1 .. Len(journal) /\ committed \in Nat
    BY <1>4 DEF ScanRecord, CoreInv, TypeOK, LocalsOK, EvidenceOK
  <2>2. CASE journal[idx].type = "BeginPass"
    BY <1>4, <2>2 DEF ScanRecord, ScanCounts
  <2>3. CASE journal[idx].type = "RangeCommit"
    <3>1. CASE journal[idx].pass = last
      BY <1>1, <1>4, <2>1, <2>3, <3>1 DEF ScanRecord, ScanCounts
    <3>2. CASE journal[idx].pass # last
      BY <1>1, <1>4, <2>3, <3>2 DEF ScanRecord, OrderInv, ScanCounts
    <3> QED  BY <3>1, <3>2
  <2>4. CASE journal[idx].type \notin {"BeginPass", "RangeCommit"}
    BY <1>1, <1>4, <2>4 DEF ScanRecord, OrderInv, ScanCounts
  <2> QED  BY <2>2, <2>3, <2>4
<1> QED  BY <1>2, <1>3, <1>4, ScanSteps

(* How a process comes to the pass loop.                                    *)
LEMMA PassSteps ==
  ASSUME [Next]_vars
  PROVE  \/ AppendArmed \/ AppendResumed
         \/ pc \in PassLoop /\ cmd' = cmd /\ committed' = committed
         \/ pc' \notin PassLoop
<1> USE DEF PassLoop, Writing
<1>1. ASSUME Prepare \/ Recover PROVE AppendArmed \/ AppendResumed \/ pc' \notin PassLoop
  BY <1>1 DEF Prepare, Recover, StartExecute, AppendHeader, StartResume, ScanRecord, ResumeArm
<1>2. ASSUME Erase PROVE pc \in PassLoop /\ cmd' = cmd /\ committed' = committed
  BY <1>2 DEF Erase, StartPass, WriteWindow, ZeroChunk, CommitRange, AppendEndPass,
     Flush, AppendFlushed, scan
<1>3. ASSUME Drain \/ Refuse PROVE pc' \notin PassLoop
  BY <1>3 DEF Drain, Refuse, DrainWrite, DrainVerify, ResumeRefused, VerifyRefused,
     RejectWipe, Abandon, Quit
<1>4. ASSUME Fails
      PROVE  (pc \in PassLoop /\ cmd' = cmd /\ committed' = committed) \/ pc' \notin PassLoop
  BY <1>4
  DEF Fails, ZeroFallback, WriteFails, FlushFails, ReadFails, GuardRefuses, CertificateWithheld, Quit,
      scan
<1>5. ASSUME Attest PROVE pc' \notin PassLoop
  BY <1>5 DEF Attest, BeginVerify, ReadWindow, ReadDone, AppendVerify, AppendCompleted,
     WriteCertificate, Quit
<1>6. ASSUME ReconstructCertificate \/ World \/ UNCHANGED vars
      PROVE  (pc \in PassLoop /\ cmd' = cmd /\ committed' = committed) \/ pc' \notin PassLoop
  BY <1>6 DEF ReconstructCertificate, World, Signal, Kill, PowerLoss, Evict, Quit, vars, scan
<1> QED  BY <1>1, <1>2, <1>3, <1>4, <1>5, <1>6 DEF Next

(* A resume marks the journal before it writes.                             *)
LEMMA ResumeMarkedStep ==
  ASSUME CoreInv, OrderInv, [Next]_vars
  PROVE  ResumeMarked' /\ (Has("Resumed") => Has("Resumed")')
<1>1. Has("Resumed") => Has("Resumed")'
  BY NewRecord DEF Has
<1>2. CASE AppendArmed
  <2>1. cmd' = "execute" /\ committed' = 0
    BY <1>2 DEF AppendArmed, CoreInv, ProcessInv, Preparing, scan
  <2> QED  BY <1>1, <2>1 DEF ResumeMarked
<1>3. CASE AppendResumed
  <2>1. Len(journal') = Len(journal) + 1 /\ Len(journal) \in Nat
        /\ journal'[Len(journal) + 1] = Resumed(last, committed)
    BY <1>3 DEF AppendResumed, Log, CoreInv, TypeOK, EvidenceOK
  <2> QED  BY <1>1, <2>1 DEF ResumeMarked, Has, Resumed
<1>4. CASE pc \in PassLoop /\ cmd' = cmd /\ committed' = committed
  BY <1>1, <1>4 DEF OrderInv, ResumeMarked
<1>5. CASE pc' \notin PassLoop
  BY <1>1, <1>5 DEF ResumeMarked
<1> QED  BY <1>1, <1>2, <1>3, <1>4, <1>5, PassSteps

(* Verification is reached only past the flush of the last pass.            *)
LEMMA PlanFlushedStep ==
  ASSUME CoreInv, OrderInv, [Next]_vars
  PROVE  PlanFlushed'
<1> DEFINE Done == \E i \in 1 .. Len(journal) :
                     journal[i].type = "Flushed" /\ journal[i].pass >= LastPass
<1>1. Done => Done'
  BY NewRecord
<1>2. Has("Verify") \/ pc \in {"read", "report"} => Done
  BY DEF OrderInv, PlanFlushed
<1>3. BeginVerify => Done
  <2> SUFFICES ASSUME BeginVerify PROVE Done
    OBVIOUS
  <2>1. pc = "pass" /\ off >= NumPasses /\ off \in Nat /\ NumPasses \in Nat \ {0}
    BY PlanAssumption DEF BeginVerify, MayBeginVerify, AtVerify, MorePasses, CoreInv, TypeOK,
       LocalsOK, ProcessInv, Scanning
  <2>2. off > 0 /\ pc \in PassLoop
    BY <2>1 DEF PassLoop
  <2>3. PICK i \in 1 .. Len(journal) : journal[i] = Flushed(off - 1)
    BY <2>2 DEF CoreInv, ProcessInv, InPassLoop, Logged
  <2> QED  BY <2>1, <2>3 DEF Flushed, LastPass
<1>4. pc' \in {"read", "report"} => pc \in {"read", "report"} \/ BeginVerify
  <2>1. ASSUME Prepare \/ Recover \/ Erase PROVE pc' \notin {"read", "report"}
    BY <2>1 DEF Prepare, Recover, Erase, StartExecute, AppendHeader, AppendArmed, StartResume,
       ScanRecord, ResumeArm, AppendResumed, StartPass, WriteWindow, ZeroChunk, CommitRange,
       AppendEndPass, Flush, AppendFlushed
  <2>2. ASSUME Drain \/ Refuse \/ Fails PROVE pc' \notin {"read", "report"}
    BY <2>2 DEF Drain, Refuse, Fails, DrainWrite, DrainVerify, ResumeRefused, VerifyRefused,
       RejectWipe, Abandon, ZeroFallback, WriteFails, FlushFails, ReadFails, GuardRefuses, CertificateWithheld, Quit
  <2>3. ASSUME Attest PROVE BeginVerify \/ (pc' \in {"read", "report"} => pc = "read")
    BY <2>3 DEF Attest, ReadWindow, ReadDone, AppendVerify, AppendCompleted,
       WriteCertificate, Quit
  <2>4. ASSUME ReconstructCertificate \/ World \/ UNCHANGED vars
        PROVE  pc' = pc \/ pc' \notin {"read", "report"}
    BY <2>4 DEF ReconstructCertificate, World, Signal, Kill, PowerLoss, Evict, Quit, vars
  <2> QED  BY <2>1, <2>2, <2>3, <2>4 DEF Next
<1>5. Has("Verify")' => Has("Verify") \/ pc = "report"
  BY HasVerifySteps DEF AppendVerify, CoreInv, TypeOK, EvidenceOK
<1>6. pc' \in {"read", "report"} \/ Has("Verify")' => Done'
  BY <1>1, <1>2, <1>3, <1>4, <1>5
<1> QED  BY <1>6 DEF PlanFlushed

LEMMA OrderStep ==
  ASSUME CoreInv, OrderInv, [Next]_vars
  PROVE  OrderInv'
  BY MediaGrow, FlushedBehindStep, ScanCountsStep, ResumeMarkedStep, PlanFlushedStep
  DEF OrderInv

(* Content that grows keeps what it has reached.                            *)
LEMMA ReachedGrows ==
  ASSUME NEW c, NEW d, NEW p \in Nat, Reached(c, p),
         \A w \in Windows : c[w] \in Nat /\ d[w] \in Nat /\ d[w] >= c[w]
  PROVE  Reached(d, p)
  BY DEF Reached, Whole

LEMMA ContentIsNat ==
  ASSUME DeviceOK
  PROVE  \A w \in Windows : media[w] \in Nat /\ cache[w] \in Nat
  BY PlanAssumption DEF DeviceOK, Content

LEMMA ContentIsNatThen ==
  ASSUME DeviceOK'
  PROVE  \A w \in Windows : media'[w] \in Nat /\ cache'[w] \in Nat
  BY PlanAssumption DEF DeviceOK, Content

(* The loop that logs a range has written every window.                     *)
LEMMA RangesWrittenStep ==
  ASSUME CoreInv, EraseInv, ProgressInv, [Next]_vars, CoreInv'
  PROVE  RangesWritten'
<1> SUFFICES ASSUME NoDrops', NoOutage', NEW i \in 1 .. Len(journal'),
                    journal'[i].type = "RangeCommit"
             PROVE  Reached(cache', journal'[i].pass)
  BY DEF RangesWritten, Reached
<1>1. NoDrops /\ NoOutage /\ ~PowerLoss
  BY DropsStep, OutagesStep, OutageCounts DEF CoreInv, EraseInv, ProgressInv
<1>2. \A w \in Windows : cache[w] \in Nat /\ cache'[w] \in Nat /\ cache'[w] >= cache[w]
  BY <1>1, CacheGrows, ContentIsNat, ContentIsNatThen DEF CoreInv, TypeOK, ProgressInv
<1>3. CASE i \in 1 .. Len(journal)
  <2>1. journal'[i] = journal[i] /\ journal[i] \in JournalRecord
    BY <1>3, NewRecord DEF CoreInv, TypeOK, EvidenceOK
  <2>2. journal[i].pass \in Nat
    BY <2>1 DEF JournalRecord, Header, Armed, Completed
  <2>3. Reached(cache, journal[i].pass)
    BY <1>1, <1>3, <2>1 DEF ProgressInv, RangesWritten
  <2> QED  BY <1>2, <2>1, <2>2, <2>3, ReachedGrows
<1>4. CASE i \notin 1 .. Len(journal)
  <2>1. CommitRange /\ journal'[i] = RangeCommit(off, StartWindow, WindowsWritten)
    BY <1>4, NewRecord DEF Flushed
  <2>2. off \in Nat /\ win \in Nat /\ NumWindows \in Nat
    BY PlanAssumption DEF CoreInv, TypeOK, LocalsOK
  <2>3. \A w \in Windows : w < win
    BY <2>1, <2>2 DEF CommitRange, MoreWindows, Windows
  <2>4. Reached(cache, off)
    BY <1>1, <2>1, <2>3 DEF ProgressInv, LoopWrites, CommitRange, Reached
  <2>5. Reached(cache', off)
    BY <1>2, <2>2, <2>4, ReachedGrows
  <2> QED  BY <2>1, <2>5 DEF RangeCommit
<1> QED  BY <1>3, <1>4

(* Where a pass enters the window loop, it skips only what is written.      *)
LEMMA SkippedIsWritten ==
  ASSUME CoreInv, ProgressInv, NoDrops, NoOutage \/ ~Has("Resumed"), pc \in PassLoop
  PROVE  \A w \in Windows : w < StartWindow => cache[w] >= Whole(off)
<1>1. CASE cmd = "resume" /\ PassIdx = last /\ committed > 0
  <2>1. NoOutage
    BY <1>1 DEF ProgressInv, OrderInv, ResumeMarked
  <2>2. PICK i \in 1 .. Len(journal) : journal[i].type = "RangeCommit" /\ journal[i].pass = last
    BY <1>1 DEF ProgressInv, OrderInv, ScanCounts
  <2>3. Reached(cache, last)
    BY <2>1, <2>2 DEF ProgressInv, RangesWritten
  <2>4. last = off
    BY <1>1, PassIdxIsOff DEF CoreInv, TypeOK
  <2> QED  BY <2>3, <2>4 DEF Reached
<1>2. CASE ~(cmd = "resume" /\ PassIdx = last /\ committed > 0)
  BY <1>2 DEF StartWindow, Windows, CoreInv, TypeOK, LocalsOK
<1> QED  BY <1>1, <1>2

(* How the pass loop moves.                                                 *)
LEMMA LoopSteps ==
  ASSUME [Next]_vars
  PROVE  \/ StartPass \/ WriteWindow \/ ZeroChunk \/ ZeroFallback \/ CommitRange
         \/ AppendEndPass \/ Flush
         \/ pc' = pc /\ off' = off /\ win' = win
         \/ pc' \notin Writing
<1> USE DEF Writing
<1>1. ASSUME Prepare \/ Recover PROVE pc' \notin Writing
  BY <1>1 DEF Prepare, Recover, StartExecute, AppendHeader, AppendArmed, StartResume,
     ScanRecord, ResumeArm, AppendResumed
<1>2. ASSUME AppendFlushed \/ Drain \/ Refuse PROVE pc' \notin Writing
  BY <1>2 DEF AppendFlushed, Drain, Refuse, DrainWrite, DrainVerify, ResumeRefused,
     VerifyRefused, RejectWipe, Abandon, Quit
<1>3. ASSUME Fails PROVE ZeroFallback \/ pc' \notin Writing
  BY <1>3 DEF Fails, WriteFails, FlushFails, ReadFails, GuardRefuses, CertificateWithheld, Quit
<1>4. ASSUME Attest PROVE pc' \notin Writing
  BY <1>4 DEF Attest, BeginVerify, ReadWindow, ReadDone, AppendVerify, AppendCompleted,
     WriteCertificate, Quit
<1>5. ASSUME ReconstructCertificate \/ World \/ UNCHANGED vars
      PROVE  (pc' = pc /\ off' = off /\ win' = win) \/ pc' \notin Writing
  BY <1>5 DEF ReconstructCertificate, World, Signal, Kill, PowerLoss, Evict, Quit, vars, loops
<1> QED  BY <1>1, <1>2, <1>3, <1>4, <1>5 DEF Next, Erase

(* The window loop, the commit, the fsync: what lies behind is written.     *)
LEMMA LoopWritesStep ==
  ASSUME CoreInv, EraseInv, ProgressInv, [Next]_vars, CoreInv'
  PROVE  LoopWrites'
<1> SUFFICES ASSUME NoDrops', NoOutage' \/ ~Has("Resumed")', pc' \in Writing
             PROVE  /\ pc' \in {"write", "zero"} =>
                         \A w \in Windows : w < win' => cache'[w] >= Whole(off')
                    /\ pc' \in {"endpass", "flush"} => \A w \in Windows : cache'[w] >= Whole(off')
                    /\ pc' = "flushed" => \A w \in Windows : media'[w] >= Whole(off')
  BY DEF LoopWrites, Reached, Writing
<1>1. NoDrops /\ (NoOutage \/ ~Has("Resumed")) /\ ~PowerLoss
  BY DropsStep, OutagesStep, ResumeMarkedStep
  DEF CoreInv, EraseInv, ProgressInv, PowerLoss, Quit, Writing
<1>2. /\ pc \in {"write", "zero"} => \A w \in Windows : w < win => cache[w] >= Whole(off)
      /\ pc \in {"endpass", "flush"} => \A w \in Windows : cache[w] >= Whole(off)
      /\ pc = "flushed" => \A w \in Windows : media[w] >= Whole(off)
  BY <1>1 DEF ProgressInv, LoopWrites, Reached
<1>3. \A w \in Windows :
        /\ cache[w] \in Nat /\ cache'[w] \in Nat /\ cache'[w] >= cache[w]
        /\ media[w] \in Nat /\ media'[w] \in Nat /\ media'[w] >= media[w]
  BY <1>1, CacheGrows, MediaGrow, ContentIsNat, ContentIsNatThen DEF CoreInv, TypeOK, ProgressInv
<1>4. off \in Nat /\ win \in Nat /\ NumWindows \in Nat /\ ChunkWindows \in Nat
  BY PlanAssumption DEF CoreInv, TypeOK, LocalsOK
<1>5. CASE StartPass
  <2>1. /\ pc' \in {"write", "zero"} /\ win' = StartWindow /\ off' = off
        /\ cache' = cache /\ pc \in PassLoop
    BY <1>5 DEF StartPass, device, PassLoop
  <2> QED  BY <1>1, <2>1, SkippedIsWritten
<1>6. CASE WriteWindow
  <2>1. /\ pc = "write" /\ pc' = "write" /\ off' = off /\ win' = win + 1
        /\ win \in Windows => cache'[win] = Whole(off)
    BY <1>6 DEF WriteWindow, CoreInv, TypeOK, DeviceOK
  <2>2. \A w \in Windows : w < win' => w < win \/ w = win
    BY <1>4, <2>1 DEF Windows
  <2> QED  BY <1>2, <1>3, <1>4, <2>1, <2>2 DEF Whole
<1>7. CASE ZeroChunk
  <2>1. pc = "zero" /\ pc' = "zero" /\ off' = off /\ win' <= win + ChunkWindows /\ win' \in Nat
    BY <1>4, <1>7 DEF ZeroChunk, NextChunk
  <2>2. \A w \in Windows : w < win' => w < win \/ w \in Chunk
    BY <1>4, <2>1 DEF Windows, Chunk
  <2>3. \A w \in Windows : w \in Chunk => cache'[w] = Whole(off)
    BY <1>7 DEF ZeroChunk
  <2> QED  BY <1>2, <1>3, <1>4, <2>1, <2>2, <2>3 DEF Whole
<1>8. CASE ZeroFallback
  BY <1>2, <1>8 DEF ZeroFallback, device
<1>9. CASE CommitRange
  <2>1. \A w \in Windows : w < win
    BY <1>4, <1>9 DEF CommitRange, MoreWindows, Windows
  <2> QED  BY <1>2, <1>9, <2>1 DEF CommitRange, device, loops
<1>10. CASE AppendEndPass
  BY <1>2, <1>10 DEF AppendEndPass, device, loops
<1>11. CASE Flush
  <2>1. volatile' = {} /\ cache' = cache /\ off' = off /\ pc = "flush" /\ pc' = "flushed"
    BY <1>11 DEF Flush, Fsynced, loops
  <2>2. \A w \in Windows : cache'[w] = media'[w]
    BY <2>1, CacheCleanStep DEF CacheClean
  <2> QED  BY <1>2, <2>1, <2>2
<1>12. CASE pc' = pc /\ off' = off /\ win' = win
  BY <1>2, <1>3, <1>4, <1>12 DEF Whole
<1> QED
  BY <1>5, <1>6, <1>7, <1>8, <1>9, <1>10, <1>11, <1>12, LoopSteps

(* A flush on record stays true: the fsync came first, and the media never  *)
(* fall back.                                                               *)
LEMMA FlushedIsDurableStep ==
  ASSUME CoreInv, EraseInv, ProgressInv, [Next]_vars, CoreInv'
  PROVE  FlushedIsDurable'
<1> SUFFICES ASSUME NoDrops', NEW i \in 1 .. Len(journal'), journal'[i].type = "Flushed",
                    NoOutage' \/ \A j \in 1 .. i : journal'[j].type # "Resumed"
             PROVE  Reached(media', journal'[i].pass)
  BY DEF FlushedIsDurable, Reached
<1>1. NoDrops /\ (NoOutage' => NoOutage)
  BY DropsStep, OutagesStep DEF CoreInv, EraseInv, ProgressInv
<1>2. \A w \in Windows : media[w] \in Nat /\ media'[w] \in Nat /\ media'[w] >= media[w]
  BY MediaGrow, ContentIsNat, ContentIsNatThen DEF CoreInv, TypeOK, ProgressInv
<1>3. CASE i \in 1 .. Len(journal)
  <2>1. /\ Len(journal) \in Nat
        /\ \A j \in 1 .. Len(journal) : journal'[j] = journal[j] /\ journal[j] \in JournalRecord
    BY NewRecord DEF CoreInv, TypeOK, EvidenceOK
  <2>2. journal[i].pass \in Nat /\ journal[i].type = "Flushed"
    BY <1>3, <2>1 DEF JournalRecord, Header, Armed, Completed
  <2>3. NoOutage \/ \A j \in 1 .. i : journal[j].type # "Resumed"
    BY <1>1, <1>3, <2>1
  <2>4. Reached(media, journal[i].pass)
    BY <1>1, <1>3, <2>2, <2>3 DEF ProgressInv, FlushedIsDurable, Reached
  <2> QED  BY <1>2, <1>3, <2>1, <2>2, <2>4, ReachedGrows
<1>4. CASE i \notin 1 .. Len(journal)
  <2>1. /\ AppendFlushed /\ journal'[i] = Flushed(off) /\ i = Len(journal) + 1
        /\ Len(journal) \in Nat
        /\ \A j \in 1 .. Len(journal) : journal'[j] = journal[j]
    BY <1>4, NewRecord DEF RangeCommit
  <2>2. NoOutage \/ ~Has("Resumed")
    BY <1>1, <2>1 DEF Has
  <2>3. Reached(media, off)
    BY <1>1, <2>1, <2>2 DEF ProgressInv, LoopWrites, AppendFlushed
  <2>4. off \in Nat
    BY DEF CoreInv, TypeOK, LocalsOK
  <2>5. Reached(media', off)
    BY <1>2, <2>3, <2>4, ReachedGrows
  <2> QED  BY <2>1, <2>5 DEF Flushed
<1> QED  BY <1>3, <1>4

(* ProgressInv holds initially.                                             *)
LEMMA ProgressInit == Init => ProgressInv
<1> SUFFICES ASSUME Init PROVE ProgressInv
  OBVIOUS
<1>1. OutagesCounted
  BY PlanAssumption DEF Init, OutagesCounted, EventKind
<1>2. OrderInv
  BY DEF Init, OrderInv, CacheLeads, FlushedBehind, ScanCounts, ResumeMarked, PlanFlushed,
     PassLoop, Writing, Has, Old
<1>3. RangesWritten /\ LoopWrites /\ FlushedIsDurable
  BY DEF Init, RangesWritten, LoopWrites, FlushedIsDurable
<1> QED  BY <1>1, <1>2, <1>3 DEF ProgressInv

(* ProgressInv is an invariant, relative to CoreInv and EraseInv.           *)
THEOREM ProgressInvariant == Spec => [](CoreInv /\ EraseInv /\ ProgressInv)
<1>1. Init => ProgressInv
  BY ProgressInit
<1>2. CoreInv /\ EraseInv /\ ProgressInv /\ [Next]_vars /\ CoreInv' => ProgressInv'
  BY OutagesStep, OrderStep, RangesWrittenStep, LoopWritesStep, FlushedIsDurableStep
  DEF ProgressInv, CoreInv
<1> QED  BY <1>1, <1>2, EraseInvariant, PTL DEF Spec

(* Flushed{p} on record means pass p on the media: execute's fsync comes    *)
(* before its record, and no later step takes the device back.              *)
THEOREM FlushedStaysDurable == Spec => []FlushedIsDurable
<1>1. ProgressInv => FlushedIsDurable
  BY DEF ProgressInv
<1> QED  BY <1>1, ProgressInvariant, PTL

(* RangeCommits and certificates claim nothing that has not been written,   *)
(* through fallbacks from BLKZEROOUT, kills and any number of resumes.      *)
THEOREM ClaimsStayBacked == Spec => []ClaimsAreBacked
<1>1. CoreInv /\ EraseInv /\ ProgressInv => ClaimsAreBacked
  <2> SUFFICES ASSUME CoreInv, EraseInv, ProgressInv PROVE ClaimsAreBacked
    OBVIOUS
  <2>1. CommitBacked
    BY DEF ProgressInv, RangesWritten, Reached, CommitBacked, Backed
  <2>2. CertificateErased
    <3> SUFFICES ASSUME NoDrops, NoOutage, NEW c \in certs, NEW w \in Windows
                 PROVE  media[w] = Whole(LastPass)
      BY DEF CertificateErased
    <3>1. Has("Verify")
      <4>1. PICK i \in 1 .. Len(journal) : journal[i] = Verify(c.checked, c.mismatches)
        BY DEF EraseInv, CertsLogged, Logged
      <4> QED  BY <4>1 DEF Has, Verify
    <3>2. PICK i \in 1 .. Len(journal) : journal[i].type = "Flushed" /\ journal[i].pass >= LastPass
      BY <3>1 DEF ProgressInv, OrderInv, PlanFlushed
    <3>3. media[w] >= Whole(journal[i].pass)
      BY <3>2 DEF ProgressInv, FlushedIsDurable
    <3>4. journal[i].pass \in Nat
      BY <3>2 DEF CoreInv, TypeOK, EvidenceOK, JournalRecord, Header, Armed, Completed
    <3>5. media[w] \in Content
      BY DEF CoreInv, TypeOK, DeviceOK
    <3> QED  BY <3>2, <3>3, <3>4, <3>5, PlanAssumption DEF Content, Whole, LastPass
  <2> QED  BY <2>1, <2>2 DEF ClaimsAreBacked
<1> QED  BY <1>1, ProgressInvariant, PTL

------------------------------------------------------------------------------
(* The refinement: WipeRun implements Sanitization *)

(* The passes are flushed in the order of the plan.                         *)
FlushesInOrder ==
  \A p \in Nat : Logged(Flushed(p)) => \A q \in Nat : q < p => Logged(Flushed(q))

LEMMA LoggedStays ==
  ASSUME CoreInv, [Next]_vars
  PROVE  /\ \A r : Logged(r) => Logged(r)'
         /\ \A t : Has(t) => Has(t)'
<1>1. \A i \in 1 .. Len(journal) : i \in 1 .. Len(journal') /\ journal'[i] = journal[i]
  BY NewRecord
<1> QED  BY <1>1 DEF Logged, Has

(* A step logs a Flushed or a Verify record, or none of either.             *)
LEMMA AttestationSteps ==
  ASSUME CoreInv, [Next]_vars
  PROVE  \/ AppendFlushed /\ Log(Flushed(off))
         \/ AppendVerify
         \/ /\ \A p : Logged(Flushed(p))' <=> Logged(Flushed(p))
            /\ \A i : i \in 1 .. Len(journal') /\ journal'[i].type = "Verify"
                   <=> i \in 1 .. Len(journal) /\ journal[i].type = "Verify"
<1>1. /\ \A i \in 1 .. Len(journal) : i \in 1 .. Len(journal') /\ journal'[i] = journal[i]
      /\ \A i \in 1 .. Len(journal') : i \notin 1 .. Len(journal) =>
           \/ CommitRange /\ journal'[i] = RangeCommit(off, StartWindow, WindowsWritten)
           \/ AppendFlushed /\ journal'[i] = Flushed(off)
           \/ AppendVerify /\ journal'[i].type = "Verify"
           \/ journal'[i].type \notin {"RangeCommit", "Flushed", "Verify"}
  BY NewRecord
<1>2. CASE AppendFlushed
  <2>1. PassIdx = off
    BY <1>2, PassIdxIsOff DEF AppendFlushed, Writing, PassLoop, CoreInv, ProcessInv, TypeOK
  <2> QED  BY <1>2, <2>1 DEF AppendFlushed
<1>3. CASE AppendVerify
  BY <1>3
<1>4. CASE ~AppendFlushed /\ ~AppendVerify
  <2>1. \A i \in 1 .. Len(journal') : i \notin 1 .. Len(journal) =>
          journal'[i].type \notin {"Flushed", "Verify"}
    BY <1>1, <1>4 DEF RangeCommit
  <2>2. \A p : Logged(Flushed(p))' <=> Logged(Flushed(p))
    BY <1>1, <2>1 DEF Logged, Flushed
  <2> QED  BY <1>1, <2>1, <2>2
<1> QED  BY <1>2, <1>3, <1>4

(* Everything before the pass at hand is flushed.                           *)
LEMMA LoopIsBehind ==
  ASSUME CoreInv, FlushesInOrder, pc \in PassLoop, NEW q \in Nat, q < off
  PROVE  Logged(Flushed(q))
<1>1. off \in Nat /\ off > 0 /\ Logged(Flushed(off - 1))
  BY DEF CoreInv, TypeOK, LocalsOK, ProcessInv, InPassLoop
<1>2. q = off - 1 \/ (off - 1 \in Nat /\ q < off - 1)
  BY <1>1
<1> QED  BY <1>1, <1>2 DEF FlushesInOrder

LEMMA FlushesInOrderStep ==
  ASSUME CoreInv, FlushesInOrder, [Next]_vars
  PROVE  FlushesInOrder'
<1> SUFFICES ASSUME NEW p \in Nat, Logged(Flushed(p))', NEW q \in Nat, q < p
             PROVE  Logged(Flushed(q))'
  BY DEF FlushesInOrder
<1>1. CASE Logged(Flushed(p))
  BY <1>1, LoggedStays DEF FlushesInOrder
<1>2. CASE ~Logged(Flushed(p))
  <2>1. PICK i \in 1 .. Len(journal') : journal'[i] = Flushed(p)
    BY DEF Logged
  <2>2. i \notin 1 .. Len(journal)
    BY <1>2, <2>1, NewRecord DEF Logged
  <2>3. AppendFlushed /\ Flushed(p) = Flushed(off)
    BY <2>1, <2>2, NewRecord DEF Flushed, RangeCommit
  <2>4. p = off /\ pc \in PassLoop
    BY <2>3 DEF Flushed, AppendFlushed, PassLoop, Writing
  <2> QED  BY <2>4, LoopIsBehind, LoggedStays
<1> QED  BY <1>1, <1>2

(* A window takes on a pass only behind the flushed passes before it.       *)
LEMMA ContentIsInOrder ==
  ASSUME CoreInv, FlushesInOrder, NEW w \in Windows, NEW p \in Passes,
         cache[w] >= Whole(p), NEW q \in Nat, q < p
  PROVE  Logged(Flushed(q))
<1>1. p \in Nat /\ NumPasses \in Nat /\ cache[w] \in Content
  BY PlanAssumption DEF CoreInv, TypeOK, DeviceOK, Passes
<1> DEFINE r == (cache[w] - 1) \div 2
<1>2. r \in Passes /\ cache[w] \in {Torn(r), Whole(r)} /\ p <= r
  BY <1>1 DEF Content, Passes, Torn, Whole
<1> HIDE DEF r
<1>3. Logged(BeginPass(r))
  BY <1>2 DEF CoreInv, WriteAhead
<1>4. r \in Nat /\ r > 0
  BY <1>1, <1>2 DEF Passes
<1>5. PICK i \in 1 .. Len(journal) : journal[i] = BeginPass(r)
  BY <1>3 DEF Logged
<1>6. journal[i].type = "BeginPass" /\ journal[i].pass = r
  BY <1>5 DEF BeginPass
<1>7. \E j \in 1 .. i - 1 : journal[j] = Flushed(r - 1)
  BY <1>4, <1>6 DEF CoreInv, JournalInv, PassesInOrder
<1>8. Logged(Flushed(r - 1))
  <2>1. Len(journal) \in Nat
    BY DEF CoreInv, TypeOK, EvidenceOK
  <2> QED  BY <1>7, <2>1 DEF Logged
<1>9. r - 1 \in Nat /\ (q = r - 1 \/ q < r - 1)
  BY <1>1, <1>2, <1>4
<1> QED  BY <1>8, <1>9 DEF FlushesInOrder

(* What the device, the journal and the budget say, in the words of         *)
(* Sanitization.                                                            *)
ErasedBy(p) == {w \in Windows : media[w] >= Whole(p)}
Matching    == {w \in Windows : Matches(media[w])}
Attested    == {p \in Passes : Logged(Flushed(p))}
Judged      == {i \in 1 .. Len(journal) : journal[i].type = "Verify"}
Verdicts    == {[checked |-> journal[i].checked, mismatches |-> journal[i].mismatches] : i \in Judged}
Doubtful    == ~NoOutage /\ Has("Resumed")

LEMMA ErasedIs == [p \in Passes |-> {w \in Windows : media[w] >= Whole(p)}] = [p \in Passes |-> ErasedBy(p)]
BY DEF ErasedBy

(* Nothing reaches the media once the journal carries a verdict.            *)
LEMMA JudgedAtRest ==
  ASSUME CoreInv, EraseInv, [Next]_vars, Has("Verify")
  PROVE  media' = media
<1>1. volatile = {} /\ pc \notin PassLoop /\ media \in [Windows -> Content]
  BY DEF EraseInv, PermitInv, CoreInv, ProcessInv, Verifying, TypeOK, DeviceOK
<1>2. ~Flush
  BY <1>1 DEF Flush, PassLoop, Writing
<1>3. PowerLoss => media' = media
  BY <1>1 DEF PowerLoss
<1> QED  BY <1>2, <1>3, DeviceSteps
  DEF device, WriteWindow, ZeroChunk, WriteFails, Kill, Evict

(* The media only take what a read already returned.                        *)
LEMMA MediaFromCache ==
  ASSUME CoreInv, [Next]_vars, NEW w \in Windows
  PROVE  media'[w] \in {media[w], cache[w]}
<1>1. media \in [Windows -> Content]
  BY DEF CoreInv, TypeOK, DeviceOK
<1>2. CASE Flush
  BY <1>2 DEF Flush
<1>3. CASE PowerLoss
  BY <1>3 DEF PowerLoss
<1>4. Flush \/ PowerLoss \/ media' = media
  BY DeviceSteps DEF device, WriteWindow, ZeroChunk, WriteFails, Kill, Evict
<1> QED  BY <1>2, <1>3, <1>4

LEMMA VerdictsAre ==
  /\ Verdicts = {} <=> ~Has("Verify")
  /\ \A c, b : Logged(Verify(c, b)) => [checked |-> c, mismatches |-> b] \in Verdicts
<1>1. Judged = {} <=> ~Has("Verify")
  BY DEF Judged, Has
<1>2. ASSUME NEW c, NEW b, Logged(Verify(c, b))
      PROVE  [checked |-> c, mismatches |-> b] \in Verdicts
  <2>1. PICK i \in 1 .. Len(journal) : journal[i] = Verify(c, b)
    BY <1>2 DEF Logged
  <2>2. i \in Judged /\ journal[i].checked = c /\ journal[i].mismatches = b
    BY <2>1 DEF Judged, Verify
  <2> QED  BY <2>2 DEF Verdicts
<1> QED  BY <1>1, <1>2 DEF Verdicts

(* A certificate copies the verdict of the journal.                         *)
LEMMA CertSteps ==
  ASSUME CoreInv, [Next]_vars, certs' # certs
  PROVE  /\ \E v \in Verdicts : certs' = certs \cup {v}
         /\ UNCHANGED <<media, journal, budget>>
<1>1. CASE WriteCertificate
  <2>1. Logged(Verify(checked, bad))
    BY <1>1 DEF WriteCertificate, CoreInv, ProcessInv, Verifying
  <2> QED  BY <1>1, <2>1, VerdictsAre DEF WriteCertificate, device
<1>2. CASE ReconstructCertificate
  <2>0. Has("Completed")
    <3>1. journal \in Seq(JournalRecord) /\ journal # <<>> /\ journal[Len(journal)] = Completed
      BY <1>2 DEF ReconstructCertificate, EndsCompleted, CoreInv, TypeOK, EvidenceOK
    <3>2. Len(journal) \in 1 .. Len(journal)
      BY <3>1
    <3> QED  BY <3>1, <3>2 DEF Has, Completed
  <2>1. FirstVerify \in 1 .. Len(journal) /\ journal[FirstVerify].type = "Verify"
    BY <2>0, FirstVerifyExists
  <2>2. [checked |-> journal[FirstVerify].checked, mismatches |-> journal[FirstVerify].mismatches]
          \in Verdicts
    BY <2>1 DEF Verdicts, Judged
  <2> QED  BY <1>2, <2>2 DEF ReconstructCertificate, device
<1>3. WriteCertificate \/ ReconstructCertificate
  BY DEF Next, vars, Prepare, StartExecute, AppendHeader, AppendArmed, Recover, StartResume,
     ScanRecord, ResumeArm, AppendResumed, Erase, StartPass, WriteWindow, ZeroChunk, CommitRange,
     AppendEndPass, Flush, AppendFlushed, Drain, DrainWrite, DrainVerify, Refuse, ResumeRefused,
     VerifyRefused, RejectWipe, Abandon, Fails, ZeroFallback, WriteFails, FlushFails, ReadFails, GuardRefuses, CertificateWithheld,
     Attest, BeginVerify, ReadWindow, ReadDone, AppendVerify, AppendCompleted, World, Signal,
     Kill, PowerLoss, Evict
<1> QED  BY <1>1, <1>2, <1>3

SanInv == CoreInv /\ EraseInv /\ ProgressInv /\ FlushesInOrder

LEMMA InitSanitizes == Init => Device!Init
<1> SUFFICES ASSUME Init PROVE Device!Init
  OBVIOUS
<1>1. Len(journal) = 0 /\ \A w \in Windows : media[w] = 0
  BY DEF Init, Old
<1>2. \A p \in Passes : ErasedBy(p) = {}
  BY <1>1, PlanAssumption DEF ErasedBy, Whole, Passes
<1>3. Matching = {}
  BY <1>1, PlanAssumption DEF Matching, Matches, Whole, Passes
<1>4. Attested = {} /\ Verdicts = {} /\ ~Has("Resumed")
  BY <1>1 DEF Attested, Logged, Verdicts, Judged, Has
<1>5. NoDrops /\ NoOutage /\ certs = {}
  BY DEF Init, NoDrops, NoOutage
<1> QED  BY <1>2, <1>3, <1>4, <1>5
  DEF Device!Init, Device!Passes, Passes, ErasedBy, Matching, Attested, Verdicts, Judged

(* AppendFlushed attests what LoopWrites knows of the pass.                 *)
LEMMA FlushedAttests ==
  ASSUME SanInv, [Next]_vars, AppendFlushed, Log(Flushed(off))
  PROVE  Device!Next
<1>1. /\ off \in Passes /\ pc \in PassLoop /\ ~Has("Verify")
      /\ \A q \in Nat : q < off => Logged(Flushed(q))
  BY LoopIsBehind DEF AppendFlushed, PassLoop, Writing, SanInv, CoreInv, ProcessInv, InPassLoop,
     Verifying
<1>2. ~(~NoDrops) /\ ~Doubtful => ErasedBy(off) = Windows
  BY DEF Doubtful, SanInv, ProgressInv, LoopWrites, Reached, AppendFlushed, ErasedBy
<1>3. /\ media' = media /\ certs' = certs /\ budget' = budget
      /\ \A r : Logged(r)' <=> Logged(r) \/ r = Flushed(off)
      /\ \A t : t # "Flushed" => (Has(t)' <=> Has(t))
      /\ Judged' = Judged /\ \A i \in Judged : journal'[i] = journal[i]
  <2>1. /\ Len(journal) \in Nat /\ Len(journal') = Len(journal) + 1
        /\ \A i \in 1 .. Len(journal) : journal'[i] = journal[i]
        /\ journal'[Len(journal) + 1] = Flushed(off)
    <3>1. journal \in Seq(JournalRecord) /\ Flushed(off) \in JournalRecord
      BY <1>1, RecordTypes, PlanAssumption DEF SanInv, CoreInv, TypeOK, EvidenceOK, Passes
    <3> QED  BY <3>1, LogShape
  <2>2. 1 .. Len(journal') = (1 .. Len(journal)) \cup {Len(journal) + 1}
    BY <2>1
  <2>3. Flushed(off).type = "Flushed"
    BY DEF Flushed
  <2>4. \A r : Logged(r)' <=> Logged(r) \/ r = Flushed(off)
    BY <2>1, <2>2 DEF Logged
  <2>5. \A t : t # "Flushed" => (Has(t)' <=> Has(t))
    BY <2>1, <2>2, <2>3 DEF Has
  <2>6. Judged' = Judged /\ \A i \in Judged : journal'[i] = journal[i]
    BY <2>1, <2>2, <2>3 DEF Judged
  <2> QED  BY <2>4, <2>5, <2>6 DEF AppendFlushed, device
<1>4. Attested' = Attested \cup {off}
  <2>1. \A p \in Passes : Flushed(p) = Flushed(off) <=> p = off
    BY DEF Flushed
  <2> QED  BY <1>1, <1>3, <2>1 DEF Attested
<1>5. /\ Verdicts' = Verdicts /\ Verdicts = {} /\ Matching' = Matching
      /\ Doubtful' = Doubtful /\ (~NoDrops)' = ~NoDrops
      /\ [p \in Passes |-> ErasedBy(p)]' = [p \in Passes |-> ErasedBy(p)]
  BY <1>1, <1>3, VerdictsAre DEF Verdicts, Matching, Doubtful, NoOutage, NoDrops, ErasedBy
<1>6. \A q \in Passes : q < off => q \in Attested
  BY <1>1, PlanAssumption DEF Attested, Passes
<1> QED  BY <1>1, <1>2, <1>3, <1>4, <1>5, <1>6
  DEF Device!Next, Device!Attest, Device!Behind, Device!Passes, Device!device, Device!faults,
      Passes, ErasedBy, Matching, Attested, Verdicts, Judged, Doubtful

(* The verdict of the read-back is one about the media.                     *)
LEMMA VerifyJudges ==
  ASSUME SanInv, [Next]_vars, AppendVerify
  PROVE  Device!Next
<1>0. PICK found : found = [checked |-> checked, mismatches |-> bad]
  OBVIOUS
<1>1. /\ pc = "report" /\ ~Has("Verify") /\ found \in [checked : SUBSET Windows, mismatches : SUBSET Windows]
      /\ media' = media /\ certs' = certs /\ budget' = budget
  BY <1>0 DEF AppendVerify, device, SanInv, CoreInv, TypeOK, LocalsOK, ProcessInv, Verifying
<1>2. LastPass \in Passes /\ LastPass \in Attested
  <2>1. PICK i \in 1 .. Len(journal) : journal[i].type = "Flushed" /\ journal[i].pass >= LastPass
    BY <1>1 DEF SanInv, ProgressInv, OrderInv, PlanFlushed
  <2>2. journal[i] \in JournalRecord
    BY DEF SanInv, CoreInv, TypeOK, EvidenceOK
  <2>3. journal[i].pass \in Nat /\ journal[i] = Flushed(journal[i].pass)
    BY <2>1, <2>2 DEF JournalRecord, Header, Armed, Completed, Flushed
  <2>4. LastPass \in Nat /\ LastPass \in Passes
    BY PlanAssumption DEF LastPass, Passes
  <2>5. Logged(Flushed(LastPass))
    <3>1. CASE journal[i].pass = LastPass
      BY <2>3, <3>1 DEF Logged
    <3>2. CASE LastPass < journal[i].pass
      BY <2>3, <2>4, <3>2 DEF Logged, SanInv, FlushesInOrder
    <3> QED  BY <2>1, <2>3, <2>4, <3>1, <3>2
  <2> QED  BY <2>4, <2>5 DEF Attested
<1>3. ~(~NoDrops) =>
        (IF SkipVerify THEN {} ELSE {w \in Windows : Sampled(w)}) \ found.mismatches \subseteq Matching
  BY <1>0, <1>1 DEF SanInv, EraseInv, ReadBackInv, Clean, Matching
<1>4. /\ \A p : Logged(Flushed(p))' <=> Logged(Flushed(p))
      /\ \A t : t # "Verify" => (Has(t)' <=> Has(t))
      /\ Verdicts' = {found}
  <2>0. checked \in SUBSET Windows /\ bad \in SUBSET Windows
    BY DEF SanInv, CoreInv, TypeOK, LocalsOK
  <2>1. /\ Len(journal) \in Nat /\ Len(journal') = Len(journal) + 1
        /\ \A i \in 1 .. Len(journal) : journal'[i] = journal[i]
        /\ journal'[Len(journal) + 1] = Verify(checked, bad)
    <3>1. journal \in Seq(JournalRecord) /\ Verify(checked, bad) \in JournalRecord
      BY <2>0, RecordTypes DEF SanInv, CoreInv, TypeOK, EvidenceOK
    <3> QED  BY <3>1, LogShape DEF AppendVerify
  <2>2. 1 .. Len(journal') = (1 .. Len(journal)) \cup {Len(journal) + 1}
    BY <2>1
  <2>3. /\ Verify(checked, bad).type = "Verify" /\ Verify(checked, bad).checked = checked
        /\ Verify(checked, bad).mismatches = bad /\ \A p : Flushed(p).type = "Flushed"
    BY DEF Verify, Flushed
  <2>4. \A p : Logged(Flushed(p))' <=> Logged(Flushed(p))
    BY <2>1, <2>2, <2>3 DEF Logged
  <2>5. \A t : t # "Verify" => (Has(t)' <=> Has(t))
    BY <2>1, <2>2, <2>3 DEF Has
  <2>6. Judged' = {Len(journal) + 1}
    BY <1>1, <2>1, <2>2, <2>3 DEF Judged, Has
  <2>7. Verdicts' = {found}
    BY <1>0, <2>1, <2>3, <2>6 DEF Verdicts
  <2> QED  BY <2>4, <2>5, <2>7
<1>5. /\ Verdicts = {} /\ Matching' = Matching /\ Attested' = Attested
      /\ Doubtful' = Doubtful /\ (~NoDrops)' = ~NoDrops
      /\ [p \in Passes |-> ErasedBy(p)]' = [p \in Passes |-> ErasedBy(p)]
  BY <1>1, <1>4, VerdictsAre DEF Matching, Attested, Doubtful, NoOutage, NoDrops, ErasedBy
<1>6. found \in Device!Finding
  BY <1>1 DEF Device!Finding
<1>7. Device!Judge(found)
  BY <1>1, <1>2, <1>3, <1>4, <1>5
  DEF Device!Judge, Device!LastPass, Device!device, Device!faults, LastPass,
      ErasedBy, Matching, Attested, Verdicts, Judged, Doubtful
<1> QED  BY <1>6, <1>7 DEF Device!Next

(* Every other step overwrites, or leaves the device as it was.             *)
LEMMA OthersOverwrite ==
  ASSUME SanInv, [Next]_vars, CoreInv', certs' = certs,
         \A p : Logged(Flushed(p))' <=> Logged(Flushed(p)),
         \A i : i \in 1 .. Len(journal') /\ journal'[i].type = "Verify"
                <=> i \in 1 .. Len(journal) /\ journal[i].type = "Verify"
  PROVE  Device!Next
<1>1. Attested' = Attested
  BY DEF Attested
<1>2. Judged' = Judged /\ \A i \in Judged : journal'[i] = journal[i]
  BY NewRecord DEF Judged, SanInv
<1>3. Verdicts' = Verdicts
  BY <1>2 DEF Verdicts
<1>4. \A w \in Windows : /\ media[w] \in Nat /\ media'[w] \in Content /\ media'[w] \in Nat
                         /\ media'[w] >= media[w]
  BY MediaGrow, ContentIsNat, ContentIsNatThen
  DEF SanInv, CoreInv, TypeOK, DeviceOK, ProgressInv
<1>5. ASSUME NEW p \in Passes
      PROVE  /\ ErasedBy(p) \subseteq ErasedBy(p)' /\ ErasedBy(p)' \subseteq Windows
             /\ ErasedBy(p)' # ErasedBy(p) =>
                  Verdicts = {} /\ \A q \in Passes : q < p => q \in Attested
  <2>1. Whole(p) \in Nat /\ Passes \subseteq Nat
    BY PlanAssumption DEF Whole, Passes
  <2>2. ErasedBy(p) \subseteq ErasedBy(p)' /\ ErasedBy(p)' \subseteq Windows
    BY <1>4, <2>1 DEF ErasedBy
  <2>3. ASSUME ErasedBy(p)' # ErasedBy(p)
        PROVE  Verdicts = {} /\ \A q \in Passes : q < p => q \in Attested
    <3>1. PICK w \in Windows : media'[w] >= Whole(p) /\ ~(media[w] >= Whole(p))
      BY <2>2, <2>3 DEF ErasedBy
    <3>2. ~Has("Verify")
      BY <3>1, JudgedAtRest DEF SanInv
    <3>3. cache[w] >= Whole(p)
      BY <3>1, MediaFromCache DEF SanInv
    <3>4. \A q \in Nat : q < p => Logged(Flushed(q))
      BY <3>3, ContentIsInOrder DEF SanInv
    <3> QED  BY <2>1, <3>2, <3>4, VerdictsAre DEF Attested
  <2> QED  BY <2>2, <2>3
<1>6. ErasedBy(LastPass)' \subseteq Matching' /\ LastPass \in Passes
  <2>1. LastPass \in Passes /\ NumPasses \in Nat /\ Whole(LastPass) = 2 * NumPasses
    BY PlanAssumption DEF LastPass, Passes, Whole
  <2>2. ASSUME NEW w \in Windows, media'[w] >= Whole(LastPass) PROVE Matches(media'[w])
    <3>1. media'[w] = Whole(LastPass)
      BY <1>4, <2>1, <2>2 DEF Content
    <3> QED  BY <2>1, <3>1 DEF Matches
  <2> QED  BY <2>1, <2>2 DEF ErasedBy, Matching
<1>7. Matching' # Matching => Verdicts = {}
  <2>1. Has("Verify") => media' = media
    BY JudgedAtRest DEF SanInv
  <2> QED  BY <2>1, VerdictsAre DEF Matching
<1>8. (~NoDrops => (~NoDrops)') /\ (Doubtful => Doubtful')
  BY DropsStep, OutagesStep, LoggedStays
  DEF SanInv, CoreInv, EraseInv, ProgressInv, Doubtful
<1>9. Device!Overwrite
  BY <1>1, <1>3, <1>5, <1>6, <1>7, <1>8
  DEF Device!Overwrite, Device!Behind, Device!Passes, Device!LastPass, Passes, LastPass,
      ErasedBy, Matching, Attested, Verdicts, Judged, Doubtful
<1> QED  BY <1>9 DEF Device!Next

(* Every step of a run is one of Sanitization, or changes nothing there.    *)
LEMMA StepSanitizes ==
  ASSUME SanInv, [Next]_vars, CoreInv'
  PROVE  Device!Next
<1>1. CASE certs' # certs
  <2>1. PICK v \in Verdicts : certs' = certs \cup {v}
    BY <1>1, CertSteps DEF SanInv
  <2>2. UNCHANGED <<media, journal, budget>>
    BY <1>1, CertSteps DEF SanInv
  <2>3. /\ Attested' = Attested /\ Verdicts' = Verdicts /\ Matching' = Matching
        /\ Doubtful' = Doubtful /\ (~NoDrops)' = ~NoDrops
        /\ [p \in Passes |-> ErasedBy(p)]' = [p \in Passes |-> ErasedBy(p)]
    BY <2>2 DEF Attested, Verdicts, Judged, Matching, Doubtful, NoOutage, NoDrops, ErasedBy,
       Logged, Has
  <2>4. Device!Certify(v)
    BY <2>1, <2>3
    DEF Device!Certify, Device!device, Device!faults, ErasedBy, Matching, Attested, Verdicts,
        Judged, Doubtful
  <2> QED  BY <2>4 DEF Device!Next, Verdicts, Judged
<1>2. CASE certs' = certs
  BY <1>2, AttestationSteps, FlushedAttests, VerifyJudges, OthersOverwrite DEF SanInv
<1> QED  BY <1>1, <1>2

(* WipeRun implements Sanitization: for every plan, device and number of    *)
(* faults, the run overwrites, attests, judges and certifies in this order. *)
THEOREM RunSanitizes == Spec => ImplementsSanitization
<1>1. Init => FlushesInOrder
  BY DEF Init, FlushesInOrder, Logged
<1>2. CoreInv /\ FlushesInOrder /\ [Next]_vars => FlushesInOrder'
  BY FlushesInOrderStep
<1>3. Spec => [](CoreInv /\ EraseInv /\ ProgressInv)
  BY ProgressInvariant
<1>4. Spec => []SanInv
  BY <1>1, <1>2, <1>3, PTL DEF Spec, SanInv
<1>5. Init => Device!Init
  BY InitSanitizes
<1>6. SanInv /\ [Next]_vars /\ SanInv' => [Device!Next]_Device!vars
  BY StepSanitizes DEF SanInv
<1> QED  BY <1>4, <1>5, <1>6, PTL DEF Spec, ImplementsSanitization, Device!Spec

==============================================================================
