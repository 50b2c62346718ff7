------------------------------- MODULE Journal -------------------------------
(***************************************************************************)
(* The DCJ1 journal file: JournalWriter and JournalReader of                *)
(* dc-core/src/journal.rs, and the way `dc execute' and `dc resume' use     *)
(* them: a file of hash-chained records, torn by kills, outages and full    *)
(* disks, read and reopened by processes that take the device lock between  *)
(* reading and reopening.                                                   *)
(*                                                                         *)
(* The writes of one append (length, body, hash, signature) are one cell    *)
(* each; a write that stops half way leaves a piece.  A hash is the chain   *)
(* of records it covers: BLAKE3 does not collide.  Lengths are counted in   *)
(* cells, which is exact as long as nobody appends behind a torn tail.      *)
(***************************************************************************)
EXTENDS Integers, Sequences, FiniteSets

CONSTANTS
  Process,     \* dc processes that use the journal
  Nobody,      \* no process
  Sealed,      \* every record carries an Ed25519 signature
  Overlap,     \* TRUE if a resume may be started while another process runs
  MaxRecords,  \* records in the journal: a bound
  MaxEvents    \* how often each outside event, and a resume, may happen: a bound

EventKind == {"kill", "power", "full", "resume"}

ASSUME JournalAssumption ==
  /\ Nobody \notin Process
  /\ Sealed \in BOOLEAN /\ Overlap \in BOOLEAN
  /\ MaxRecords \in Nat
  /\ MaxEvents \in [EventKind -> Nat]

VARIABLES
  exists,   \* "none", "bare" before the magic is written, "ok"
  file,     \* the cells behind the magic, as the page cache has them
  durable,  \* the cells that an outage leaves
  saved,    \* the tails kept in the .tailsave file
  acked,    \* the records whose append has returned Ok
  holder,   \* the process that holds the device (Guardian::arm_and_lock)
  phase,    \* where each process stands
  seen,     \* what read_and_verify_chain told it: the chain and the tail
  head,     \* JournalWriter::prev_hash of the holder
  cur,      \* the record of its append in progress
  part,     \* its next write, 0 between two appends
  budget    \* outside events and resumes that may still happen

vars == <<exists, file, durable, saved, acked, holder, phase, seen, head, cur,
          part, budget>>

------------------------------------------------------------------------------
(* Records and cells *)

Entry == [type : {"Header", "Event", "Completed"}, by : Process]

Parts == IF Sealed THEN <<"len", "body", "hash", "sig">> ELSE <<"len", "body", "hash">>
Width == Len(Parts)

(* The k-th write of an append of r behind the chain c. *)
Cell(k, r, c) == [kind |-> Parts[k], rec |-> <<r>>, prev |-> c]
Zero  == [kind |-> "zero", rec |-> <<>>, prev |-> <<>>]
Piece == [kind |-> "piece", rec |-> <<>>, prev |-> <<>>]

(* The cells of a journal that holds exactly chain c. *)
Spell(c) ==
  [i \in 1 .. Len(c) * Width |->
     LET n == (i - 1) \div Width IN
       Cell(((i - 1) % Width) + 1, c[n + 1], SubSeq(c, 1, n))]

------------------------------------------------------------------------------
(* JournalReader::read_and_verify_chain *)

(* The record the body of slot n claims to be. *)
Claimed(f, n) == f[(n - 1) * Width + 2].rec

(* The first n slots hold n records, each chained to those before it. *)
Chains(f, n) ==
  /\ n * Width <= Len(f)
  /\ \A i \in 1 .. n : Claimed(f, i) # <<>>
  /\ LET c == [i \in 1 .. n |-> Claimed(f, i)[1]] IN
       SubSeq(f, 1, n * Width) = Spell(c)

VerifiedCount(f) ==
  CHOOSE n \in 0 .. Len(f) \div Width :
    Chains(f, n) /\ \A m \in n + 1 .. Len(f) \div Width : ~Chains(f, m)

Verified(f) == [i \in 1 .. VerifiedCount(f) |-> Claimed(f, i)[1]]

(* What follows the verified records. *)
Rest(f) == SubSeq(f, VerifiedCount(f) * Width + 1, Len(f))

(* Bytes the reader wants to see before it looks at a record: a signature   *)
(* only once the Header has told it that the journal is sealed.             *)
Wanted(f) == IF VerifiedCount(f) = 0 THEN 3 ELSE Width

IsTornBug(f) == FALSE
IsTorn(f) ==
  LET t == Rest(f) IN
    \/ Len(t) < Wanted(f)
    \/ Len(t) = Wanted(f) /\ t[Len(t)] = Piece

(* The reader's outcome.  The zero-tail test comes last: a zero length      *)
(* prefix has long been answered.                                           *)
Verdict(f) ==
  LET t == Rest(f) IN
    CASE t = <<>> -> "clean"
      [] t # <<>> /\ t[1] = Zero -> "ZERO_LEN_RECORD"
      [] t # <<>> /\ t[1] # Zero /\ IsTorn(f) ->
           IF \A i \in 1 .. Len(t) : t[i] = Zero THEN "JOURNAL_ZERO_TAIL" ELSE "torn"
      [] OTHER -> "CHAIN_MISMATCH"

Readable(f) == Verdict(f) \in {"clean", "torn"}

------------------------------------------------------------------------------
Spend(e) == budget[e] > 0 /\ budget' = [budget EXCEPT ![e] = @ - 1]

(* The process is gone and its descriptors with it. *)
Leave(p) ==
  /\ phase' = [phase EXCEPT ![p] = "out"]
  /\ seen' = [seen EXCEPT ![p] = [chain |-> <<>>, tail |-> 0]]
  /\ IF holder = p
       THEN holder' = Nobody /\ head' = <<>> /\ cur' = <<>> /\ part' = 0
       ELSE UNCHANGED <<holder, head, cur, part>>

Init ==
  /\ exists = "none" /\ file = <<>> /\ durable = <<>> /\ saved = {} /\ acked = <<>>
  /\ holder = Nobody
  /\ phase = [p \in Process |-> "out"]
  /\ seen = [p \in Process |-> [chain |-> <<>>, tail |-> 0]]
  /\ head = <<>> /\ cur = <<>> /\ part = 0
  /\ budget = MaxEvents

------------------------------------------------------------------------------
(* dc execute: JournalWriter::create_new, with the device already locked *)

CreateNew(p) ==
  /\ phase[p] = "out" /\ exists = "none" /\ holder = Nobody
  /\ exists' = "bare" /\ holder' = p
  /\ phase' = [phase EXCEPT ![p] = "create"]
  /\ UNCHANGED <<file, durable, saved, acked, seen, head, cur, part, budget>>

WriteMagic(p) ==
  /\ phase[p] = "create"
  /\ exists' = "ok"
  /\ phase' = [phase EXCEPT ![p] = "open"]
  /\ UNCHANGED <<file, durable, saved, acked, holder, seen, head, cur, part, budget>>

------------------------------------------------------------------------------
(* JournalWriter::append *)

EndsCompleted(c) == c # <<>> /\ c[Len(c)].type = "Completed"

BeginAppend(p) ==
  /\ phase[p] = "open" /\ part = 0
  /\ Len(head) < MaxRecords /\ ~EndsCompleted(head)
  /\ \E t \in IF head = <<>> THEN {"Header"} ELSE {"Event", "Completed"} :
       cur' = <<[type |-> t, by |-> p]>>
  /\ part' = 1
  /\ UNCHANGED <<exists, file, durable, saved, acked, holder, phase, seen, head, budget>>

WriteCell(p) ==
  /\ phase[p] = "open" /\ part \in 1 .. Width
  /\ file' = Append(file, Cell(part, cur[1], head))
  /\ part' = part + 1
  /\ UNCHANGED <<exists, durable, saved, acked, holder, phase, seen, head, cur, budget>>

(* sync_data, then prev_hash and record_count move on and append returns.   *)
Synced == file

SyncAppend(p) ==
  /\ phase[p] = "open" /\ part = Width + 1
  /\ durable' = Synced
  /\ head' = head \o cur
  /\ acked' = head \o cur
  /\ cur' = <<>> /\ part' = 0
  /\ UNCHANGED <<exists, file, saved, holder, phase, seen, budget>>

(* A write_all runs into a full disk: `?' ends the process. *)
AppendFails(p) ==
  /\ phase[p] = "open" /\ part \in 1 .. Width
  /\ Spend("full")
  /\ file' \in {file, Append(file, Piece)}
  /\ Leave(p)
  /\ UNCHANGED <<exists, durable, saved, acked>>

(* The run ends, complete or not; a resume of a sealed journal may also end *)
(* for want of the operator's key.                                          *)
Exit(p) ==
  /\ phase[p] \in {"open", "locked"} /\ part = 0
  /\ Leave(p)
  /\ UNCHANGED <<exists, file, durable, saved, acked, budget>>

------------------------------------------------------------------------------
(* dc resume *)

Alone(p) == \A q \in Process \ {p} : phase[q] = "out"

(* The chain is read without any lock; an unreadable, empty or completed    *)
(* journal is refused and nothing changes.                                  *)
ReadChain(p) ==
  /\ phase[p] = "out" /\ exists = "ok"
  /\ Overlap \/ Alone(p)
  /\ Spend("resume")
  /\ Readable(file) /\ Verified(file) # <<>> /\ ~EndsCompleted(Verified(file))
  /\ phase' = [phase EXCEPT ![p] = "read"]
  /\ seen' = [seen EXCEPT ![p] = [chain |-> Verified(file), tail |-> Len(Rest(file))]]
  /\ UNCHANGED <<exists, file, durable, saved, acked, holder, head, cur, part>>

(* arm_and_lock *)
TakeLock(p) ==
  /\ phase[p] = "read" /\ holder = Nobody
  /\ holder' = p
  /\ phase' = [phase EXCEPT ![p] = "locked"]
  /\ UNCHANGED <<exists, file, durable, saved, acked, seen, head, cur, part, budget>>

(* Refused: another process has the device, or Guardian finds it changed.   *)
Refused(p) ==
  /\ phase[p] = "read"
  /\ Leave(p)
  /\ UNCHANGED <<exists, file, durable, saved, acked, budget>>

(* open_for_resume: the length is today's, the tail is the one seen.        *)
CutToBug(p)  == Len(file)
CutToSwap(p) == seen[p].tail - Len(file)
CutTo(p) == Len(file) - seen[p].tail

(* What the cut takes off, copied to .tailsave and fsynced before it does.  *)
CutOffBug(p) == {}
CutOff(p) ==
  IF CutTo(p) < Len(file) THEN {SubSeq(file, CutTo(p) + 1, Len(file))} ELSE {}

SaveTail(p) ==
  /\ phase[p] = "locked"
  /\ saved' = saved \cup CutOff(p)
  /\ phase' = [phase EXCEPT ![p] = "cut"]
  /\ UNCHANGED <<exists, file, durable, acked, holder, seen, head, cur, part, budget>>

CutTail(p) ==
  /\ phase[p] = "cut"
  /\ file' = SubSeq(file, 1, CutTo(p))
  /\ head' = seen[p].chain
  /\ phase' = [phase EXCEPT ![p] = "open"]
  /\ UNCHANGED <<exists, durable, saved, acked, holder, seen, cur, part, budget>>

------------------------------------------------------------------------------
(* The world *)

(* SIGKILL, perhaps in the middle of a write. *)
Kill(p) ==
  /\ phase[p] # "out"
  /\ Spend("kill")
  /\ IF phase[p] = "open" /\ part \in 1 .. Width
       THEN file' \in {file, Append(file, Piece)} ELSE UNCHANGED file
  /\ Leave(p)
  /\ UNCHANGED <<exists, durable, saved, acked>>

Common ==
  CHOOSE n \in 0 .. Len(file) :
    /\ n <= Len(durable) /\ SubSeq(file, 1, n) = SubSeq(durable, 1, n)
    /\ n + 1 <= Len(file) /\ n + 1 <= Len(durable) => file[n + 1] # durable[n + 1]

(* An outage keeps what was synced.  Of what came later it keeps a prefix   *)
(* of the length, and each cell of it written or still zero.                *)
Survivors ==
  {durable} \cup
    UNION { { [i \in 1 .. n |-> IF i \in hollow THEN Zero ELSE file[i]]
              : hollow \in SUBSET (Common + 1 .. n) } : n \in Common .. Len(file) }

PowerLoss ==
  /\ Spend("power")
  /\ exists' \in IF exists = "bare" THEN {"none", "bare"} ELSE {exists}
  /\ file' \in Survivors
  /\ durable' = file'
  /\ phase' = [p \in Process |-> "out"]
  /\ seen' = [p \in Process |-> [chain |-> <<>>, tail |-> 0]]
  /\ holder' = Nobody /\ head' = <<>> /\ cur' = <<>> /\ part' = 0
  /\ UNCHANGED <<saved, acked>>

------------------------------------------------------------------------------
Write(p)  == CreateNew(p) \/ WriteMagic(p) \/ BeginAppend(p) \/ WriteCell(p)
               \/ SyncAppend(p) \/ AppendFails(p) \/ Exit(p)
Resume(p) == ReadChain(p) \/ TakeLock(p) \/ Refused(p) \/ SaveTail(p) \/ CutTail(p)

Next == PowerLoss \/ \E p \in Process : Write(p) \/ Resume(p) \/ Kill(p)

Spec == Init /\ [][Next]_vars

------------------------------------------------------------------------------
Chain   == Seq(Entry)
CellSet == [kind : {"len", "body", "hash", "sig", "zero", "piece"},
            rec : Seq(Entry), prev : Chain]

(* The fields of the writer and the summary of the reader; a cut never      *)
(* falls before the start of the file (the subtraction in cmd_resume is     *)
(* unsigned).                                                               *)
TypeOK ==
  /\ exists \in {"none", "bare", "ok"}
  /\ file \in Seq(CellSet) /\ durable \in Seq(CellSet) /\ saved \subseteq Seq(CellSet)
  /\ acked \in Chain /\ head \in Chain /\ cur \in Chain
  /\ holder \in Process \cup {Nobody}
  /\ phase \in [Process -> {"out", "create", "read", "locked", "cut", "open"}]
  /\ seen \in [Process -> [chain : Chain, tail : Nat]]
  /\ \A p \in Process : phase[p] \in {"locked", "cut"} => CutTo(p) >= 0
  /\ part \in 0 .. Width + 1
  /\ budget \in [EventKind -> Nat]

NoOutage == budget["power"] = MaxEvents["power"]

(* "Torn tails are recoverable": short of an outage a journal whose Header  *)
(* is complete can be read and resumed.  (A sealed Header without its       *)
(* signature is refused.)                                                   *)
TornTailRecoverable == NoOutage /\ Verified(file) # <<>> => Readable(file)

(* No byte leaves the journal, short of an outage, that .tailsave does not  *)
(* keep.                                                                    *)
CutIsSaved ==
  [][Len(file') < Len(file) /\ budget' = budget =>
       SubSeq(file, Len(file') + 1, Len(file)) \in saved]_vars

(* The journal is an append-only log of acknowledged records: whatever      *)
(* kills, outages and full disks strike later appends, a record whose       *)
(* append returned stays readable in front of everything else.              *)
Log == INSTANCE AppendLog WITH log <- Verified(file), acked <- acked
ImplementsLog == Log!Spec

------------------------------------------------------------------------------
(* What the repository says of the journal and the code does not do *)

(* "JournalReader [...] truncates the file to the last valid cryptographic  *)
(* boundary": between two appends the journal is readable, also when a      *)
(* resume was started while the run it resumes was still ending.            *)
ResumeKeepsChain == NoOutage /\ acked # <<>> /\ part = 0 => Readable(file)

==============================================================================
