----------------------------- MODULE Resurrect -----------------------------
(***************************************************************************)
(* dc-resurrect: the erasure of a dead drive through its debug ports        *)
(* (crates/dc-resurrect/src/pipeline.rs). The rig scans the board, decides  *)
(* on a route and either loads a probe and then an erase kernel into the    *)
(* controller's SRAM (boot ROM download over the UART, or SWD), which then  *)
(* runs on its own while the rig listens, or takes the NAND bus itself pin  *)
(* by pin. What the kernel or the pins recorded of every block becomes the  *)
(* erasure proof.                                                           *)
(*                                                                          *)
(* A glitch is a fault of the wire or of the NAND's ready line that the     *)
(* code has an answer to: a byte lost or garbled, a poll that times out, a  *)
(* file that cannot be written; or one it does not notice, a die or a probe *)
(* that read junk for its ID. A page is blank or holds data; which bytes and *)
(* which CRC is not modelled.                                               *)
(***************************************************************************)
EXTENDS Integers, Sequences, FiniteSets

CONSTANTS
  Boards,      \* what may lie on the bench: scenario, blocks, odd dies, room
  Modes,       \* VerifyModes an operator may ask for
  NumDies, NumBlocks, NumPages,
  NumChunks,   \* chunks of an image: CHUNK bytes each
  NakLimit,    \* NAKs of one chunk the rig puts up with (4 in the code)
  MaxQuiet,    \* silent polls before the rig gives up (2000 and 4000)
  MaxGlitches

Dies  == 0 .. NumDies - 1
Pages == 0 .. NumPages - 1
Cells == Dies \X (0 .. NumBlocks - 1)
Stuck == 3     \* refusals of a block that never erases: nobody asks more often

Statuses == {"erased", "skipped", "failed", "die"}
Leaf == [die : Dies, block : 0 .. NumBlocks, status : Statuses, nonzero : Nat]

\* The boundary register has one die-select cell (BitBangNand::select_die), so
\* the pins tell two dies apart.
ASSUME Sizes ==
  /\ NumDies \in 1 .. 2
  /\ {NumBlocks, NumPages, NumChunks, NakLimit} \subseteq Nat \ {0}
  /\ {MaxQuiet, MaxGlitches} \subseteq Nat
  /\ Modes \subseteq {"Off", "Sampled", "Full"}

Scenarios == {"FirmwareCorrupt", "HardFaultLockup", "PowerPathTvn", "DebugLockdown"}
Block == [marked : BOOLEAN, refuses : 0 .. Stuck, sticky : SUBSET Pages, dirty : SUBSET Pages]

\* An odd die answers to another ID than die 0, the one the probe asks.
ASSUME Bench ==
  \A b \in Boards :
    /\ b.scenario \in Scenarios /\ b.odd \subseteq Dies \ {0} /\ b.room \in Nat
    /\ b.blocks \in [Cells -> Block] /\ \A c \in Cells : b.blocks[c].dirty = Pages

VARIABLES
  board,     \* [scenario, odd, room]: what the rig does not know
  verify,    \* MissionConfig.verify
  rig,       \* the host: program counter, findings, transfer, records
  link,      \* heartbeats on the UART nobody has read
  core,      \* the controller's core: what it is doing, and of which image
  sram,      \* the image and the mailbox
  expect,    \* EXPECT_ID of the kernel: die 0's own, or the junk that was read for it
  walk,      \* position of the walk over the blocks, the kernel's or the pins'
  nand,      \* per block: marker, refusals left, pages an erase leaves, pages with data
  stalled,   \* blocks, and IDs of dies, the ready line once spoiled (history)
  glitches

vars == <<board, verify, expect, rig, link, core, sram, walk, nand, stalled, glitches>>
target == <<link, core, sram, walk, nand, stalled>>

----------------------------------------------------------------------------
(* The board *)

\* What each scenario leaves alive (SimTarget::new).
Alive == [FirmwareCorrupt |-> [rails |-> TRUE,  brom |-> TRUE,  locked |-> FALSE],
          HardFaultLockup |-> [rails |-> TRUE,  brom |-> FALSE, locked |-> FALSE],
          PowerPathTvn    |-> [rails |-> FALSE, brom |-> TRUE,  locked |-> FALSE],
          DebugLockdown   |-> [rails |-> TRUE,  brom |-> FALSE, locked |-> TRUE]]
Shell == Alive[board.scenario]

Start == [die |-> 0, block |-> 0, at |-> "die", tries |-> 0, page |-> 0, nonzero |-> 0]

Init ==
  /\ \E b \in Boards :
       /\ board = [scenario |-> b.scenario, odd |-> b.odd, room |-> b.room]
       /\ nand = b.blocks
       /\ core = [state |-> IF b.scenario = "HardFaultLockup" THEN "halted" ELSE "off",
                  image |-> "none"]
  /\ verify \in Modes
  /\ rig = [pc |-> "scan", bench |-> FALSE, heard |-> FALSE, class |-> "none",
            stage |-> "probe", sent |-> 0, tries |-> 0, quiet |-> 0,
            records |-> <<>>, exit |-> "none"]
  /\ link = <<>>
  /\ sram = [image |-> "none", got |-> 0, probe |-> {}, records |-> <<>>, done |-> FALSE]
  /\ expect = "none"
  /\ walk = Start
  /\ stalled = {}
  /\ glitches = 0

Glitch == glitches < MaxGlitches /\ glitches' = glitches + 1
Clean  == UNCHANGED glitches
Given == UNCHANGED <<board, verify>>
Fixed  == Given /\ UNCHANGED expect

Goes(pc) == rig' = [rig EXCEPT !.pc = pc, !.sent = 0, !.tries = 0, !.quiet = 0]
Fails    == rig' = [rig EXCEPT !.pc = "end", !.exit = "error"]
At(pc)   == rig.pc = pc /\ Fixed

----------------------------------------------------------------------------
(* The rig: scan and triage *)

\* The sync byte; a board with dead rails is powered from the bench and asked
\* again.
ScanUart ==
  /\ At("scan")
  /\ \E heard \in BOOLEAN :
       /\ IF heard = Shell.brom THEN Clean ELSE ~heard /\ Glitch
       /\ rig' = [rig EXCEPT !.pc = "triage", !.bench = ~Shell.rails, !.heard = heard]
  /\ UNCHANGED target

\* Bench power decides before anything that was heard. A debug port that could
\* not be reached counts like one that is locked; without a TAP nothing is left.
Class(swd, tap) ==
  CASE rig.bench               -> "C"
    [] ~rig.bench /\ rig.heard -> "A"
    [] OTHER -> IF swd THEN "B" ELSE IF tap THEN "D" ELSE "X"

Route == [A |-> "open", C |-> "open", B |-> "halt", D |-> "extest"]

Triage ==
  /\ At("triage")
  /\ \E swd \in {FALSE, ~Shell.locked}, tap \in BOOLEAN :
       /\ IF tap /\ swd = ~Shell.locked THEN Clean ELSE Glitch
       /\ IF Class(swd, tap) = "X" THEN Fails
          ELSE rig' = [rig EXCEPT !.pc = Route[Class(swd, tap)], !.class = Class(swd, tap)]
  /\ UNCHANGED target

----------------------------------------------------------------------------
(* The rig: getting an image into the SRAM and the core onto it *)

Brom == rig.class \in {"A", "C"}
Loaded == rig.sent + 1 = NumChunks

\* A chunk that arrives whole goes where the last one ended, the first one over
\* whatever was there; the mailbox lies beyond the image.
Stores ==
  sram' = [sram EXCEPT !.image = rig.stage,
                       !.got = IF sram.image = rig.stage THEN @ + 1 ELSE 1]
Sent   == IF Loaded THEN Goes("jump") ELSE rig' = [rig EXCEPT !.sent = @ + 1, !.tries = 0]

\* The core leaves whatever it did for the image that is in the SRAM.
Release ==
  /\ core' = [state |-> "running", image |-> sram.image]
  /\ walk' = Start

\* Auto-baud, HELLO and the challenge: one reply that is missing ends it.
Open ==
  /\ At("open")
  /\ \/ Clean /\ Goes("load")
     \/ Glitch /\ Fails
  /\ UNCHANGED target

Announce ==
  /\ At("load")
  /\ \/ Clean /\ Goes("chunk")
     \/ Glitch /\ Fails
  /\ UNCHANGED target

\* A NAK is a reason to send the chunk again, silence is not.
NakedIsSent == Sent
NakedAgain  == rig' = [rig EXCEPT !.tries = @ + 1]
Naked ==
  IF rig.tries + 1 >= NakLimit THEN Fails ELSE rig' = [rig EXCEPT !.tries = @ + 1]

SendChunk ==
  /\ At("chunk") /\ Brom
  /\ \/ Clean /\ Stores /\ Sent
     \/ Glitch /\ Naked /\ UNCHANGED sram
     \/ Glitch /\ Fails /\ (Stores \/ UNCHANGED sram)
  /\ UNCHANGED <<link, core, walk, nand, stalled>>

\* The acknowledgement of the jump may be lost with the core already running.
Jump ==
  /\ At("jump") /\ Brom
  /\ \/ Clean /\ Release /\ Goes("listen")
     \/ Glitch /\ Release /\ Fails
     \/ Glitch /\ UNCHANGED <<core, walk>> /\ Fails
  /\ UNCHANGED <<link, sram, nand, stalled>>

HaltCore ==
  /\ At("halt")
  /\ \/ Clean /\ Goes("chunk") /\ core' = [core EXCEPT !.state = "halted"]
     \/ Glitch /\ Fails /\ UNCHANGED core
  /\ UNCHANGED <<link, sram, walk, nand, stalled>>

WriteSram ==
  /\ At("chunk") /\ ~Brom
  /\ \/ Clean /\ Stores /\ Sent
     \/ Glitch /\ Fails /\ UNCHANGED sram
  /\ UNCHANGED <<link, core, walk, nand, stalled>>

JumpCore ==
  /\ At("jump") /\ ~Brom
  /\ \/ Clean /\ Release /\ Goes("poll")
     \/ Glitch /\ Fails /\ UNCHANGED <<core, walk>>
  /\ UNCHANGED <<link, sram, nand, stalled>>

----------------------------------------------------------------------------
(* The rig: waiting for the core and reading its mailbox *)

AfterRun == IF rig.stage = "probe" THEN "peek" ELSE "readback"

QuietAgain == rig' = rig
Quiet ==
  IF rig.quiet + 1 > MaxQuiet THEN Fails ELSE rig' = [rig EXCEPT !.quiet = @ + 1]

\* wait_heartbeat: progress resets the patience, DONE ends the wait, a
\* heartbeat that fails its CRC ends the mission and a lost one goes unnoticed.
Hear ==
  /\ At("listen") /\ link # <<>>
  /\ link' = Tail(link)
  /\ \/ /\ Clean
        /\ IF Head(link) = "DONE" THEN Goes(AfterRun) ELSE rig' = [rig EXCEPT !.quiet = 0]
     \/ Glitch /\ Fails
     \/ Glitch /\ UNCHANGED rig
  /\ UNCHANGED <<core, sram, walk, nand, stalled>>

HearNothing ==
  /\ At("listen") /\ link = <<>>
  /\ Clean /\ Quiet
  /\ UNCHANGED target

\* wait_core_parked: the status word of the debug block.
AwaitPark ==
  /\ At("poll")
  /\ \/ /\ Clean
        /\ CASE core.state = "parked" -> Goes(AfterRun)
             [] core.state = "fault"  -> Fails
             [] OTHER                 -> Quiet
     \/ Glitch /\ Fails
  /\ UNCHANGED target

\* The probe's mailbox: without an ONFI page no kernel is assembled. The ID word
\* goes into the kernel as it was found.
ReadGeometry ==
  /\ rig.pc = "peek" /\ Given
  /\ \/ /\ Clean /\ "page" \in sram.probe
        /\ rig' = [rig EXCEPT !.stage = "kernel", !.pc = IF Brom THEN "load" ELSE "halt"]
        /\ expect' = IF "id" \in sram.probe THEN "own" ELSE "junk"
     \/ /\ \/ Clean /\ "page" \notin sram.probe
           \/ Glitch
        /\ Fails /\ UNCHANGED expect
  /\ UNCHANGED target

\* The kernel's mailbox, up to its summary.
Readback ==
  /\ At("readback")
  /\ \/ /\ Clean
        /\ IF sram.done THEN rig' = [rig EXCEPT !.pc = "prove", !.records = sram.records] ELSE Fails
     \/ Glitch /\ Fails
  /\ UNCHANGED target

\* BlockStats::complete counts leaves; it does not look which block they name.
Counted(status) == Cardinality({i \in DOMAIN rig.records : rig.records[i].status = status})
Complete ==
  Counted("erased") + Counted("skipped") + Counted("failed") + NumBlocks * Counted("die")
    = NumBlocks * NumDies

\* The proof is written and read back.
Prove ==
  /\ At("prove")
  /\ \/ Clean /\ IF Complete THEN rig' = [rig EXCEPT !.pc = "end", !.exit = "proof"] ELSE Fails
     \/ Glitch /\ Fails
  /\ UNCHANGED target

----------------------------------------------------------------------------
(* The NAND and the walk over it *)

Here == <<walk.die, walk.block>>
EffectiveVerify ==
  IF board.scenario = "DebugLockdown" /\ NumDies * NumBlocks > 64 THEN "Off" ELSE verify

\* stride_for: pages between two that are read back.
Stride == IF EffectiveVerify = "Full" \/ NumPages = 1 THEN 1 ELSE NumPages \div 2
Sampled == {p \in Pages : p % Stride = 0}

EraseAccepted(c) == nand[c].refuses = 0
EraseBlock(c) ==
  nand' = IF EraseAccepted(c) THEN [nand EXCEPT ![c].dirty = nand[c].sticky]
          ELSE IF nand[c].refuses < Stuck THEN [nand EXCEPT ![c].refuses = @ - 1]
          ELSE nand

\* A die's ID is noted where its leaf puts it: behind the die's last block.
IdOf(d) == <<d, NumBlocks>>
Stalls == Glitch /\ stalled' = stalled \cup {Here}
Runs   == Clean /\ UNCHANGED stalled

NextDie ==
  [Start EXCEPT !.die = walk.die + 1, !.at = IF walk.die + 1 < NumDies THEN "die" ELSE "summary"]
NextBlock ==
  IF walk.block + 1 < NumBlocks
  THEN [Start EXCEPT !.die = walk.die, !.block = walk.block + 1, !.at = "marker"]
  ELSE NextDie

BlockLeaf(status, nonzero) ==
  [die |-> walk.die, block |-> walk.block, status |-> status, nonzero |-> nonzero]

Dirt == IF walk.page \in nand[Here].dirty THEN 1 ELSE 0
LastPage == walk.page + Stride >= NumPages

----------------------------------------------------------------------------
(* The core *)

Running(image) == core.state = "running" /\ core.image = image /\ Fixed /\ UNCHANGED rig
Kernel(at) == Running("kernel") /\ walk.at = at

\* The probe does not look at the ready line: after a wait that timed out the ID
\* word, the ONFI page or both are junk, and a junk page is one the rig can tell.
ProbeRuns ==
  /\ Running("probe")
  /\ \E right \in SUBSET {"id", "page"} :
       /\ IF right = {"id", "page"} THEN Clean ELSE Glitch
       /\ sram' = [sram EXCEPT !.probe = right]
  /\ link' = Append(link, "DONE")
  /\ core' = [core EXCEPT !.state = "parked"]
  /\ UNCHANGED <<walk, nand, stalled>>

\* A record goes where the last one ended, over the probe's words first. A
\* mailbox that runs off the SRAM is a bus fault.
Record(leaf, next) ==
  IF Len(sram.records) < board.room
  THEN /\ sram' = [sram EXCEPT !.records = Append(@, leaf), !.probe = {}]
       /\ walk' = next
       /\ link' = IF leaf.status = "erased" THEN Append(link, "PROGRESS") ELSE link
       /\ UNCHANGED core
  ELSE /\ core' = [core EXCEPT !.state = "fault"]
       /\ UNCHANGED <<sram, walk, link>>

Walks(next) == walk' = next /\ UNCHANGED <<sram, link, core>>

\* The nonzero word of a block that was not read back is what the row address
\* left in its register: the number of the block.
Erased(nonzero) == BlockLeaf("erased", IF EffectiveVerify = "Off" THEN walk.block ELSE nonzero)

DieLeaf == [die |-> walk.die, block |-> NumBlocks, status |-> "die", nonzero |-> 0]

\* RESET and one READ ID, with no look at what the wait for the ready line came
\* to and no second try. Junk is not die 0's ID, but may be the junk that is
\* expected, or the ID of an odd die.
Garbles == Glitch /\ stalled' = stalled \cup {IdOf(walk.die)}
SelectDie ==
  /\ Kernel("die")
  /\ \E fits \in BOOLEAN :
       /\ \/ Runs /\ (walk.die \notin board.odd => (fits <=> expect = "own"))
          \/ Garbles /\ (fits => expect = "junk")
       /\ expect = "own" /\ walk.die \in board.odd => ~fits
       /\ IF fits THEN Walks([walk EXCEPT !.at = "marker"]) ELSE Record(DieLeaf, NextDie)
  /\ UNCHANGED nand

ReadMarker ==
  /\ Kernel("marker")
  /\ \/ /\ Runs
        /\ IF nand[Here].marked THEN Record(BlockLeaf("skipped", 0), NextBlock)
           ELSE Walks([walk EXCEPT !.at = "erase"])
     \/ Stalls /\ Record(BlockLeaf("failed", 0), NextBlock)
  /\ UNCHANGED nand

TryAgain ==
  IF walk.tries + 1 < 3 THEN Walks([walk EXCEPT !.tries = @ + 1])
  ELSE Record(BlockLeaf("failed", 0), NextBlock)

FailBitIgnored(c) == FALSE
FailBit(c) == ~EraseAccepted(c)

Erase ==
  /\ Kernel("erase")
  /\ \/ /\ Runs /\ EraseBlock(Here)
        /\ IF FailBit(Here) THEN TryAgain
           ELSE IF EffectiveVerify = "Off" THEN Record(Erased(0), NextBlock)
           ELSE Walks([walk EXCEPT !.at = "verify", !.tries = 0])
     \/ Stalls /\ (EraseBlock(Here) \/ UNCHANGED nand) /\ TryAgain

VerifyPage ==
  /\ Kernel("verify")
  /\ \/ /\ Runs
        /\ IF LastPage THEN Record(Erased(walk.nonzero + Dirt), NextBlock)
           ELSE Walks([walk EXCEPT !.page = @ + Stride, !.nonzero = @ + Dirt])
     \/ Stalls /\ Record(BlockLeaf("failed", 0), NextBlock)
  /\ UNCHANGED nand

\* The summary is in the mailbox before anybody can learn that it is.
Summary ==
  /\ Kernel("summary") /\ Runs
  /\ IF Len(sram.records) < board.room
     THEN /\ sram' = [sram EXCEPT !.done = TRUE]
          /\ link' = Append(link, "DONE")
          /\ core' = [core EXCEPT !.state = "parked"]
     ELSE core' = [core EXCEPT !.state = "fault"] /\ UNCHANGED <<sram, link>>
  /\ UNCHANGED <<walk, nand>>

----------------------------------------------------------------------------
(* The pins: the rig walks the blocks itself, one boundary shift at a time *)

Pins(at) == At("pins") /\ walk.at = at /\ UNCHANGED <<link, core, sram>>

\* The chain is scanned once more before the takeover.
TakePins ==
  /\ At("extest")
  /\ \/ Clean /\ Goes("pins") /\ walk' = Start
     \/ Glitch /\ Fails /\ UNCHANGED walk
  /\ UNCHANGED <<link, core, sram, nand, stalled>>

PinRecord(leaf) ==
  /\ walk' = NextBlock
  /\ rig' = [rig EXCEPT !.records = Append(@, leaf), !.pc = IF NextBlock.at = "summary" THEN "prove" ELSE @]
PinWalks(next) == walk' = next /\ UNCHANGED rig

PinDie ==
  /\ Pins("die") /\ Runs
  /\ PinWalks([walk EXCEPT !.at = "marker"])
  /\ UNCHANGED nand

\* Here a marker that could not be read counts as one that is set.
PinMarker ==
  /\ Pins("marker")
  /\ \/ /\ Runs
        /\ IF nand[Here].marked THEN PinRecord(BlockLeaf("skipped", 0))
           ELSE PinWalks([walk EXCEPT !.at = "erase"])
     \/ Stalls /\ PinRecord(BlockLeaf("skipped", 0))
  /\ UNCHANGED nand

PinTryAgain ==
  IF walk.tries + 1 < 3 THEN PinWalks([walk EXCEPT !.tries = @ + 1])
  ELSE PinRecord(BlockLeaf("failed", 0))

PinErase ==
  /\ Pins("erase")
  /\ \/ /\ Runs /\ EraseBlock(Here)
        /\ IF ~EraseAccepted(Here) THEN PinTryAgain
           ELSE IF EffectiveVerify = "Off" THEN PinRecord(BlockLeaf("erased", 0))
           ELSE PinWalks([walk EXCEPT !.at = "verify", !.tries = 0])
     \/ Stalls /\ (EraseBlock(Here) \/ UNCHANGED nand) /\ PinTryAgain

\* A page that could not be read adds u32::MAX to the count, which takes one
\* off again when the count was not 0: 2^32 is written Wrap.
Wrap == 2 * NumPages
PinPage ==
  /\ Pins("verify")
  /\ \E count \in {walk.nonzero + Dirt, walk.nonzero + Wrap - 1} :
       /\ IF count = walk.nonzero + Dirt THEN Runs ELSE Stalls
       /\ IF LastPage THEN PinRecord(BlockLeaf("erased", count % Wrap))
          ELSE PinWalks([walk EXCEPT !.page = @ + Stride, !.nonzero = count % Wrap])
  /\ UNCHANGED nand

----------------------------------------------------------------------------
Rig ==
  \/ ScanUart \/ Triage \/ Open \/ Announce \/ SendChunk \/ Jump
  \/ HaltCore \/ WriteSram \/ JumpCore
  \/ Hear \/ HearNothing \/ AwaitPark \/ ReadGeometry \/ Readback \/ Prove
  \/ TakePins \/ PinDie \/ PinMarker \/ PinErase \/ PinPage
Core ==
  \/ ProbeRuns \/ SelectDie \/ ReadMarker \/ Erase \/ VerifyPage \/ Summary

Next == Rig \/ Core
Spec == Init /\ [][Next]_vars

\* The rig is one thread that every call returns to, and the core runs until it
\* parks or faults: neither waits for the other.
LiveSpec == Spec /\ WF_vars(Rig) /\ WF_vars(Core)

----------------------------------------------------------------------------
(* Properties *)

\* Types of the rig's, the core's and the mailbox's state: no counter passes
\* its limit, and no walk leaves the geometry.
TypeOK ==
  /\ rig.tries \in 0 .. NakLimit - 1 /\ rig.sent \in 0 .. NumChunks /\ rig.quiet \in 0 .. MaxQuiet
  /\ rig.class \in {"none", "A", "B", "C", "D"} /\ rig.exit \in {"none", "error", "proof"}
  /\ rig.stage \in {"probe", "kernel"} /\ rig.records \in Seq(Leaf)
  /\ core.state \in {"off", "running", "parked", "halted", "fault"}
  /\ core.image \in {"none", "probe", "kernel"}
  /\ sram.got \in 0 .. NumChunks /\ sram.records \in Seq(Leaf) /\ Len(sram.records) <= board.room
  /\ walk.die \in 0 .. NumDies /\ walk.block \in 0 .. NumBlocks - 1
  /\ walk.tries \in 0 .. 2 /\ walk.page \in Pages
  /\ link \in Seq({"PROGRESS", "DONE"})
  /\ \A c \in Cells : nand[c].refuses \in 0 .. Stuck /\ nand[c].dirty \subseteq Pages
  /\ stalled \subseteq Cells \cup {IdOf(d) : d \in Dies} /\ glitches \in 0 .. MaxGlitches

\* The core never runs an image of which a chunk is missing or damaged, and the
\* rig takes no mailbox for the kernel's before the kernel has finished it,
\* though the probe's words lie where its first records go.
OnlyWholeImagesRun ==
  /\ core.state = "running" => sram.image = core.image /\ sram.got = NumChunks
  /\ rig.pc = "readback" => core.state = "parked" /\ core.image = "kernel" /\ sram.done

\* Leaves of the proof that account for block c.
Covers(r, c) == r.die = c[1] /\ (r.block = c[2] \/ r.status = "die")

\* Why a die may have been passed over.
Unfit(d) == d \in board.odd \/ IdOf(d) \in stalled \/ expect # "own"

\* What a leaf says of its block is so, as far as the code looks: an erased
\* block took the erase and, unless its ready line stalled, no page that was
\* read back holds data when the leaf counts none; a skipped one is as it was
\* found; a failed one refused three times. "die" says that no block of the die
\* was touched, and no more: its ID is another, or was misread, or the ID it was
\* held against had been.
LeafIsTrue(r, c) ==
  LET b == nand[c] IN
    /\ r.status = "erased" =>
         /\ b.dirty = b.sticky
         /\ r.nonzero = 0 /\ EffectiveVerify # "Off" /\ c \notin stalled => b.dirty \cap Sampled = {}
    /\ r.status = "skipped" => b.dirty = Pages /\ (b.marked \/ c \in stalled)
    /\ r.status = "failed"  => b.refuses = Stuck \/ c \in stalled
    /\ r.status = "die"     => b.dirty = Pages /\ Unfit(c[1])

\* A proof accounts for every block of every die exactly once, and truthfully,
\* whatever was lost, retried or refused on the way.
ProofIsTruthful ==
  rig.exit = "proof" =>
    \A c \in Cells :
      \E i \in DOMAIN rig.records :
        /\ LeafIsTrue(rig.records[i], c)
        /\ \A j \in DOMAIN rig.records : Covers(rig.records[j], c) <=> j = i

\* A block the kernel had nothing against has been erased.
Attended(c) ==
  \/ nand[c].dirty = nand[c].sticky
  \/ nand[c].marked \/ nand[c].refuses = Stuck \/ Unfit(c[1]) \/ c \in stalled

\* A mission ends, with or without a proof; and a kernel that was released
\* finishes the drive although the rig may have given up on it ("operator may
\* disconnect"), unless it runs out of memory for its records.
MissionSettles ==
  /\ <>(rig.pc = "end")
  /\ (core.state = "running" /\ core.image = "kernel")
       ~> (core.state = "fault" \/ \A c \in Cells : Attended(c))
=============================================================================
