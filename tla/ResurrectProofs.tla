-------------------------- MODULE ResurrectProofs --------------------------
(***************************************************************************)
(* Proofs about Resurrect for every board, geometry and bound: the type     *)
(* invariant, that the core only ever runs whole images and a mailbox is    *)
(* only read when the kernel has finished it, and that a proof of erasure   *)
(* accounts for every block of every die exactly once and truthfully.       *)
(***************************************************************************)
EXTENDS Resurrect, TLAPS

Phases == {"scan", "triage", "open", "load", "chunk", "jump", "halt", "listen",
           "poll", "peek", "readback", "prove", "extest", "pins", "end"}
Images == {"none", "probe", "kernel"}

Sents  == 0 .. NumChunks - 1
Tries  == 0 .. NakLimit - 1
Quiets == 0 .. MaxQuiet

RigType  == [pc : Phases, bench : BOOLEAN, heard : BOOLEAN,
             class : {"none", "A", "B", "C", "D"}, stage : {"probe", "kernel"},
             sent : Sents, tries : Tries, quiet : Quiets,
             records : Seq(Leaf), exit : {"none", "error", "proof"}]
CoreType == [state : {"off", "running", "parked", "halted", "fault"}, image : Images]
SramType == [image : Images, got : Nat, probe : SUBSET {"id", "page"},
             records : Seq(Leaf), done : BOOLEAN]
WalkType == [die : 0 .. NumDies, block : 0 .. NumBlocks - 1,
             at : {"die", "marker", "erase", "verify", "summary"},
             tries : 0 .. 2, page : Pages, nonzero : Nat]

(* TypeOK says only what is worth checking; a walk that is not over stands on *)
(* a die, and the mailbox fits.                                               *)
BoardTyped ==
  /\ board \in [scenario : Scenarios, odd : SUBSET Dies, room : Nat] /\ verify \in Modes
  /\ expect \in {"none", "own", "junk"}
RigTyped   == rig \in RigType
CoreTyped  == core \in CoreType /\ link \in Seq({"PROGRESS", "DONE"})
SramTyped  == sram \in SramType /\ Len(sram.records) <= board.room
WalkTyped  == walk \in WalkType /\ (walk.at # "summary" => walk.die < NumDies)
Spoilt     == Cells \cup {IdOf(d) : d \in Dies}
NandTyped  == nand \in [Cells -> Block] /\ stalled \subseteq Spoilt /\ glitches \in 0 .. MaxGlitches

Typed ==
  /\ BoardTyped /\ RigTyped /\ CoreTyped /\ SramTyped /\ WalkTyped /\ NandTyped

----------------------------------------------------------------------------
(* The geometry *)

LEMMA Positive ==
  /\ NumDies \in Nat \ {0} /\ NumBlocks \in Nat \ {0} /\ NumPages \in Nat \ {0}
  /\ NumChunks \in Nat \ {0} /\ NakLimit \in Nat \ {0}
  /\ MaxQuiet \in Nat /\ MaxGlitches \in Nat
BY Sizes

LEMMA Zeroes == 0 \in Sents /\ 0 \in Tries /\ 0 \in Quiets
BY Positive DEF Sents, Tries, Quiets

LEMMA StrideIsNat == Stride \in Nat
BY Positive DEF Stride

LEMMA WrapIsPositive == Wrap \in Nat \ {0} /\ (\A n \in Nat : n % Wrap \in Nat)
BY Positive DEF Wrap

LEMMA StartTyped == Start \in WalkType /\ Start.at # "summary" /\ Start.die < NumDies
BY Positive DEF Start, WalkType, Pages

LEMMA NextDieTyped ==
  ASSUME WalkTyped, walk.at # "summary"
  PROVE  NextDie \in WalkType /\ (NextDie.at # "summary" => NextDie.die < NumDies)
<1>1. walk.die \in Nat /\ walk.die + 1 \in 0 .. NumDies
  BY Positive DEF WalkTyped, WalkType
<1>2. CASE walk.die + 1 < NumDies
  <2>1. NextDie = [Start EXCEPT !.die = walk.die + 1, !.at = "die"]  BY <1>2 DEF NextDie
  <2> QED  BY <1>1, <1>2, <2>1, StartTyped DEF WalkType
<1>3. CASE ~(walk.die + 1 < NumDies)
  <2>1. NextDie = [Start EXCEPT !.die = walk.die + 1, !.at = "summary"]  BY <1>3 DEF NextDie
  <2> QED  BY <1>1, <2>1, StartTyped DEF WalkType
<1> QED  BY <1>2, <1>3

LEMMA NextBlockTyped ==
  ASSUME WalkTyped, walk.at # "summary"
  PROVE  NextBlock \in WalkType /\ (NextBlock.at # "summary" => NextBlock.die < NumDies)
<1>1. CASE walk.block + 1 < NumBlocks
  <2>1. NextBlock = [Start EXCEPT !.die = walk.die, !.block = walk.block + 1, !.at = "marker"]
    BY <1>1 DEF NextBlock
  <2>2. walk.die \in 0 .. NumDies /\ walk.die < NumDies /\ walk.block + 1 \in 0 .. NumBlocks - 1
    BY <1>1, Positive DEF WalkTyped, WalkType
  <2> QED  BY <2>1, <2>2, StartTyped DEF WalkType
<1>2. CASE ~(walk.block + 1 < NumBlocks)
  BY <1>2, NextDieTyped DEF NextBlock
<1> QED  BY <1>1, <1>2

LEMMA HereIsACell ==
  ASSUME WalkTyped, walk.at # "summary"
  PROVE  Here \in Cells
BY Positive DEF WalkTyped, WalkType, Here, Cells, Dies

LEMMA LeafTyped ==
  ASSUME WalkTyped, walk.at # "summary", NEW status \in Statuses, NEW n \in Nat
  PROVE  BlockLeaf(status, n) \in Leaf
BY Positive DEF WalkTyped, WalkType, BlockLeaf, Leaf, Dies

LEMMA VerifyTyped ==
  ASSUME WalkTyped
  PROVE  /\ [walk EXCEPT !.at = "verify", !.tries = 0] \in WalkType
         /\ [walk EXCEPT !.at = "verify", !.tries = 0].die = walk.die
<1>1. PICK u : u = [walk EXCEPT !.at = "verify"]  OBVIOUS
<1>2. u \in WalkType /\ u.die = walk.die  BY <1>1 DEF WalkTyped, WalkType
<1>3. [u EXCEPT !.tries = 0] \in WalkType /\ [u EXCEPT !.tries = 0].die = u.die
  BY <1>2 DEF WalkType
<1>4. [walk EXCEPT !.at = "verify", !.tries = 0] = [u EXCEPT !.tries = 0]  BY <1>1
<1> QED  BY <1>2, <1>3, <1>4

LEMMA EraseTyped ==
  ASSUME NandTyped, WalkTyped, walk.at # "summary", EraseBlock(Here)
  PROVE  nand' \in [Cells -> Block]
<1>1. Here \in Cells /\ nand[Here] \in Block  BY HereIsACell DEF NandTyped
<1>2. CASE EraseAccepted(Here)
  <2>1. [nand[Here] EXCEPT !.dirty = nand[Here].sticky] \in Block  BY <1>1 DEF Block
  <2> QED  BY <1>1, <1>2, <2>1 DEF EraseBlock, NandTyped
<1>3. CASE ~EraseAccepted(Here) /\ nand[Here].refuses < Stuck
  <2>1. [nand[Here] EXCEPT !.refuses = @ - 1] \in Block  BY <1>1, <1>3 DEF Block, EraseAccepted, Stuck
  <2> QED  BY <1>1, <1>3, <2>1 DEF EraseBlock, NandTyped
<1> QED  BY <1>1, <1>2, <1>3 DEF EraseBlock, NandTyped
----------------------------------------------------------------------------
(* Types are kept: what every helper of the actions leaves behind *)

LEMMA InitTyped == Init => Typed
<1> SUFFICES ASSUME Init PROVE Typed  OBVIOUS
<1>1. PICK b \in Boards :
        /\ board = [scenario |-> b.scenario, odd |-> b.odd, room |-> b.room]
        /\ nand = b.blocks
        /\ core = [state |-> IF b.scenario = "HardFaultLockup" THEN "halted" ELSE "off",
                   image |-> "none"]
  BY DEF Init
<1>2. b.scenario \in Scenarios /\ b.odd \subseteq Dies \ {0} /\ b.room \in Nat /\ b.blocks \in [Cells -> Block]
  BY Bench
<1>3. BoardTyped  BY <1>1, <1>2 DEF BoardTyped, Init
<1>4. RigTyped
  <2>1. <<>> \in Seq(Leaf)  OBVIOUS
  <2> QED  BY <2>1, Zeroes DEF RigTyped, RigType, Phases, Init
<1>5. CoreTyped  BY <1>1 DEF CoreTyped, CoreType, Images, Init
<1>6. SramTyped
  <2>1. <<>> \in Seq(Leaf) /\ Len(<<>>) = 0  OBVIOUS
  <2>2. board.room \in Nat  BY <1>1, <1>2
  <2> QED  BY <2>1, <2>2 DEF SramTyped, SramType, Images, Init
<1>7. WalkTyped  BY StartTyped DEF WalkTyped, Init
<1>8. NandTyped  BY <1>1, <1>2, Positive DEF NandTyped, Init
<1> QED  BY <1>3, <1>4, <1>5, <1>6, <1>7, <1>8 DEF Typed

LEMMA GlitchesTyped ==
  ASSUME NandTyped, Glitch \/ Clean
  PROVE  glitches' \in 0 .. MaxGlitches
BY Positive DEF NandTyped, Glitch, Clean

LEMMA StallsTyped ==
  ASSUME NandTyped, WalkTyped, walk.at # "summary", Stalls \/ Runs
  PROVE  stalled' \subseteq Spoilt /\ glitches' \in 0 .. MaxGlitches
BY Positive, HereIsACell, GlitchesTyped DEF NandTyped, Stalls, Runs, Spoilt

LEMMA GarblesTyped ==
  ASSUME NandTyped, WalkTyped, walk.at # "summary", Garbles
  PROVE  stalled' \subseteq Spoilt /\ glitches' \in 0 .. MaxGlitches
<1>1. walk.die \in Dies  BY Positive DEF WalkTyped, WalkType, Dies
<1> QED  BY <1>1, GlitchesTyped DEF NandTyped, Garbles, Spoilt

LEMMA GoesTyped ==
  ASSUME RigTyped, NEW pc \in Phases, Goes(pc)
  PROVE  RigTyped'
BY Zeroes DEF RigTyped, RigType, Goes

LEMMA FailsTyped ==
  ASSUME RigTyped, Fails
  PROVE  RigTyped'
BY DEF RigTyped, RigType, Fails, Phases

LEMMA SentTyped ==
  ASSUME RigTyped, Sent
  PROVE  RigTyped'
<1>1. CASE Loaded
  BY <1>1, GoesTyped DEF Sent, Phases
<1>2. CASE ~Loaded
  <2>1. rig.sent + 1 \in Sents  BY <1>2, Positive DEF Loaded, RigTyped, RigType, Sents
  <2> QED  BY <1>2, <2>1, Zeroes DEF Sent, RigTyped, RigType
<1> QED  BY <1>1, <1>2

LEMMA NakedTyped ==
  ASSUME RigTyped, Naked
  PROVE  RigTyped'
<1>1. CASE rig.tries + 1 >= NakLimit
  BY <1>1, FailsTyped DEF Naked
<1>2. CASE ~(rig.tries + 1 >= NakLimit)
  <2>1. rig.tries + 1 \in Tries  BY <1>2, Positive DEF RigTyped, RigType, Tries
  <2> QED  BY <1>2, <2>1 DEF Naked, RigTyped, RigType
<1> QED  BY <1>1, <1>2

LEMMA QuietTyped ==
  ASSUME RigTyped, Quiet
  PROVE  RigTyped'
<1>1. CASE rig.quiet + 1 > MaxQuiet
  BY <1>1, FailsTyped DEF Quiet
<1>2. CASE ~(rig.quiet + 1 > MaxQuiet)
  <2>1. rig.quiet + 1 \in Quiets  BY <1>2, Positive DEF RigTyped, RigType, Quiets
  <2> QED  BY <1>2, <2>1 DEF Quiet, RigTyped, RigType
<1> QED  BY <1>1, <1>2

LEMMA AfterRunIsAPhase == AfterRun \in {"peek", "readback"} /\ AfterRun \in Phases
BY DEF AfterRun, Phases

LEMMA StoresTyped ==
  ASSUME RigTyped, SramTyped, Stores, UNCHANGED board
  PROVE  SramTyped'
<1>1. rig.stage \in Images  BY DEF RigTyped, RigType, Images
<1> DEFINE n == IF sram.image = rig.stage THEN sram.got + 1 ELSE 1
<1>2. n \in Nat /\ sram' = [sram EXCEPT !.image = rig.stage, !.got = n]
  BY DEF Stores, SramTyped, SramType
<1> HIDE DEF n
<1>3. sram' \in SramType /\ sram'.records = sram.records  BY <1>1, <1>2 DEF SramTyped, SramType
<1> QED  BY <1>3 DEF SramTyped

LEMMA ReleaseTyped ==
  ASSUME CoreTyped, SramTyped, Release, UNCHANGED link
  PROVE  CoreTyped' /\ WalkTyped'
BY StartTyped DEF CoreTyped, CoreType, SramTyped, SramType, Release, WalkTyped

LEMMA WalksTyped ==
  ASSUME NEW next \in WalkType, next.at # "summary" => next.die < NumDies,
         CoreTyped, SramTyped, BoardTyped, UNCHANGED board, Walks(next)
  PROVE  CoreTyped' /\ SramTyped' /\ WalkTyped'
BY DEF Walks, CoreTyped, SramTyped, WalkTyped

LEMMA RecordTyped ==
  ASSUME NEW next \in WalkType, next.at # "summary" => next.die < NumDies, NEW leaf \in Leaf,
         CoreTyped, SramTyped, BoardTyped, WalkTyped, UNCHANGED board, Record(leaf, next)
  PROVE  CoreTyped' /\ SramTyped' /\ WalkTyped'
<1>1. CASE Len(sram.records) < board.room
  <2>1. /\ sram' = [sram EXCEPT !.records = Append(@, leaf), !.probe = {}]
        /\ walk' = next
        /\ link' = IF leaf.status = "erased" THEN Append(link, "PROGRESS") ELSE link
        /\ UNCHANGED core
    BY <1>1 DEF Record
  <2>2. /\ Append(sram.records, leaf) \in Seq(Leaf)
        /\ Len(Append(sram.records, leaf)) = Len(sram.records) + 1
        /\ Len(sram.records) \in Nat /\ board.room \in Nat
    BY DEF SramTyped, SramType, BoardTyped
  <2>3. SramTyped'
    <3>1. sram' \in SramType  BY <2>1, <2>2 DEF SramTyped, SramType
    <3>2. sram'.records = Append(sram.records, leaf)  BY <2>1 DEF SramTyped, SramType
    <3>3. Len(sram'.records) <= board.room  BY <1>1, <2>2, <3>2
    <3> QED  BY <3>1, <3>3 DEF SramTyped
  <2>4. CoreTyped'  BY <2>1 DEF CoreTyped
  <2>5. WalkTyped'  BY <2>1 DEF WalkTyped
  <2> QED  BY <2>3, <2>4, <2>5
<1>2. CASE ~(Len(sram.records) < board.room)
  BY <1>2 DEF Record, CoreTyped, CoreType, SramTyped, WalkTyped
<1> QED  BY <1>1, <1>2

LEMMA PinRecordTyped ==
  ASSUME NEW leaf \in Leaf, RigTyped, WalkTyped, walk.at # "summary", PinRecord(leaf)
  PROVE  RigTyped' /\ WalkTyped'
<1>1. NextBlock \in WalkType /\ (NextBlock.at # "summary" => NextBlock.die < NumDies)
  BY NextBlockTyped
<1>2. Append(rig.records, leaf) \in Seq(Leaf)  BY DEF RigTyped, RigType
<1>3. RigTyped'
  BY <1>2 DEF PinRecord, RigTyped, RigType, Phases
<1> QED  BY <1>1, <1>3 DEF PinRecord, WalkTyped

LEMMA PinWalksTyped ==
  ASSUME NEW next \in WalkType, next.at # "summary" => next.die < NumDies, RigTyped, PinWalks(next)
  PROVE  RigTyped' /\ WalkTyped'
BY DEF PinWalks, RigTyped, WalkTyped

----------------------------------------------------------------------------
(* Types are kept: one step per action *)

LEMMA RigTypesKept ==
  ASSUME Typed, Rig
  PROVE  Typed'
<1> USE DEF Typed
<1>0. BoardTyped'  BY DEF BoardTyped, Given, Rig, ScanUart, Triage, Open, Announce, SendChunk, Jump,
        HaltCore, WriteSram, JumpCore, Hear, HearNothing, AwaitPark, ReadGeometry, Readback,
        Prove, TakePins, PinDie, PinMarker, PinErase, PinPage, Pins, At, Fixed, Given
<1>b. UNCHANGED board
  BY DEF Rig, ScanUart, Triage, Open, Announce, SendChunk, Jump,
        HaltCore, WriteSram, JumpCore, Hear, HearNothing, AwaitPark, ReadGeometry, Readback,
        Prove, TakePins, PinDie, PinMarker, PinErase, PinPage, Pins, At, Fixed, Given
<1>t. ASSUME UNCHANGED target PROVE CoreTyped' /\ SramTyped' /\ WalkTyped'
  BY <1>t, <1>b DEF target, CoreTyped, SramTyped, WalkTyped
<1>n. ASSUME UNCHANGED <<nand, stalled>>, Glitch \/ Clean PROVE NandTyped'
  BY <1>n, GlitchesTyped DEF NandTyped
<1>tn. ASSUME UNCHANGED target PROVE UNCHANGED <<nand, stalled>>
  BY <1>tn DEF target
<1>1. CASE ScanUart
  <2>1. Glitch \/ Clean  BY <1>1 DEF ScanUart
  <2>2. RigTyped'  BY <1>1 DEF ScanUart, RigTyped, RigType, Phases, Shell
  <2> QED  BY <1>0, <1>1, <1>t, <1>n, <1>tn, <2>1, <2>2 DEF ScanUart
<1>2. CASE Triage
  <2>1. Glitch \/ Clean  BY <1>2 DEF Triage
  <2>2. RigTyped'
    <3>1. PICK swd \in BOOLEAN, tap \in BOOLEAN :
            IF Class(swd, tap) = "X" THEN Fails
            ELSE rig' = [rig EXCEPT !.pc = Route[Class(swd, tap)], !.class = Class(swd, tap)]
      BY <1>2 DEF Triage
    <3>2. CASE Class(swd, tap) = "X"  BY <3>1, <3>2, FailsTyped
    <3>3. CASE Class(swd, tap) # "X"
      <4>1. Class(swd, tap) \in {"A", "B", "C", "D"}  BY <3>3 DEF Class
      <4>2. Route[Class(swd, tap)] \in Phases  BY <4>1 DEF Route, Phases
      <4> QED  BY <3>1, <3>3, <4>1, <4>2 DEF RigTyped, RigType
    <3> QED  BY <3>2, <3>3
  <2> QED  BY <1>0, <1>2, <1>t, <1>n, <1>tn, <2>1, <2>2 DEF Triage
<1>3. CASE Open
  BY <1>0, <1>3, <1>t, <1>n, <1>tn, GoesTyped, FailsTyped DEF Open, Phases
<1>4. CASE Announce
  BY <1>0, <1>4, <1>t, <1>n, <1>tn, GoesTyped, FailsTyped DEF Announce, Phases
<1>5. CASE SendChunk
  <2>1. Glitch \/ Clean  BY <1>5 DEF SendChunk
  <2>2. RigTyped'  BY <1>5, SentTyped, NakedTyped, FailsTyped DEF SendChunk
  <2>3. SramTyped'
    <3>1. CASE Stores  BY <1>b, <3>1, StoresTyped
    <3>2. CASE UNCHANGED sram  BY <1>b, <3>2 DEF SramTyped
    <3> QED  BY <1>5, <3>1, <3>2 DEF SendChunk
  <2>4. CoreTyped' /\ WalkTyped'  BY <1>5 DEF SendChunk, CoreTyped, WalkTyped
  <2> QED  BY <1>0, <1>5, <1>n, <2>1, <2>2, <2>3, <2>4 DEF SendChunk
<1>6. CASE Jump
  <2>1. Glitch \/ Clean  BY <1>6 DEF Jump
  <2>2. RigTyped'  BY <1>6, GoesTyped, FailsTyped DEF Jump, Phases
  <2>3. CoreTyped' /\ WalkTyped'
    <3>1. CASE Release  BY <1>6, <3>1, ReleaseTyped DEF Jump
    <3>2. CASE UNCHANGED <<core, walk>>  BY <1>6, <3>2 DEF Jump, CoreTyped, WalkTyped
    <3> QED  BY <1>6, <3>1, <3>2 DEF Jump
  <2>4. SramTyped'  BY <1>6, <1>b DEF Jump, SramTyped
  <2> QED  BY <1>0, <1>6, <1>n, <2>1, <2>2, <2>3, <2>4 DEF Jump
<1>7. CASE HaltCore
  <2>1. Glitch \/ Clean  BY <1>7 DEF HaltCore
  <2>2. RigTyped'  BY <1>7, GoesTyped, FailsTyped DEF HaltCore, Phases
  <2>3. CoreTyped'  BY <1>7 DEF HaltCore, CoreTyped, CoreType
  <2>4. SramTyped' /\ WalkTyped'  BY <1>7, <1>b DEF HaltCore, SramTyped, WalkTyped
  <2> QED  BY <1>0, <1>7, <1>n, <2>1, <2>2, <2>3, <2>4 DEF HaltCore
<1>8. CASE WriteSram
  <2>1. Glitch \/ Clean  BY <1>8 DEF WriteSram
  <2>2. RigTyped'  BY <1>8, SentTyped, FailsTyped DEF WriteSram
  <2>3. SramTyped'
    <3>1. CASE Stores  BY <1>b, <3>1, StoresTyped
    <3>2. CASE UNCHANGED sram  BY <1>b, <3>2 DEF SramTyped
    <3> QED  BY <1>8, <3>1, <3>2 DEF WriteSram
  <2>4. CoreTyped' /\ WalkTyped'  BY <1>8 DEF WriteSram, CoreTyped, WalkTyped
  <2> QED  BY <1>0, <1>8, <1>n, <2>1, <2>2, <2>3, <2>4 DEF WriteSram
<1>9. CASE JumpCore
  <2>1. Glitch \/ Clean  BY <1>9 DEF JumpCore
  <2>2. RigTyped'  BY <1>9, GoesTyped, FailsTyped DEF JumpCore, Phases
  <2>3. CoreTyped' /\ WalkTyped'
    <3>1. CASE Release  BY <1>9, <3>1, ReleaseTyped DEF JumpCore
    <3>2. CASE UNCHANGED <<core, walk>>  BY <1>9, <3>2 DEF JumpCore, CoreTyped, WalkTyped
    <3> QED  BY <1>9, <3>1, <3>2 DEF JumpCore
  <2>4. SramTyped'  BY <1>9, <1>b DEF JumpCore, SramTyped
  <2> QED  BY <1>0, <1>9, <1>n, <2>1, <2>2, <2>3, <2>4 DEF JumpCore
<1>10. CASE Hear
  <2>1. Glitch \/ Clean  BY <1>10 DEF Hear
  <2>2. RigTyped'
    <3>1. CASE Goes(AfterRun)  BY <3>1, GoesTyped, AfterRunIsAPhase
    <3>2. CASE rig' = [rig EXCEPT !.quiet = 0]  BY <3>2, Zeroes DEF RigTyped, RigType
    <3>3. CASE Fails  BY <3>3, FailsTyped
    <3>4. CASE UNCHANGED rig  BY <3>4 DEF RigTyped
    <3> QED  BY <1>10, <3>1, <3>2, <3>3, <3>4 DEF Hear
  <2>3. CoreTyped'
    <3>1. link # <<>> /\ link' = Tail(link) /\ UNCHANGED core  BY <1>10 DEF Hear
    <3>2. link' \in Seq({"PROGRESS", "DONE"})  BY <3>1 DEF CoreTyped
    <3> QED  BY <3>1, <3>2 DEF CoreTyped
  <2>4. SramTyped' /\ WalkTyped'  BY <1>10, <1>b DEF Hear, SramTyped, WalkTyped
  <2> QED  BY <1>0, <1>10, <1>n, <2>1, <2>2, <2>3, <2>4 DEF Hear
<1>11. CASE HearNothing
  BY <1>0, <1>11, <1>t, <1>n, <1>tn, QuietTyped DEF HearNothing
<1>12. CASE AwaitPark
  <2>1. Glitch \/ Clean  BY <1>12 DEF AwaitPark
  <2>2. Goes(AfterRun) \/ Fails \/ Quiet  BY <1>12 DEF AwaitPark
  <2>3. RigTyped'  BY <2>2, GoesTyped, FailsTyped, QuietTyped, AfterRunIsAPhase
  <2> QED  BY <1>0, <1>12, <1>t, <1>n, <1>tn, <2>1, <2>3 DEF AwaitPark
<1>13. CASE ReadGeometry
  <2>1. Glitch \/ Clean  BY <1>13 DEF ReadGeometry
  <2>2. CASE Fails
    BY <1>0, <1>13, <1>t, <1>n, <1>tn, <2>1, <2>2, FailsTyped DEF ReadGeometry
  <2>3. CASE rig' = [rig EXCEPT !.stage = "kernel", !.pc = IF Brom THEN "load" ELSE "halt"]
    <3>1. RigTyped'  BY <2>3 DEF RigTyped, RigType, Phases
    <3> QED  BY <1>0, <1>13, <1>t, <1>n, <1>tn, <2>1, <3>1 DEF ReadGeometry
  <2> QED  BY <1>13, <2>2, <2>3 DEF ReadGeometry
<1>14. CASE Readback
  <2>1. Glitch \/ Clean  BY <1>14 DEF Readback
  <2>2. CASE Fails
    BY <1>0, <1>14, <1>t, <1>n, <1>tn, <2>1, <2>2, FailsTyped DEF Readback
  <2>3. CASE rig' = [rig EXCEPT !.pc = "prove", !.records = sram.records]
    <3>1. RigTyped'  BY <2>3 DEF RigTyped, RigType, Phases, SramTyped, SramType
    <3> QED  BY <1>0, <1>14, <1>t, <1>n, <1>tn, <2>1, <3>1 DEF Readback
  <2> QED  BY <1>14, <2>2, <2>3 DEF Readback
<1>15. CASE Prove
  <2>1. Glitch \/ Clean  BY <1>15 DEF Prove
  <2>2. CASE Fails
    BY <1>0, <1>15, <1>t, <1>n, <1>tn, <2>1, <2>2, FailsTyped DEF Prove
  <2>3. CASE rig' = [rig EXCEPT !.pc = "end", !.exit = "proof"]
    <3>1. RigTyped'  BY <2>3 DEF RigTyped, RigType, Phases
    <3> QED  BY <1>0, <1>15, <1>t, <1>n, <1>tn, <2>1, <3>1 DEF Prove
  <2> QED  BY <1>15, <2>2, <2>3 DEF Prove
<1>16. CASE TakePins
  <2>1. Glitch \/ Clean  BY <1>16 DEF TakePins
  <2>2. RigTyped'  BY <1>16, GoesTyped, FailsTyped DEF TakePins, Phases
  <2>3. WalkTyped'  BY <1>16, StartTyped DEF TakePins, WalkTyped
  <2>4. CoreTyped' /\ SramTyped'  BY <1>16, <1>b DEF TakePins, CoreTyped, SramTyped
  <2> QED  BY <1>0, <1>16, <1>n, <2>1, <2>2, <2>3, <2>4 DEF TakePins
<1>p. ASSUME NEW at, Pins(at) PROVE CoreTyped' /\ SramTyped'
  BY <1>p, <1>b DEF Pins, CoreTyped, SramTyped
<1>17. CASE PinDie
  <2>1. walk.at = "die" /\ Runs /\ UNCHANGED nand  BY <1>17 DEF PinDie, Pins
  <2>2. [walk EXCEPT !.at = "marker"] \in WalkType  BY DEF WalkTyped, WalkType
  <2>3. RigTyped' /\ WalkTyped'
    BY <1>17, <2>1, <2>2, PinWalksTyped DEF PinDie, WalkTyped, WalkType
  <2> QED  BY <1>0, <1>17, <1>p, <2>1, <2>3, StallsTyped DEF PinDie, NandTyped
<1>18. CASE PinMarker
  <2>1. walk.at = "marker" /\ (Stalls \/ Runs) /\ UNCHANGED nand  BY <1>18 DEF PinMarker, Pins
  <2>2. [walk EXCEPT !.at = "erase"] \in WalkType  BY DEF WalkTyped, WalkType
  <2>3. BlockLeaf("skipped", 0) \in Leaf  BY <2>1, LeafTyped DEF Statuses
  <2>4. CASE PinRecord(BlockLeaf("skipped", 0))
    BY <1>0, <1>18, <1>p, <2>1, <2>3, <2>4, PinRecordTyped, StallsTyped DEF PinMarker, NandTyped
  <2>5. CASE PinWalks([walk EXCEPT !.at = "erase"])
    <3>1. RigTyped' /\ WalkTyped'
      BY <2>1, <2>2, <2>5, PinWalksTyped DEF WalkTyped, WalkType
    <3> QED  BY <1>0, <1>18, <1>p, <2>1, <3>1, StallsTyped DEF PinMarker, NandTyped
  <2> QED  BY <1>18, <2>4, <2>5 DEF PinMarker
<1>19. CASE PinErase
  <2>1. walk.at = "erase" /\ (Stalls \/ Runs)  BY <1>19 DEF PinErase, Pins
  <2>2. NandTyped'
    <3>1. nand' \in [Cells -> Block]
      <4>1. CASE EraseBlock(Here)  BY <2>1, <4>1, EraseTyped
      <4>2. CASE UNCHANGED nand  BY <4>2 DEF NandTyped
      <4> QED  BY <1>19, <4>1, <4>2 DEF PinErase
    <3> QED  BY <2>1, <3>1, StallsTyped DEF NandTyped
  <2>3. ASSUME NEW status \in Statuses, PinRecord(BlockLeaf(status, 0)) PROVE RigTyped' /\ WalkTyped'
    BY <2>1, <2>3, LeafTyped, PinRecordTyped
  <2>4. CASE PinTryAgain
    <3>1. CASE walk.tries + 1 < 3
      <4>1. [walk EXCEPT !.tries = @ + 1] \in WalkType  BY <3>1 DEF WalkTyped, WalkType
      <4>2. RigTyped' /\ WalkTyped'
        BY <2>1, <2>4, <3>1, <4>1, PinWalksTyped DEF PinTryAgain, WalkTyped, WalkType
      <4> QED  BY <1>0, <1>19, <1>p, <2>2, <4>2 DEF PinErase
    <3>2. CASE ~(walk.tries + 1 < 3)
      BY <1>0, <1>19, <1>p, <2>2, <2>3, <2>4, <3>2 DEF PinErase, PinTryAgain, Statuses
    <3> QED  BY <3>1, <3>2
  <2>5. CASE PinRecord(BlockLeaf("erased", 0))
    BY <1>0, <1>19, <1>p, <2>2, <2>3, <2>5 DEF PinErase, Statuses
  <2>6. CASE PinWalks([walk EXCEPT !.at = "verify", !.tries = 0])
    <3>0. walk \in WalkType /\ walk.die < NumDies  BY <2>1 DEF WalkTyped
    <3>1. /\ [walk EXCEPT !.at = "verify", !.tries = 0] \in WalkType
          /\ [walk EXCEPT !.at = "verify", !.tries = 0].die = walk.die
      BY VerifyTyped
    <3>2. RigTyped' /\ WalkTyped'
      BY <2>6, <3>0, <3>1, PinWalksTyped
    <3> QED  BY <1>0, <1>19, <1>p, <2>2, <3>2 DEF PinErase
  <2> QED  BY <1>19, <2>4, <2>5, <2>6 DEF PinErase
<1>20. CASE PinPage
  <2>1. walk.at = "verify" /\ UNCHANGED nand  BY <1>20 DEF PinPage, Pins
  <2>2. PICK count \in {walk.nonzero + Dirt, walk.nonzero + Wrap - 1} :
          /\ Stalls \/ Runs
          /\ IF LastPage THEN PinRecord(BlockLeaf("erased", count % Wrap))
             ELSE PinWalks([walk EXCEPT !.page = @ + Stride, !.nonzero = count % Wrap])
    BY <1>20 DEF PinPage
  <2>3. count % Wrap \in Nat
    <3>1. count \in Nat  BY <2>2, WrapIsPositive DEF WalkTyped, WalkType, Dirt
    <3> QED  BY <3>1, WrapIsPositive
  <2>4. CASE LastPage
    <3>1. BlockLeaf("erased", count % Wrap) \in Leaf  BY <2>1, <2>3, LeafTyped DEF Statuses
    <3>2. RigTyped' /\ WalkTyped'  BY <2>1, <2>2, <2>4, <3>1, PinRecordTyped
    <3> QED  BY <1>0, <1>20, <1>p, <2>1, <2>2, <3>2, StallsTyped DEF PinPage, NandTyped
  <2>5. CASE ~LastPage
    <3>1. walk.page + Stride \in Pages  BY <2>5, StrideIsNat, Positive DEF LastPage, WalkTyped, WalkType, Pages
    <3>2. [walk EXCEPT !.page = @ + Stride, !.nonzero = count % Wrap] \in WalkType
      BY <2>3, <3>1 DEF WalkTyped, WalkType
    <3>3. RigTyped' /\ WalkTyped'
      BY <2>1, <2>2, <2>5, <3>2, PinWalksTyped DEF WalkTyped, WalkType
    <3> QED  BY <1>0, <1>20, <1>p, <2>1, <2>2, <3>3, StallsTyped DEF PinPage, NandTyped
  <2> QED  BY <2>4, <2>5
<1> QED  BY <1>1, <1>2, <1>3, <1>4, <1>5, <1>6, <1>7, <1>8, <1>9, <1>10, <1>11, <1>12, <1>13,
            <1>14, <1>15, <1>16, <1>17, <1>18, <1>19, <1>20 DEF Rig

LEMMA CoreTypesKept ==
  ASSUME Typed, Core
  PROVE  Typed'
<1> USE DEF Typed
<1>b. UNCHANGED <<board, verify, expect, rig>>
  BY DEF Core, ProbeRuns, SelectDie, ReadMarker, Erase, VerifyPage, Summary, Kernel, Running, Fixed, Given
<1>0. BoardTyped' /\ RigTyped'  BY <1>b DEF BoardTyped, RigTyped
<1>r. ASSUME NEW status \in Statuses, NEW n \in Nat, walk.at # "summary",
             Record(BlockLeaf(status, n), NextBlock)
      PROVE  CoreTyped' /\ SramTyped' /\ WalkTyped'
  <2>1. BlockLeaf(status, n) \in Leaf  BY <1>r, LeafTyped
  <2> QED  BY <1>b, <1>r, <2>1, RecordTyped, NextBlockTyped
<1>w. ASSUME NEW next \in WalkType, next.die < NumDies, Walks(next)
      PROVE  CoreTyped' /\ SramTyped' /\ WalkTyped'
  BY <1>b, <1>w, WalksTyped
<1>n. ASSUME walk.at # "summary", Stalls \/ Runs, UNCHANGED nand
      PROVE  NandTyped'
  BY <1>n, StallsTyped DEF NandTyped
<1>1. CASE ProbeRuns
  <2>1. (Glitch \/ Clean) /\ UNCHANGED <<walk, nand, stalled>>  BY <1>1 DEF ProbeRuns
  <2>2. SramTyped'
    <3>1. PICK w \in SUBSET {"id", "page"} : sram' = [sram EXCEPT !.probe = w]
      BY <1>1 DEF ProbeRuns
    <3> QED  BY <1>b, <3>1 DEF SramTyped, SramType
  <2>3. CoreTyped'
    <3>1. link' = Append(link, "DONE") /\ core' = [core EXCEPT !.state = "parked"]
      BY <1>1 DEF ProbeRuns
    <3> QED  BY <3>1 DEF CoreTyped, CoreType
  <2>4. WalkTyped' /\ NandTyped'  BY <2>1, GlitchesTyped DEF WalkTyped, NandTyped
  <2> QED  BY <1>0, <2>2, <2>3, <2>4
<1>2. CASE SelectDie
  <2>1. walk.at = "die" /\ (Runs \/ Garbles) /\ UNCHANGED nand  BY <1>2 DEF SelectDie, Kernel
  <2>n. NandTyped'  BY <2>1, <1>n, GarblesTyped DEF NandTyped
  <2>2. CASE Record(DieLeaf, NextDie)
    <3>1. DieLeaf \in Leaf
      BY <2>1, Positive DEF WalkTyped, WalkType, Leaf, Statuses, Dies, DieLeaf
    <3>2. CoreTyped' /\ SramTyped' /\ WalkTyped'
      BY <1>b, <2>1, <2>2, <3>1, RecordTyped, NextDieTyped
    <3> QED  BY <1>0, <2>n, <3>2
  <2>3. CASE Walks([walk EXCEPT !.at = "marker"])
    <3>1. [walk EXCEPT !.at = "marker"] \in WalkType /\ [walk EXCEPT !.at = "marker"].die < NumDies
      BY <2>1 DEF WalkTyped, WalkType
    <3> QED  BY <1>0, <1>w, <2>n, <2>3, <3>1
  <2> QED  BY <1>2, <2>2, <2>3 DEF SelectDie
<1>3. CASE ReadMarker
  <2>1. walk.at = "marker" /\ (Stalls \/ Runs) /\ UNCHANGED nand  BY <1>3 DEF ReadMarker, Kernel
  <2>2. CASE \E status \in Statuses : Record(BlockLeaf(status, 0), NextBlock)
    BY <1>0, <1>n, <1>r, <2>1, <2>2
  <2>3. CASE Walks([walk EXCEPT !.at = "erase"])
    <3>1. [walk EXCEPT !.at = "erase"] \in WalkType /\ [walk EXCEPT !.at = "erase"].die < NumDies
      BY <2>1 DEF WalkTyped, WalkType
    <3> QED  BY <1>0, <1>n, <1>w, <2>1, <2>3, <3>1
  <2> QED  BY <1>3, <2>2, <2>3 DEF ReadMarker, Statuses
<1>4. CASE Erase
  <2>1. walk.at = "erase" /\ (Stalls \/ Runs)  BY <1>4 DEF Erase, Kernel
  <2>2. NandTyped'
    <3>1. nand' \in [Cells -> Block]
      <4>1. CASE EraseBlock(Here)  BY <2>1, <4>1, EraseTyped
      <4>2. CASE UNCHANGED nand  BY <4>2 DEF NandTyped
      <4> QED  BY <1>4, <4>1, <4>2 DEF Erase
    <3> QED  BY <2>1, <3>1, StallsTyped DEF NandTyped
  <2>3. CASE TryAgain
    <3>1. CASE walk.tries + 1 < 3
      <4>1. /\ [walk EXCEPT !.tries = @ + 1] \in WalkType
            /\ [walk EXCEPT !.tries = @ + 1].die < NumDies
        BY <2>1, <3>1 DEF WalkTyped, WalkType
      <4> QED  BY <1>0, <1>w, <2>2, <2>3, <3>1, <4>1 DEF TryAgain
    <3>2. CASE ~(walk.tries + 1 < 3)
      BY <1>0, <1>r, <2>1, <2>2, <2>3, <3>2 DEF TryAgain, Statuses
    <3> QED  BY <3>1, <3>2
  <2>4. CASE Record(Erased(0), NextBlock)
    <3>1. PICK n \in Nat : Erased(0) = BlockLeaf("erased", n)
      BY Positive DEF Erased, WalkTyped, WalkType
    <3> QED  BY <1>0, <1>r, <2>1, <2>2, <2>4, <3>1 DEF Statuses
  <2>5. CASE Walks([walk EXCEPT !.at = "verify", !.tries = 0])
    <3>0. walk \in WalkType /\ walk.die < NumDies  BY <2>1 DEF WalkTyped
    <3>1. /\ [walk EXCEPT !.at = "verify", !.tries = 0] \in WalkType
          /\ [walk EXCEPT !.at = "verify", !.tries = 0].die = walk.die
      BY VerifyTyped
    <3> QED  BY <1>0, <1>w, <2>2, <2>5, <3>0, <3>1
  <2> QED  BY <1>4, <2>3, <2>4, <2>5 DEF Erase
<1>5. CASE VerifyPage
  <2>1. walk.at = "verify" /\ (Stalls \/ Runs) /\ UNCHANGED nand  BY <1>5 DEF VerifyPage, Kernel
  <2>n. walk.nonzero + Dirt \in Nat  BY DEF WalkTyped, WalkType, Dirt
  <2>2. CASE Record(Erased(walk.nonzero + Dirt), NextBlock)
    <3>1. PICK n \in Nat : Erased(walk.nonzero + Dirt) = BlockLeaf("erased", n)
      BY <2>n, Positive DEF Erased, WalkTyped, WalkType
    <3> QED  BY <1>0, <1>n, <1>r, <2>1, <2>2, <3>1 DEF Statuses
  <2>3. CASE Record(BlockLeaf("failed", 0), NextBlock)
    BY <1>0, <1>n, <1>r, <2>1, <2>3 DEF Statuses
  <2>4. CASE ~LastPage /\ Walks([walk EXCEPT !.page = @ + Stride, !.nonzero = @ + Dirt])
    <3>1. walk.page + Stride \in Pages
      BY <2>4, StrideIsNat, Positive DEF LastPage, WalkTyped, WalkType, Pages
    <3>2. /\ [walk EXCEPT !.page = @ + Stride, !.nonzero = @ + Dirt] \in WalkType
          /\ [walk EXCEPT !.page = @ + Stride, !.nonzero = @ + Dirt].die < NumDies
      BY <2>1, <2>n, <3>1 DEF WalkTyped, WalkType
    <3> QED  BY <1>0, <1>n, <1>w, <2>1, <2>4, <3>2
  <2> QED  BY <1>5, <2>2, <2>3, <2>4 DEF VerifyPage
<1>6. CASE Summary
  <2>1. Runs /\ UNCHANGED <<walk, nand>>  BY <1>6 DEF Summary
  <2>2. WalkTyped' /\ NandTyped'  BY <2>1, GlitchesTyped DEF Runs, WalkTyped, NandTyped
  <2>3. SramTyped'  BY <1>6, <1>b DEF Summary, SramTyped, SramType
  <2>4. CoreTyped'
    <3>1. link' = link \/ link' = Append(link, "DONE")  BY <1>6 DEF Summary
    <3>2. \E st \in {"parked", "fault"} : core' = [core EXCEPT !.state = st]  BY <1>6 DEF Summary
    <3> QED  BY <3>1, <3>2 DEF CoreTyped, CoreType
  <2> QED  BY <1>0, <2>2, <2>3, <2>4
<1> QED  BY <1>1, <1>2, <1>3, <1>4, <1>5, <1>6 DEF Core

LEMMA TypesKept == Typed /\ [Next]_vars => Typed'
<1> SUFFICES ASSUME Typed, [Next]_vars PROVE Typed'  OBVIOUS
<1>1. CASE Rig  BY <1>1, RigTypesKept
<1>2. CASE Core  BY <1>2, CoreTypesKept
<1>3. CASE UNCHANGED vars
  BY <1>3 DEF vars, Typed, BoardTyped, RigTyped, CoreTyped, SramTyped, WalkTyped, NandTyped
<1> QED  BY <1>1, <1>2, <1>3 DEF Next

\* Every counter, program counter and record of the mission keeps its type,
\* whatever the board and the geometry (pipeline.rs, run).
THEOREM TypesHold == Spec => []Typed
BY InitTyped, TypesKept, PTL DEF Spec

----------------------------------------------------------------------------
(* Whole images *)

Parked(image) == core.state = "parked" /\ core.image = image /\ sram.image = image

\* The core runs only while the rig waits for it, or has given up on it.
WaitedFor ==
  core.state = "running" =>
    rig.pc \in {"listen", "poll", "end"} /\ sram.image = core.image /\ sram.got = NumChunks

\* While the rig waits, the core has been released on the image of the stage.
ReleasedOn ==
  rig.pc \in {"listen", "poll"} =>
    core.image = rig.stage /\ sram.image = rig.stage /\ core.state \in {"running", "parked", "fault"}

\* Before a download the SRAM holds no image, or the one before; during it, as
\* many chunks as the rig has had acknowledged; after it, all.
Downloaded ==
  /\ rig.pc \in {"scan", "triage", "open", "load", "halt"} => sram.image # rig.stage
  /\ rig.pc = "chunk" =>
       IF rig.sent = 0 THEN sram.image # rig.stage ELSE sram.image = rig.stage /\ sram.got = rig.sent
  /\ rig.pc = "jump" => sram.image = rig.stage /\ sram.got = NumChunks
  /\ sram.got \in 0 .. NumChunks

\* A mailbox is read when the core has parked in the image of the stage, and a
\* kernel parks behind its summary.
ParkedFirst ==
  /\ rig.pc = "peek" => rig.stage = "probe" /\ Parked("probe")
  /\ rig.pc = "readback" => rig.stage = "kernel" /\ Parked("kernel")
  /\ core.state = "parked" /\ core.image = "kernel" => sram.done

\* DONE is the last heartbeat of an image that has parked, and none is left
\* over for the next image.
DoneIsLast ==
  /\ rig.pc = "listen" =>
       \A i \in 1 .. Len(link) : link[i] = "DONE" => i = Len(link) /\ core.state = "parked"
  /\ rig.pc \in {"scan", "triage", "open", "load"} => link = <<>>
  /\ rig.pc \in {"halt", "chunk", "jump", "peek"} /\ Brom => link = <<>>
  /\ rig.pc = "poll" => ~Brom

Whole == WaitedFor /\ ReleasedOn /\ Downloaded /\ ParkedFirst /\ DoneIsLast

LEMMA InitWhole == Init => Whole
<1> SUFFICES ASSUME Init PROVE Whole  OBVIOUS
<1>1. /\ rig.pc = "scan" /\ rig.stage = "probe" /\ link = <<>>
      /\ sram.image = "none" /\ sram.got = 0
      /\ core.state \in {"off", "halted"} /\ core.image = "none"
  BY DEF Init
<1> QED  BY <1>1, Positive DEF Whole, WaitedFor, ReleasedOn, Downloaded, ParkedFirst, DoneIsLast

LEMMA GoesFields ==
  ASSUME RigTyped, NEW pc, Goes(pc)
  PROVE  /\ rig'.pc = pc /\ rig'.stage = rig.stage /\ rig'.sent = 0
         /\ rig'.class = rig.class /\ (Brom' <=> Brom)
BY DEF RigTyped, RigType, Goes, Brom

LEMMA FailsEnds ==
  ASSUME RigTyped, Fails
  PROVE  rig'.pc = "end"
BY DEF RigTyped, RigType, Fails

\* A mission that is over asks nothing more of the wire or of the download.
LEMMA OverIsWhole ==
  ASSUME rig'.pc = "end", sram'.got \in 0 .. NumChunks,
         core'.state = "running" => sram'.image = core'.image /\ sram'.got = NumChunks,
         core'.state = "parked" /\ core'.image = "kernel" => sram'.done
  PROVE  Whole'
BY DEF Whole, WaitedFor, ReleasedOn, Downloaded, ParkedFirst, DoneIsLast

\* A failure that leaves the target alone, and one while the core is not running.
LEMMA FailureIsWhole ==
  ASSUME Typed, Whole, Fails, UNCHANGED <<core, sram>>
  PROVE  Whole'
BY FailsEnds, OverIsWhole DEF Typed, Whole, WaitedFor, Downloaded, ParkedFirst

LEMMA StoreCounts ==
  ASSUME Typed, Whole, rig.pc = "chunk", Stores
  PROVE  /\ sram'.image = rig.stage /\ sram'.got = rig.sent + 1 /\ sram'.done = sram.done
         /\ sram'.got \in 0 .. NumChunks
<1>1. rig.sent \in 0 .. NumChunks - 1  BY DEF Typed, RigTyped, RigType, Sents
<1>2. /\ sram'.image = rig.stage /\ sram'.done = sram.done
      /\ sram'.got = IF sram.image = rig.stage THEN sram.got + 1 ELSE 1
  BY DEF Stores, Typed, SramTyped, SramType
<1>3. sram'.got = rig.sent + 1
  BY <1>1, <1>2 DEF Whole, Downloaded
<1> QED  BY <1>1, <1>2, <1>3, Positive

LEMMA ChunkIsWhole ==
  ASSUME Typed, Whole, rig.pc = "chunk", Stores, UNCHANGED <<link, core>>, Sent \/ Fails
  PROVE  Whole'
<1>1. core.state # "running"  BY DEF Whole, WaitedFor
<1>2. CASE Fails
  BY <1>1, <1>2, StoreCounts, FailsEnds, OverIsWhole DEF Typed, Whole, ParkedFirst
<1>3. CASE Sent
  <2>1. rig.sent \in 0 .. NumChunks - 1  BY DEF Typed, RigTyped, RigType, Sents
  <2>2. CASE Loaded
    <3>1. rig'.pc = "jump" /\ rig'.stage = rig.stage /\ (Brom' <=> Brom)
      BY <1>3, <2>2, GoesFields DEF Sent, Typed
    <3>2. sram'.got = NumChunks  BY <2>2, StoreCounts DEF Loaded
    <3> QED
      BY <1>1, <3>1, <3>2, StoreCounts
      DEF Whole, WaitedFor, ReleasedOn, Downloaded, ParkedFirst, DoneIsLast
  <2>3. CASE ~Loaded
    <3>1. /\ rig'.pc = "chunk" /\ rig'.stage = rig.stage /\ rig'.sent = rig.sent + 1
          /\ (Brom' <=> Brom)
      BY <1>3, <2>3 DEF Sent, Typed, RigTyped, RigType, Brom
    <3>2. rig'.sent # 0  BY <2>1, <3>1
    <3> QED
      BY <1>1, <3>1, <3>2, StoreCounts
      DEF Whole, WaitedFor, ReleasedOn, Downloaded, ParkedFirst, DoneIsLast
  <2> QED  BY <2>2, <2>3
<1> QED  BY <1>2, <1>3

\* A counter of the rig moves and nothing else.
LEMMA CountingIsWhole ==
  ASSUME Typed, Whole, UNCHANGED <<core, sram, link>>,
         rig'.pc = rig.pc, rig'.stage = rig.stage, rig'.sent = rig.sent, rig'.class = rig.class
  PROVE  Whole'
BY DEF Whole, WaitedFor, ReleasedOn, Downloaded, ParkedFirst, DoneIsLast, Parked, Brom

LEMMA QuietIsWhole ==
  ASSUME Typed, Whole, UNCHANGED <<core, sram, link>>, Quiet
  PROVE  Whole'
<1>1. CASE rig.quiet + 1 > MaxQuiet  BY <1>1, FailureIsWhole DEF Quiet
<1>2. CASE ~(rig.quiet + 1 > MaxQuiet)
  <2>1. /\ rig'.pc = rig.pc /\ rig'.stage = rig.stage /\ rig'.sent = rig.sent
        /\ rig'.class = rig.class
    BY <1>2 DEF Quiet, Typed, RigTyped, RigType
  <2> QED  BY <2>1, CountingIsWhole
<1> QED  BY <1>1, <1>2

\* The walk of the pins does not concern the core.
LEMMA PinsAreWhole ==
  ASSUME Typed, Whole, UNCHANGED <<core, sram, link>>, rig.pc \in {"pins", "extest"},
         rig'.pc \in {"pins", "prove"}
  PROVE  Whole'
BY DEF Whole, WaitedFor, ReleasedOn, Downloaded, ParkedFirst, DoneIsLast

LEMMA RigKeepsWhole ==
  ASSUME Typed, Whole, Rig
  PROVE  Whole'
<1>f. ASSUME Fails, UNCHANGED target PROVE Whole'
  BY <1>f, FailureIsWhole DEF target
<1>1. CASE ScanUart
  <2>1. /\ rig.pc = "scan" /\ rig'.pc = "triage" /\ rig'.stage = rig.stage
        /\ UNCHANGED <<core, sram, link>>
    BY <1>1 DEF ScanUart, At, target, Typed, RigTyped, RigType
  <2> QED  BY <2>1 DEF Whole, WaitedFor, ReleasedOn, Downloaded, ParkedFirst, DoneIsLast
<1>2. CASE Triage
  <2>1. rig.pc = "triage" /\ UNCHANGED target  BY <1>2 DEF Triage, At
  <2>2. CASE Fails  BY <1>f, <2>1, <2>2
  <2>3. CASE ~Fails
    <3>1. PICK swd \in BOOLEAN, tap \in BOOLEAN :
            Class(swd, tap) # "X" /\ rig' = [rig EXCEPT !.pc = Route[Class(swd, tap)], !.class = Class(swd, tap)]
      BY <1>2, <2>3 DEF Triage
    <3>2. Class(swd, tap) \in {"A", "B", "C", "D"}  BY <3>1 DEF Class
    <3>3. Route[Class(swd, tap)] \in {"open", "halt", "extest"}  BY <3>2 DEF Route
    <3>4. rig'.pc \in {"open", "halt", "extest"} /\ rig'.stage = rig.stage
      BY <3>1, <3>3 DEF Typed, RigTyped, RigType
    <3> QED  BY <2>1, <3>4 DEF Whole, WaitedFor, ReleasedOn, Downloaded, ParkedFirst, DoneIsLast, target
  <2> QED  BY <2>2, <2>3
<1>3. CASE Open
  <2>1. rig.pc = "open" /\ UNCHANGED target  BY <1>3 DEF Open, At
  <2>2. CASE Goes("load")
    BY <2>1, <2>2, GoesFields DEF Typed, target, Whole, WaitedFor, ReleasedOn, Downloaded, ParkedFirst, DoneIsLast
  <2> QED  BY <1>3, <1>f, <2>1, <2>2 DEF Open
<1>4. CASE Announce
  <2>1. rig.pc = "load" /\ UNCHANGED target  BY <1>4 DEF Announce, At
  <2>2. CASE Goes("chunk")
    BY <2>1, <2>2, GoesFields DEF Typed, target, Whole, WaitedFor, ReleasedOn, Downloaded, ParkedFirst, DoneIsLast
  <2> QED  BY <1>4, <1>f, <2>1, <2>2 DEF Announce
<1>5. CASE SendChunk
  <2>1. rig.pc = "chunk" /\ UNCHANGED <<link, core>>  BY <1>5 DEF SendChunk, At
  <2>2. CASE Stores /\ (Sent \/ Fails)  BY <2>1, <2>2, ChunkIsWhole
  <2>3. CASE Fails /\ UNCHANGED sram  BY <2>1, <2>3, FailureIsWhole
  <2>4. CASE Naked /\ UNCHANGED sram
    <3>1. CASE rig.tries + 1 >= NakLimit  BY <2>1, <2>4, <3>1, FailureIsWhole DEF Naked
    <3>2. CASE ~(rig.tries + 1 >= NakLimit)
      <4>1. /\ rig'.pc = rig.pc /\ rig'.stage = rig.stage /\ rig'.sent = rig.sent
            /\ rig'.class = rig.class
        BY <2>4, <3>2 DEF Naked, Typed, RigTyped, RigType
      <4> QED  BY <2>1, <2>4, <4>1, CountingIsWhole
    <3> QED  BY <3>1, <3>2
  <2> QED  BY <1>5, <2>2, <2>3, <2>4 DEF SendChunk
<1>6. CASE Jump
  <2>1. rig.pc = "jump" /\ Brom /\ UNCHANGED <<link, sram>>  BY <1>6 DEF Jump, At
  <2>2. sram.image = rig.stage /\ sram.got = NumChunks /\ link = <<>>
    BY <2>1 DEF Whole, Downloaded, DoneIsLast
  <2>3. CASE Release /\ (Goes("listen") \/ Fails)
    <3>1. core'.state = "running" /\ core'.image = sram.image  BY <2>3 DEF Release
    <3>2. CASE Goes("listen")
      <4>1. Len(link') = 0  BY <2>1, <2>2
      <4> QED
        BY <2>1, <2>2, <3>1, <3>2, <4>1, GoesFields DEF Typed, Whole, WaitedFor, ReleasedOn, Downloaded, ParkedFirst, DoneIsLast
    <3>3. CASE Fails
      BY <2>1, <2>2, <3>1, <3>3, FailsEnds, OverIsWhole DEF Typed, Whole, Downloaded
    <3> QED  BY <2>3, <3>2, <3>3
  <2>4. CASE UNCHANGED <<core, walk>> /\ Fails  BY <2>1, <2>4, FailureIsWhole
  <2> QED  BY <1>6, <2>3, <2>4 DEF Jump
<1>7. CASE HaltCore
  <2>1. rig.pc = "halt" /\ UNCHANGED <<link, sram>>  BY <1>7 DEF HaltCore, At
  <2>2. CASE Goes("chunk") /\ core' = [core EXCEPT !.state = "halted"]
    <3>1. core'.state = "halted"  BY <2>2 DEF Typed, CoreTyped, CoreType
    <3> QED  BY <2>1, <2>2, <3>1, GoesFields DEF Typed, Whole, WaitedFor, ReleasedOn, Downloaded, ParkedFirst, DoneIsLast
  <2>3. CASE Fails /\ UNCHANGED core  BY <2>1, <2>3, FailureIsWhole
  <2> QED  BY <1>7, <2>2, <2>3 DEF HaltCore
<1>8. CASE WriteSram
  <2>1. rig.pc = "chunk" /\ UNCHANGED <<link, core>>  BY <1>8 DEF WriteSram, At
  <2>2. CASE Stores /\ Sent  BY <2>1, <2>2, ChunkIsWhole
  <2>3. CASE Fails /\ UNCHANGED sram  BY <2>1, <2>3, FailureIsWhole
  <2> QED  BY <1>8, <2>2, <2>3 DEF WriteSram
<1>9. CASE JumpCore
  <2>1. rig.pc = "jump" /\ ~Brom /\ UNCHANGED <<link, sram>>  BY <1>9 DEF JumpCore, At
  <2>2. sram.image = rig.stage /\ sram.got = NumChunks  BY <2>1 DEF Whole, Downloaded
  <2>3. CASE Release /\ Goes("poll")
    <3>1. core'.state = "running" /\ core'.image = sram.image  BY <2>3 DEF Release
    <3> QED
      BY <2>1, <2>2, <2>3, <3>1, GoesFields DEF Typed, Whole, WaitedFor, ReleasedOn, Downloaded, ParkedFirst, DoneIsLast
  <2>4. CASE Fails /\ UNCHANGED <<core, walk>>  BY <2>1, <2>4, FailureIsWhole
  <2> QED  BY <1>9, <2>3, <2>4 DEF JumpCore
<1>a. ASSUME rig.pc \in {"listen", "poll"}, core.state = "parked", UNCHANGED <<core, sram>>,
             Goes(AfterRun), Brom => link' = <<>>
      PROVE  Whole'
  <2>1. /\ rig'.pc = AfterRun /\ rig'.stage = rig.stage /\ (Brom' <=> Brom)
    BY <1>a, GoesFields DEF Typed
  <2>2. core.image = rig.stage /\ sram.image = rig.stage  BY <1>a DEF Whole, ReleasedOn
  <2>3. rig.stage \in {"probe", "kernel"}  BY DEF Typed, RigTyped, RigType
  <2>4. sram.got \in 0 .. NumChunks /\ (core.image = "kernel" => sram.done)
    BY <1>a DEF Whole, Downloaded, ParkedFirst
  <2> QED
    BY <1>a, <2>1, <2>2, <2>3, <2>4
    DEF AfterRun, Whole, WaitedFor, ReleasedOn, Downloaded, ParkedFirst, DoneIsLast, Parked
<1>10. CASE Hear
  <2>1. /\ rig.pc = "listen" /\ link # <<>> /\ link' = Tail(link) /\ UNCHANGED <<core, sram>>
    BY <1>10 DEF Hear, At
  <2>2. /\ link \in Seq({"PROGRESS", "DONE"}) /\ Len(link) \in Nat \ {0} /\ Head(link) = link[1]
        /\ Len(link') = Len(link) - 1 /\ \A i \in 1 .. Len(link') : link'[i] = link[i + 1]
    BY <2>1 DEF Typed, CoreTyped
  <2>d. \A i \in 1 .. Len(link) : link[i] = "DONE" => i = Len(link) /\ core.state = "parked"
    BY <2>1 DEF Whole, DoneIsLast
  <2>3. \A i \in 1 .. Len(link') : link'[i] = "DONE" => i = Len(link') /\ core.state = "parked"
    <3> SUFFICES ASSUME NEW i \in 1 .. Len(link'), link'[i] = "DONE"
                 PROVE  i = Len(link') /\ core.state = "parked"
      OBVIOUS
    <3>1. i + 1 \in 1 .. Len(link) /\ link[i + 1] = "DONE"  BY <2>2
    <3> QED  BY <2>2, <2>d, <3>1
  <2>4. ASSUME rig'.pc = rig.pc, rig'.stage = rig.stage, rig'.class = rig.class
        PROVE  Whole'
    BY <2>1, <2>3, <2>4 DEF Whole, WaitedFor, ReleasedOn, Downloaded, ParkedFirst, DoneIsLast
  <2>5. CASE Head(link) = "DONE" /\ Goes(AfterRun)
    <3>1. Len(link) = 1 /\ core.state = "parked"  BY <2>2, <2>5, <2>d
    <3>2. link' = <<>>
      <4>1. link' \in Seq({"PROGRESS", "DONE"}) /\ Len(link') = 0  BY <2>1, <2>2, <3>1
      <4> QED  BY <4>1
    <3> QED  BY <1>a, <2>1, <2>5, <3>1, <3>2
  <2>6. CASE rig' = [rig EXCEPT !.quiet = 0]
    BY <2>4, <2>6 DEF Typed, RigTyped, RigType
  <2>7. CASE Fails  BY <2>1, <2>7, FailureIsWhole
  <2>8. CASE UNCHANGED rig  BY <2>4, <2>8
  <2> QED  BY <1>10, <2>5, <2>6, <2>7, <2>8 DEF Hear
<1>11. CASE HearNothing
  BY <1>11, QuietIsWhole DEF HearNothing, target
<1>12. CASE AwaitPark
  <2>1. rig.pc = "poll" /\ UNCHANGED <<core, sram, link>>  BY <1>12 DEF AwaitPark, At, target
  <2>2. CASE core.state = "parked" /\ Goes(AfterRun)
    BY <1>a, <2>1, <2>2 DEF Whole, DoneIsLast
  <2>3. CASE Fails  BY <2>1, <2>3, FailureIsWhole
  <2>4. CASE Quiet  BY <2>1, <2>4, QuietIsWhole
  <2> QED  BY <1>12, <2>2, <2>3, <2>4 DEF AwaitPark
<1>13. CASE ReadGeometry
  <2>1. rig.pc = "peek" /\ UNCHANGED target  BY <1>13 DEF ReadGeometry, At
  <2>2. CASE rig' = [rig EXCEPT !.stage = "kernel", !.pc = IF Brom THEN "load" ELSE "halt"]
    <3>1. /\ rig'.pc = IF Brom THEN "load" ELSE "halt"
          /\ rig'.stage = "kernel" /\ rig'.class = rig.class
      BY <2>2 DEF Typed, RigTyped, RigType
    <3>2. sram.image = "probe" /\ core.state = "parked" /\ (Brom => link = <<>>)
      BY <2>1 DEF Whole, ParkedFirst, Parked, DoneIsLast
    <3>3. Brom' <=> Brom  BY <3>1 DEF Brom
    <3> QED  BY <2>1, <3>1, <3>2, <3>3 DEF target, Whole, WaitedFor, ReleasedOn, Downloaded, ParkedFirst, DoneIsLast
  <2> QED  BY <1>13, <1>f, <2>1, <2>2 DEF ReadGeometry
<1>14. CASE Readback
  <2>1. rig.pc = "readback" /\ UNCHANGED target  BY <1>14 DEF Readback, At
  <2>2. CASE rig' = [rig EXCEPT !.pc = "prove", !.records = sram.records]
    <3>1. rig'.pc = "prove"  BY <2>2 DEF Typed, RigTyped, RigType
    <3> QED  BY <2>1, <3>1 DEF target, Whole, WaitedFor, ReleasedOn, Downloaded, ParkedFirst, DoneIsLast
  <2> QED  BY <1>14, <1>f, <2>1, <2>2 DEF Readback
<1>15. CASE Prove
  <2>1. UNCHANGED target /\ rig.pc = "prove"  BY <1>15 DEF Prove, At
  <2>2. CASE rig' = [rig EXCEPT !.pc = "end", !.exit = "proof"]
    <3>1. rig'.pc = "end"  BY <2>2 DEF Typed, RigTyped, RigType
    <3> QED  BY <2>1, <3>1, OverIsWhole DEF target, Whole, WaitedFor, Downloaded, ParkedFirst
  <2> QED  BY <1>15, <1>f, <2>1, <2>2 DEF Prove
<1>16. CASE TakePins
  <2>1. rig.pc = "extest" /\ UNCHANGED <<core, sram, link>>  BY <1>16 DEF TakePins, At
  <2>2. CASE Goes("pins")  BY <2>1, <2>2, GoesFields, PinsAreWhole DEF Typed
  <2>3. CASE Fails  BY <2>1, <2>3, FailureIsWhole
  <2> QED  BY <1>16, <2>2, <2>3 DEF TakePins
<1>p. ASSUME PinDie \/ PinMarker \/ PinErase \/ PinPage PROVE Whole'
  <2>1. rig.pc = "pins" /\ UNCHANGED <<core, sram, link>>
    BY <1>p DEF PinDie, PinMarker, PinErase, PinPage, Pins, At
  <2>2. CASE UNCHANGED rig  BY <2>1, <2>2, PinsAreWhole
  <2>3. ASSUME NEW leaf, PinRecord(leaf) PROVE Whole'
    <3>1. rig'.pc \in {"pins", "prove"}
      BY <2>1, <2>3 DEF PinRecord, Typed, RigTyped, RigType
    <3> QED  BY <2>1, <3>1, PinsAreWhole
  <2>4. UNCHANGED rig \/ \E leaf \in {BlockLeaf(st, n) : st \in Statuses, n \in Int} : PinRecord(leaf)
    <3>1. CASE PinDie  BY <3>1 DEF PinDie, PinWalks
    <3>2. CASE PinMarker  BY <3>2 DEF PinMarker, PinWalks, Statuses
    <3>3. CASE PinErase  BY <3>3 DEF PinErase, PinTryAgain, PinWalks, Statuses
    <3>4. CASE PinPage
      <4>1. \A count \in Nat : count % Wrap \in Int  BY WrapIsPositive
      <4>2. walk.nonzero + Dirt \in Nat /\ walk.nonzero + Wrap - 1 \in Nat
        BY WrapIsPositive DEF Typed, WalkTyped, WalkType, Dirt
      <4> QED  BY <3>4, <4>1, <4>2 DEF PinPage, PinWalks, Statuses
    <3> QED  BY <1>p, <3>1, <3>2, <3>3, <3>4
  <2> QED  BY <2>2, <2>3, <2>4
<1> QED  BY <1>1, <1>2, <1>3, <1>4, <1>5, <1>6, <1>7, <1>8, <1>9, <1>10, <1>11, <1>12, <1>13,
            <1>14, <1>15, <1>16, <1>p DEF Rig

\* A step of the core: it was running, so no DONE is on the link; it parks with
\* one, and with the mailbox complete.
LEMMA CoreKeepsWhole ==
  ASSUME Typed, Whole, Core
  PROVE  Whole'
<1> DEFINE Stepped ==
      /\ core'.image = core.image /\ core'.state \in {"running", "parked", "fault"}
      /\ sram'.image = sram.image /\ sram'.got = sram.got
      /\ core'.state = "parked" /\ core.image = "kernel" => sram'.done
      /\ \/ link' = link \/ link' = Append(link, "PROGRESS")
         \/ link' = Append(link, "DONE") /\ core'.state = "parked"
<1>1. core.state = "running" /\ UNCHANGED rig
  BY DEF Core, ProbeRuns, SelectDie, ReadMarker, Erase, VerifyPage, Summary, Kernel, Running
<1>2. ASSUME NEW next, Walks(next) PROVE Stepped
  BY <1>1, <1>2 DEF Walks
<1>3. ASSUME NEW leaf, NEW next, Record(leaf, next) PROVE Stepped
  <2>1. CASE Len(sram.records) < board.room
    BY <1>1, <1>3, <2>1 DEF Record, Typed, SramTyped, SramType
  <2>2. CASE ~(Len(sram.records) < board.room)
    BY <1>3, <2>2 DEF Record, Typed, CoreTyped, CoreType
  <2> QED  BY <2>1, <2>2
<1>4. Stepped
  <2>1. CASE ProbeRuns
    <3>1. core.image = "probe" /\ link' = Append(link, "DONE") /\ core' = [core EXCEPT !.state = "parked"]
      BY <2>1 DEF ProbeRuns, Running
    <3>2. sram'.image = sram.image /\ sram'.got = sram.got
      BY <2>1 DEF ProbeRuns, Typed, SramTyped, SramType
    <3> QED  BY <3>1, <3>2 DEF Typed, CoreTyped, CoreType
  <2>2. CASE SelectDie  BY <1>2, <1>3, <2>2 DEF SelectDie
  <2>3. CASE ReadMarker  BY <1>2, <1>3, <2>3 DEF ReadMarker
  <2>4. CASE Erase  BY <1>2, <1>3, <2>4 DEF Erase, TryAgain
  <2>5. CASE VerifyPage  BY <1>2, <1>3, <2>5 DEF VerifyPage
  <2>6. CASE Summary
    <3>1. CASE Len(sram.records) < board.room
      BY <2>6, <3>1 DEF Summary, Typed, CoreTyped, CoreType, SramTyped, SramType
    <3>2. CASE ~(Len(sram.records) < board.room)
      BY <2>6, <3>2 DEF Summary, Typed, CoreTyped, CoreType
    <3> QED  BY <3>1, <3>2
  <2> QED  BY <2>1, <2>2, <2>3, <2>4, <2>5, <2>6 DEF Core
<1>5. rig.pc \in {"listen", "poll", "end"} /\ sram.image = core.image /\ sram.got = NumChunks
  BY <1>1 DEF Whole, WaitedFor
<1>6. WaitedFor' /\ ReleasedOn' /\ ParkedFirst'
  BY <1>1, <1>4, <1>5 DEF Whole, WaitedFor, ReleasedOn, ParkedFirst
<1>7. Downloaded'
  BY <1>1, <1>4, <1>5 DEF Whole, Downloaded
<1>8. DoneIsLast'
  <2>1. link \in Seq({"PROGRESS", "DONE"}) /\ Len(link) \in Nat  BY DEF Typed, CoreTyped
  <2>2. rig.pc = "listen" => \A i \in 1 .. Len(link) : link[i] # "DONE"
    BY <1>1 DEF Whole, DoneIsLast
  <2>3. rig.pc = "listen" =>
          \A i \in 1 .. Len(link') : link'[i] = "DONE" => i = Len(link') /\ core'.state = "parked"
    <3>1. CASE link' = link  BY <2>2, <3>1
    <3>2. CASE link' = Append(link, "PROGRESS")  BY <2>1, <2>2, <3>2
    <3>3. CASE link' = Append(link, "DONE") /\ core'.state = "parked"  BY <2>1, <2>2, <3>3
    <3> QED  BY <1>4, <3>1, <3>2, <3>3
  <2> QED  BY <1>1, <1>5, <2>3 DEF Whole, DoneIsLast, Brom
<1> QED  BY <1>6, <1>7, <1>8 DEF Whole

LEMMA WholeKept == Typed /\ Whole /\ [Next]_vars => Whole'
<1> SUFFICES ASSUME Typed, Whole, [Next]_vars PROVE Whole'  OBVIOUS
<1>1. CASE Rig  BY <1>1, RigKeepsWhole
<1>2. CASE Core  BY <1>2, CoreKeepsWhole
<1>3. CASE UNCHANGED vars
  BY <1>3 DEF vars, Whole, WaitedFor, ReleasedOn, Downloaded, ParkedFirst, DoneIsLast, Parked, Brom
<1> QED  BY <1>1, <1>2, <1>3 DEF Next

\* The rig's wait, the release of the core, the download and the mailbox stay
\* in step over lost, repeated and refused chunks (pipeline.rs, run_via_brom and
\* run_via_swd).
THEOREM ImagesAreWhole == Spec => [](Typed /\ Whole)
BY InitTyped, InitWhole, TypesKept, WholeKept, PTL DEF Spec

----------------------------------------------------------------------------
(* What the runs check *)

\* No counter of the rig, the core or the walk leaves its range, whatever the
\* geometry, the patience and the faults (TypeOK of Resurrect).
THEOREM TypeCorrect == Spec => []TypeOK
<1>1. Typed /\ Whole => TypeOK
  <2> SUFFICES ASSUME Typed, Whole PROVE TypeOK  OBVIOUS
  <2>1. /\ rig.tries \in 0 .. NakLimit - 1 /\ rig.sent \in 0 .. NumChunks /\ rig.quiet \in 0 .. MaxQuiet
        /\ rig.class \in {"none", "A", "B", "C", "D"} /\ rig.exit \in {"none", "error", "proof"}
        /\ rig.stage \in {"probe", "kernel"} /\ rig.records \in Seq(Leaf)
    BY Positive DEF Typed, RigTyped, RigType, Sents, Tries, Quiets
  <2>2. /\ core.state \in {"off", "running", "parked", "halted", "fault"}
        /\ core.image \in {"none", "probe", "kernel"} /\ link \in Seq({"PROGRESS", "DONE"})
    BY DEF Typed, CoreTyped, CoreType, Images
  <2>3. sram.got \in 0 .. NumChunks /\ sram.records \in Seq(Leaf) /\ Len(sram.records) <= board.room
    BY DEF Typed, SramTyped, SramType, Whole, Downloaded
  <2>4. /\ walk.die \in 0 .. NumDies /\ walk.block \in 0 .. NumBlocks - 1
        /\ walk.tries \in 0 .. 2 /\ walk.page \in Pages
    BY DEF Typed, WalkTyped, WalkType
  <2>5. /\ \A c \in Cells : nand[c].refuses \in 0 .. Stuck /\ nand[c].dirty \subseteq Pages
        /\ stalled \subseteq Cells \cup {IdOf(d) : d \in Dies} /\ glitches \in 0 .. MaxGlitches
    BY DEF Typed, NandTyped, Block, Spoilt
  <2> QED  BY <2>1, <2>2, <2>3, <2>4, <2>5 DEF TypeOK
<1> QED  BY <1>1, ImagesAreWhole, PTL

\* The core runs whole images only and a mailbox is read for the kernel's only
\* when the kernel has parked behind its summary, over any number of chunks,
\* NAKs and lost replies (OnlyWholeImagesRun of Resurrect).
THEOREM WholeImages == Spec => []OnlyWholeImagesRun
<1>1. Typed /\ Whole => OnlyWholeImagesRun
  BY DEF Whole, WaitedFor, ParkedFirst, Parked, OnlyWholeImagesRun
<1> QED  BY <1>1, ImagesAreWhole, PTL

------------------------------------------------------------------------------
(* The ledger.  The walk over the blocks, the kernel's or the pins', keeps  *)
(* books: the blocks behind it are recorded once each and truthfully, and   *)
(* the ones before it are neither recorded nor touched.                     *)

(* Pages read back: stride after stride, none in between. *)

LEMMA Quotient ==
  ASSUME NEW S \in Nat \ {0}, NEW q \in Nat
  PROVE  q = S * (q \div S) + (q % S) /\ q \div S \in Nat /\ q % S \in 0 .. S - 1
OBVIOUS

LEMMA Multiples ==
  ASSUME NEW S \in Nat \ {0}, NEW a \in Nat, NEW b \in Nat
  PROVE  /\ S * a < S * b + S => a <= b
         /\ a <= b => S * a <= S * b
         /\ \A r \in 0 .. S - 1 : S * a = S * b + r => r = 0
<1>1. S * a < S * b + S => a <= b  OBVIOUS
<1>2. a <= b => S * a <= S * b  OBVIOUS
<1>3. ASSUME NEW r \in 0 .. S - 1, S * a = S * b + r PROVE r = 0
  <2>1. CASE a <= b
    <3>1. S * a <= S * b  BY <1>2, <2>1
    <3>2. S * a \in Int /\ S * b \in Int  OBVIOUS
    <3> QED  BY <1>3, <3>1, <3>2
  <2>2. CASE b < a
    <3>1. PICK d \in Nat : a = b + 1 + d  BY <2>2
    <3>2. S * a = S * b + S + S * d /\ S * d >= 0  BY <3>1
    <3>3. S * b \in Int /\ S * d \in Int  BY <3>1
    <3> QED  BY <1>3, <3>2, <3>3
  <2> QED  BY <2>1, <2>2
<1> QED  BY <1>1, <1>2, <1>3

LEMMA NextMultiple ==
  ASSUME NEW S \in Nat \ {0}, NEW q \in Nat, q % S = 0
  PROVE  (q + S) % S = 0
<1>1. q = S * (q \div S) /\ q \div S \in Nat  BY Quotient
<1>0. PICK b \in Nat : b = q + S  OBVIOUS
<1>2. /\ b = S * (b \div S) + (b % S)
      /\ b \div S \in Nat /\ b % S \in 0 .. S - 1
  BY Quotient
<1>3. PICK a \in Nat : a = q \div S + 1  BY <1>1
<1>4. S * a = S * (b \div S) + (b % S)
  <2>1. S * a = S * (q \div S) + S  BY <1>1, <1>3
  <2> QED  BY <2>1, <1>0, <1>1, <1>2
<1> QED  BY <1>0, <1>2, <1>4, Multiples

LEMMA NoneBetween ==
  ASSUME NEW S \in Nat \ {0}, NEW q \in Nat, NEW p \in Nat, q % S = 0, p % S = 0, p < q + S
  PROVE  p <= q
<1>1. q = S * (q \div S) /\ q \div S \in Nat /\ p = S * (p \div S) /\ p \div S \in Nat  BY Quotient
<1>2. p \div S <= q \div S  BY <1>1, Multiples
<1> QED  BY <1>1, <1>2, Multiples

LEMMA StrideIsPositive == Stride \in Nat \ {0}
BY Positive DEF Stride

----------------------------------------------------------------------------
(* The ledger *)

\* The walk has left block c behind.
Before(c) == c[1] < walk.die \/ (c[1] = walk.die /\ c[2] < walk.block)

Accounted(R, c) ==
  \E i \in DOMAIN R : LeafIsTrue(R[i], c) /\ \A j \in DOMAIN R : Covers(R[j], c) <=> j = i
Ledger(R) ==
  \A c \in Cells : IF Before(c) THEN Accounted(R, c) ELSE \A j \in DOMAIN R : ~Covers(R[j], c)

\* A block the walk has not come to erase holds what it held.
Fresh ==
  \A c \in Cells :
    ~Before(c) /\ (c = Here => walk.at \in {"die", "marker"}) => nand[c].dirty = Pages

AtStart ==
  /\ walk.at \in {"die", "summary"} => walk.block = 0
  /\ walk.at = "summary" => walk.die = NumDies
  /\ walk.at \in {"die", "marker"} => walk.tries = 0
  /\ walk.at \in {"die", "marker", "erase"} => walk.page = 0 /\ walk.nonzero = 0

\* A block that has refused so often without a stall is one that always does.
AtErase ==
  walk.at = "erase" /\ Here \notin stalled =>
    nand[Here].refuses = Stuck \/ nand[Here].refuses + walk.tries <= 2

AtVerify ==
  walk.at = "verify" =>
    /\ EffectiveVerify # "Off" /\ nand[Here].dirty = nand[Here].sticky
    /\ walk.page % Stride = 0
    /\ Here \notin stalled => walk.nonzero <= walk.page
    /\ Here \notin stalled /\ walk.nonzero = 0 =>
         \A p \in Sampled : p < walk.page => p \notin nand[Here].dirty

Walked == Fresh /\ AtStart /\ AtErase /\ AtVerify

\* Until the kernel is released, or the pins are taken, nobody has walked.
Unbegun ==
  \/ rig.pc \in {"scan", "triage", "open", "load", "chunk", "jump", "halt", "extest", "peek"}
  \/ rig.pc \in {"listen", "poll"} /\ rig.stage = "probe"
Unwalked ==
  /\ Unbegun => walk = Start /\ sram.records = <<>> /\ core.image # "kernel"
  /\ rig.pc \notin {"pins", "prove", "end"} => rig.records = <<>>
  /\ rig.pc = "pins" => core.image # "kernel"
  /\ sram.done => core.image = "kernel" /\ walk.at = "summary"

KernelsLedger == core.image = "kernel" => Ledger(sram.records)
PinsLedger    == rig.pc = "pins" => Ledger(rig.records)
ProofsLedger ==
  rig.pc = "prove" \/ rig.exit = "proof" =>
    /\ core.state # "running" /\ rig.pc \in {"prove", "end"}
    /\ \A c \in Cells : Accounted(rig.records, c)

Books == Walked /\ Unwalked /\ KernelsLedger /\ PinsLedger /\ ProofsLedger
----------------------------------------------------------------------------
(* A step of the walk leaves the other blocks alone *)

Elsewhere ==
  /\ UNCHANGED <<board, verify, expect>> /\ stalled \subseteq stalled'
  /\ \A c \in Cells : c # Here => nand'[c] = nand[c] /\ (c \in stalled' <=> c \in stalled)

\* The step stays on its block, or notes one leaf and goes on.
Stayed == Elsewhere /\ walk'.die = walk.die /\ walk'.block = walk.block /\ Walked'
Noted(leaf) ==
  /\ Elsewhere /\ Walked'
  /\ \A c \in Cells :
       /\ Before(c)' <=> Before(c) \/ Covers(leaf, c)
       /\ Before(c) => ~Covers(leaf, c)
       /\ Covers(leaf, c) => LeafIsTrue(leaf, c)'

\* How the pages are sampled depends on the board and the mission only.
LEMMA SameBench ==
  ASSUME UNCHANGED <<board, verify>>
  PROVE  EffectiveVerify' = EffectiveVerify /\ Stride' = Stride /\ Sampled' = Sampled
<1>1. EffectiveVerify' = EffectiveVerify  BY DEF EffectiveVerify
<1>2. Stride' = Stride  BY <1>1 DEF Stride
<1> QED  BY <1>1, <1>2 DEF Sampled

\* A leaf about a block that was left alone stays true.
LEMMA TruthKept ==
  ASSUME NEW r, NEW c \in Cells, UNCHANGED <<board, verify, expect>>, nand'[c] = nand[c],
         stalled \subseteq stalled', c \in stalled' <=> c \in stalled, LeafIsTrue(r, c)
  PROVE  LeafIsTrue(r, c)'
<1>1. Unfit(c[1]) => Unfit(c[1])'  BY DEF Unfit, IdOf
<1>2. EffectiveVerify' = EffectiveVerify /\ Sampled' = Sampled  BY SameBench
<1> QED  BY <1>1, <1>2 DEF LeafIsTrue

LEMMA BehindIsElsewhere ==
  ASSUME NEW c \in Cells, Before(c), WalkTyped
  PROVE  c # Here
BY DEF Before, Here, WalkTyped, WalkType, Cells, Dies

LEMMA AccountedKept ==
  ASSUME NEW R, NEW c \in Cells, UNCHANGED <<board, verify, expect>>, nand'[c] = nand[c],
         stalled \subseteq stalled', c \in stalled' <=> c \in stalled, Accounted(R, c)
  PROVE  Accounted(R, c)'
<1>1. PICK i \in DOMAIN R : LeafIsTrue(R[i], c) /\ \A j \in DOMAIN R : Covers(R[j], c) <=> j = i
  BY DEF Accounted
<1>2. LeafIsTrue(R[i], c)'
  <2>1. PICK r : r = R[i]  OBVIOUS
  <2> QED  BY <1>1, <2>1, TruthKept
<1> QED  BY <1>1, <1>2 DEF Accounted, Covers

\* A step that stays on its block leaves the ledger in order.
LEMMA LedgerStays ==
  ASSUME NEW R, Typed, Elsewhere, walk'.die = walk.die, walk'.block = walk.block, Ledger(R)
  PROVE  Ledger(R)'
<1> SUFFICES ASSUME NEW c \in Cells
             PROVE  IF Before(c)' THEN Accounted(R, c)' ELSE \A j \in DOMAIN R : ~Covers(R[j], c)'
  BY DEF Ledger
<1>1. Before(c)' <=> Before(c)  BY DEF Before
<1>2. CASE Before(c)
  <2>1. c # Here  BY <1>2, BehindIsElsewhere DEF Typed
  <2>2. Accounted(R, c)  BY <1>2 DEF Ledger
  <2> QED  BY <1>1, <1>2, <2>1, <2>2, AccountedKept DEF Elsewhere
<1>3. CASE ~Before(c)
  BY <1>1, <1>3 DEF Ledger, Covers
<1> QED  BY <1>2, <1>3

\* One leaf about what the walk leaves behind extends it.
LEMMA LedgerGrows ==
  ASSUME NEW R \in Seq(Leaf), NEW leaf \in Leaf, Typed, Noted(leaf), Ledger(R)
  PROVE  Ledger(Append(R, leaf))'
<1>1. PICK S : S = Append(R, leaf)  OBVIOUS
<1>2. /\ DOMAIN S = DOMAIN R \cup {Len(R) + 1} /\ Len(R) + 1 \notin DOMAIN R
      /\ S[Len(R) + 1] = leaf /\ \A i \in DOMAIN R : S[i] = R[i]
  BY <1>1
<1>3. ASSUME NEW c \in Cells
      PROVE  IF Before(c)' THEN Accounted(S, c)' ELSE \A j \in DOMAIN S : ~Covers(S[j], c)'
  <2>1. CASE Before(c)
    <3>1. c # Here  BY <2>1, BehindIsElsewhere DEF Typed
    <3>2. Accounted(R, c)'  BY <2>1, <3>1, AccountedKept DEF Ledger, Noted, Elsewhere
    <3>3. PICK i \in DOMAIN R : LeafIsTrue(R[i], c)' /\ \A j \in DOMAIN R : Covers(R[j], c)' <=> j = i
      BY <3>2 DEF Accounted
    <3>4. ~Covers(leaf, c)  BY <1>3, <2>1 DEF Noted
    <3>5. \A j \in DOMAIN S : Covers(S[j], c)' <=> j = i
      <4> TAKE j \in DOMAIN S
      <4>1. CASE j \in DOMAIN R  BY <1>2, <3>3, <4>1 DEF Covers
      <4>2. CASE j = Len(R) + 1  BY <1>2, <3>3, <3>4, <4>2 DEF Covers
      <4> QED  BY <1>2, <4>1, <4>2
    <3>6. LeafIsTrue(S[i], c)'
      <4>1. PICK r : r = R[i]  OBVIOUS
      <4>2. S[i] = r  BY <1>2, <4>1
      <4> QED  BY <3>3, <4>1, <4>2
    <3>7. Before(c)'  BY <1>3, <2>1 DEF Noted
    <3> QED  BY <1>2, <3>5, <3>6, <3>7 DEF Accounted
  <2>2. CASE ~Before(c)
    <3>1. \A j \in DOMAIN R : ~Covers(R[j], c)  BY <2>2 DEF Ledger
    <3>2. CASE Covers(leaf, c)
      <4>1. Before(c)' /\ LeafIsTrue(leaf, c)'  BY <1>3, <3>2 DEF Noted
      <4>2. \A j \in DOMAIN S : Covers(S[j], c)' <=> j = Len(R) + 1
        BY <1>2, <3>1, <3>2 DEF Covers
      <4>3. LeafIsTrue(S[Len(R) + 1], c)'  BY <1>2, <4>1
      <4> QED  BY <1>2, <4>1, <4>2, <4>3 DEF Accounted
    <3>3. CASE ~Covers(leaf, c)
      <4>1. ~Before(c)'  BY <1>3, <2>2, <3>3 DEF Noted
      <4> QED  BY <1>2, <3>1, <3>3, <4>1 DEF Covers
    <3> QED  BY <3>2, <3>3
  <2> QED  BY <2>1, <2>2
<1>4. Ledger(S)'  BY <1>3 DEF Ledger
<1> QED  BY <1>1, <1>4
----------------------------------------------------------------------------
(* Where the walk goes *)

LEMMA WalkFields ==
  ASSUME Typed
  PROVE  /\ walk.die \in 0 .. NumDies /\ walk.block \in 0 .. NumBlocks - 1 /\ walk.tries \in 0 .. 2
         /\ walk.page \in 0 .. NumPages - 1 /\ walk.nonzero \in Nat
         /\ walk.at \in {"die", "marker", "erase", "verify", "summary"}
         /\ walk.at # "summary" => walk.die < NumDies
BY DEF Typed, WalkTyped, WalkType, Pages

LEMMA NextDieFields ==
  ASSUME Typed, walk.at # "summary"
  PROVE  /\ NextDie.die = walk.die + 1 /\ NextDie.block = 0 /\ NextDie.tries = 0
         /\ NextDie.page = 0 /\ NextDie.nonzero = 0 /\ NextDie.at \in {"die", "summary"}
         /\ NextDie.at = "summary" => NextDie.die = NumDies
BY WalkFields, Positive DEF NextDie, Start

LEMMA NextBlockFields ==
  ASSUME Typed, walk.at # "summary"
  PROVE  /\ NextBlock.tries = 0 /\ NextBlock.page = 0 /\ NextBlock.nonzero = 0
         /\ NextBlock.at \in {"die", "marker", "summary"}
         /\ NextBlock.at \in {"die", "summary"} => NextBlock.block = 0
         /\ NextBlock.at = "summary" => NextBlock.die = NumDies
         /\ IF walk.block + 1 < NumBlocks
            THEN NextBlock.die = walk.die /\ NextBlock.block = walk.block + 1
            ELSE NextBlock.die = walk.die + 1 /\ NextBlock.block = 0
<1>1. CASE walk.block + 1 < NumBlocks
  BY <1>1, WalkFields, Positive DEF NextBlock, Start
<1>2. CASE ~(walk.block + 1 < NumBlocks)
  BY <1>2, NextDieFields DEF NextBlock
<1> QED  BY <1>1, <1>2

\* The next block is the one right behind this one, and the next die, from the
\* first block of a die, passes all of them.
LEMMA BeyondBlock ==
  ASSUME Typed, walk.at # "summary", walk' = NextBlock, NEW c \in Cells
  PROVE  Before(c)' <=> Before(c) \/ c = Here
<1>1. /\ c[1] \in 0 .. NumDies - 1 /\ c[2] \in 0 .. NumBlocks - 1
      /\ c = Here <=> c[1] = walk.die /\ c[2] = walk.block
  BY DEF Cells, Dies, Here
<1>2. Before(c)' <=> c[1] < NextBlock.die \/ (c[1] = NextBlock.die /\ c[2] < NextBlock.block)
  BY DEF Before
<1> QED  BY <1>1, <1>2, WalkFields, NextBlockFields, Positive DEF Before

LEMMA BeyondDie ==
  ASSUME Typed, walk.at # "summary", walk.block = 0, walk' = NextDie, NEW c \in Cells
  PROVE  Before(c)' <=> Before(c) \/ c[1] = walk.die
<1>1. c[1] \in 0 .. NumDies - 1 /\ c[2] \in 0 .. NumBlocks - 1  BY DEF Cells, Dies
<1>2. Before(c)' <=> c[1] < NextDie.die \/ (c[1] = NextDie.die /\ c[2] < NextDie.block)
  BY DEF Before
<1> QED  BY <1>1, <1>2, WalkFields, NextDieFields, Positive DEF Before

\* A walk that has gone on stands before a block nobody has touched.
LEMMA GoneOn ==
  ASSUME Typed, Walked, Elsewhere, walk.at # "summary",
         walk' = NextBlock \/ (walk' = NextDie /\ walk.at = "die")
  PROVE  Walked'
<1>1. /\ walk'.tries = 0 /\ walk'.page = 0 /\ walk'.nonzero = 0
      /\ walk'.at \in {"die", "marker", "summary"}
      /\ walk'.at \in {"die", "summary"} => walk'.block = 0
      /\ walk'.at = "summary" => walk'.die = NumDies
  BY NextBlockFields, NextDieFields
<1>2. ASSUME NEW c \in Cells, ~Before(c)' PROVE ~Before(c) /\ c # Here
  <2>1. CASE walk' = NextBlock  BY <1>2, <2>1, BeyondBlock
  <2>2. CASE walk' = NextDie /\ walk.at = "die"
    <3>1. walk.block = 0  BY <2>2 DEF Walked, AtStart
    <3>2. ~Before(c) /\ c[1] # walk.die  BY <1>2, <2>2, <3>1, BeyondDie
    <3> QED  BY <3>2 DEF Here
  <2> QED  BY <2>1, <2>2
<1>3. Fresh'
  <2> SUFFICES ASSUME NEW c \in Cells, ~Before(c)' PROVE nand'[c].dirty = Pages
    BY DEF Fresh
  <2>1. ~Before(c) /\ c # Here  BY <1>2
  <2>2. nand'[c] = nand[c] /\ nand[c].dirty = Pages  BY <2>1 DEF Elsewhere, Walked, Fresh
  <2> QED  BY <2>2
<1> QED  BY <1>1, <1>3 DEF Walked, AtStart, AtErase, AtVerify

\* A true leaf about the block of the walk is one to go on with.
LEMMA LeafHere ==
  ASSUME Typed, Walked, Elsewhere, walk.at # "summary", walk' = NextBlock,
         NEW leaf \in Leaf, leaf.die = walk.die, leaf.block = walk.block, leaf.status # "die",
         \A c \in Cells : c = Here => LeafIsTrue(leaf, c)'
  PROVE  Noted(leaf)
<1>1. Walked'  BY GoneOn
<1>2. ASSUME NEW c \in Cells
      PROVE  /\ Before(c)' <=> Before(c) \/ Covers(leaf, c)
             /\ Before(c) => ~Covers(leaf, c)
             /\ Covers(leaf, c) => LeafIsTrue(leaf, c)'
  <2>1. Covers(leaf, c) <=> c = Here
    BY DEF Covers, Here, Cells
  <2> QED  BY <2>1, BeyondBlock, BehindIsElsewhere DEF Typed
<1> QED  BY <1>1, <1>2 DEF Noted

\* One leaf stands for all blocks of a die whose ID was not the one expected.
LEMMA LeafOfDie ==
  ASSUME Typed, Walked, Elsewhere, walk.at = "die", walk' = NextDie, UNCHANGED nand,
         NEW d, d = walk.die, Unfit(d)', NEW leaf \in Leaf, leaf.die = d, leaf.status = "die"
  PROVE  Noted(leaf)
<1>1. Walked' /\ walk.block = 0  BY GoneOn DEF Walked, AtStart
<1>2. ASSUME NEW c \in Cells
      PROVE  /\ Before(c)' <=> Before(c) \/ Covers(leaf, c)
             /\ Before(c) => ~Covers(leaf, c)
             /\ Covers(leaf, c) => LeafIsTrue(leaf, c)'
  <2>1. Covers(leaf, c) <=> c[1] = walk.die  BY DEF Covers
  <2>2. c[2] \in 0 .. NumBlocks - 1 /\ c[1] \in 0 .. NumDies - 1  BY DEF Cells, Dies
  <2>3. Before(c) => c[1] # walk.die  BY <1>1, <2>2, WalkFields DEF Before
  <2>4. Covers(leaf, c) => nand[c].dirty = Pages  BY <2>1, <2>3 DEF Walked, Fresh
  <2>5. Covers(leaf, c) => LeafIsTrue(leaf, c)'
    <3>1. c[1] = d => Unfit(c[1])'  BY DEF Unfit, IdOf
    <3> QED  BY <2>1, <2>4, <3>1 DEF LeafIsTrue
  <2> QED  BY <1>1, <2>1, <2>3, <2>5, BeyondDie
<1> QED  BY <1>1, <1>2 DEF Noted
----------------------------------------------------------------------------
(* What a step of the walk does to its block *)

Waits == Runs \/ Stalls
Erasing == EraseBlock(Here) \/ UNCHANGED nand

LEMMA NeverBoth ==
  ASSUME Typed
  PROVE  ~(Runs /\ Stalls)
BY Positive DEF Typed, NandTyped, Runs, Stalls, Glitch, Clean

\* An accepted erase leaves the sticky pages, a refused one counts down.
LEMMA Erases ==
  ASSUME Typed, walk.at # "summary", EraseBlock(Here)
  PROVE  /\ \A c \in Cells : c # Here => nand'[c] = nand[c]
         /\ nand'[Here].sticky = nand[Here].sticky /\ nand'[Here].marked = nand[Here].marked
         /\ EraseAccepted(Here) =>
              nand[Here].refuses = 0 /\ nand'[Here].refuses = 0 /\ nand'[Here].dirty = nand[Here].sticky
         /\ ~EraseAccepted(Here) =>
              /\ nand[Here].refuses \in 1 .. Stuck /\ nand'[Here].dirty = nand[Here].dirty
              /\ nand'[Here].refuses =
                   IF nand[Here].refuses = Stuck THEN Stuck ELSE nand[Here].refuses - 1
<1>1. Here \in Cells /\ nand \in [Cells -> Block] /\ nand[Here] \in Block
  BY HereIsACell DEF Typed, NandTyped
<1>2. CASE EraseAccepted(Here)
  <2>1. nand' = [nand EXCEPT ![Here].dirty = nand[Here].sticky]  BY <1>2 DEF EraseBlock
  <2> QED  BY <1>1, <1>2, <2>1 DEF EraseAccepted, Block
<1>3. CASE ~EraseAccepted(Here) /\ nand[Here].refuses < Stuck
  <2>1. nand' = [nand EXCEPT ![Here].refuses = @ - 1]  BY <1>3 DEF EraseBlock
  <2> QED  BY <1>1, <1>3, <2>1 DEF EraseAccepted, Block, Stuck
<1>4. CASE ~EraseAccepted(Here) /\ ~(nand[Here].refuses < Stuck)
  <2>1. nand' = nand  BY <1>4 DEF EraseBlock
  <2> QED  BY <1>1, <1>4, <2>1 DEF EraseAccepted, Block, Stuck
<1> QED  BY <1>2, <1>3, <1>4

LEMMA ApartFromHere ==
  ASSUME Typed, walk.at # "summary", Fixed, Waits \/ Garbles, Erasing
  PROVE  /\ Elsewhere /\ stalled \subseteq stalled'
         /\ Runs => stalled' = stalled
         /\ Stalls => Here \in stalled'
         /\ Garbles => IdOf(walk.die) \in stalled'
<1>1. \A c \in Cells : c # Here => nand'[c] = nand[c]  BY Erases DEF Erasing
<1>2. IdOf(walk.die) \notin Cells  BY Positive DEF IdOf, Cells
<1> QED  BY <1>1, <1>2 DEF Elsewhere, Fixed, Given, Waits, Runs, Stalls, Garbles

LEMMA StayedBy ==
  ASSUME Typed, Walked, Elsewhere, walk.at # "summary",
         walk'.die = walk.die, walk'.block = walk.block,
         walk'.at \in {"die", "marker"} => walk.at \in {"die", "marker"} /\ UNCHANGED nand,
         AtStart', AtErase', AtVerify'
  PROVE  Stayed
<1>1. Here' = Here /\ \A c \in Cells : Before(c)' <=> Before(c)  BY DEF Here, Before
<1>2. Fresh'
  <2> SUFFICES ASSUME NEW c \in Cells, ~Before(c)', c = Here' => walk'.at \in {"die", "marker"}
               PROVE  nand'[c].dirty = Pages
    BY DEF Fresh
  <2>1. CASE c = Here  BY <1>1, <2>1 DEF Walked, Fresh
  <2>2. CASE c # Here  BY <1>1, <2>2 DEF Walked, Fresh, Elsewhere
  <2> QED  BY <2>1, <2>2
<1> QED  BY <1>2 DEF Stayed, Walked

LEMMA MarksDie ==
  ASSUME Typed, Walked, walk.at = "die", Fixed, Runs \/ Garbles, UNCHANGED nand,
         walk' = [walk EXCEPT !.at = "marker"]
  PROVE  Stayed
<1>1. /\ walk'.at = "marker" /\ walk'.die = walk.die /\ walk'.block = walk.block
      /\ walk'.tries = walk.tries /\ walk'.page = walk.page /\ walk'.nonzero = walk.nonzero
  BY DEF Typed, WalkTyped, WalkType
<1>2. Elsewhere  BY ApartFromHere DEF Waits, Erasing
<1>3. AtStart' /\ AtErase' /\ AtVerify'  BY <1>1 DEF Walked, AtStart, AtErase, AtVerify
<1> QED  BY <1>1, <1>2, <1>3, StayedBy

\* A block at which the walk stands still: a mailbox that is full.
LEMMA StandsStill ==
  ASSUME Typed, Walked, walk.at # "summary", Fixed, Waits \/ Garbles, UNCHANGED walk,
         UNCHANGED nand \/ (walk.at = "erase" /\ EraseBlock(Here))
  PROVE  Stayed
<1>1. Elsewhere /\ stalled \subseteq stalled'  BY ApartFromHere DEF Erasing
<1>2. Here' = Here  BY DEF Here
<1>3. AtStart'  BY DEF Walked, AtStart
<1>4. AtErase'
  <2> SUFFICES ASSUME walk.at = "erase", Here \notin stalled'
               PROVE  nand'[Here].refuses = Stuck \/ nand'[Here].refuses + walk.tries <= 2
    BY <1>2 DEF AtErase
  <2>1. nand[Here].refuses = Stuck \/ nand[Here].refuses + walk.tries <= 2
    BY <1>1 DEF Walked, AtErase
  <2>2. CASE UNCHANGED nand  BY <2>1, <2>2
  <2>3. CASE EraseBlock(Here)
    <3>1. CASE EraseAccepted(Here)  BY <2>1, <2>3, <3>1, Erases DEF Stuck
    <3>2. CASE ~EraseAccepted(Here)  BY <2>1, <2>3, <3>2, Erases, WalkFields DEF Stuck
    <3> QED  BY <3>1, <3>2
  <2> QED  BY <2>2, <2>3
<1>5. AtVerify'
  <2> SUFFICES ASSUME walk.at = "verify" PROVE AtVerify'  BY DEF AtVerify
  <2>1. UNCHANGED nand  OBVIOUS
  <2>2. EffectiveVerify' = EffectiveVerify /\ Stride' = Stride /\ Sampled' = Sampled
    BY SameBench DEF Fixed, Given
  <2> QED  BY <1>1, <1>2, <2>1, <2>2 DEF Walked, AtVerify
<1> QED  BY <1>1, <1>3, <1>4, <1>5, StayedBy

----------------------------------------------------------------------------
(* The marker *)

LEMMA MarkerClear ==
  ASSUME Typed, Walked, walk.at = "marker", Fixed, Runs, UNCHANGED nand,
         walk' = [walk EXCEPT !.at = "erase"]
  PROVE  Stayed
<1>1. /\ walk'.at = "erase" /\ walk'.die = walk.die /\ walk'.block = walk.block
      /\ walk'.tries = 0 /\ walk'.page = 0 /\ walk'.nonzero = 0
  BY DEF Typed, WalkTyped, WalkType, Walked, AtStart
<1>2. Elsewhere  BY ApartFromHere DEF Waits, Erasing
<1>3. AtErase'
  <2>1. Here' = Here /\ Here \in Cells  BY <1>1, HereIsACell DEF Here, Typed
  <2>2. nand[Here].refuses \in 0 .. Stuck  BY <2>1 DEF Typed, NandTyped, Block
  <2> QED  BY <1>1, <2>1, <2>2 DEF AtErase, Stuck
<1>4. AtStart' /\ AtVerify'  BY <1>1 DEF AtStart, AtVerify
<1> QED  BY <1>1, <1>2, <1>3, <1>4, StayedBy

\* A marked block is left as it was, and one whose marker could not be read is
\* known to have stalled.
LEMMA MarkerLeaf ==
  ASSUME Typed, Walked, walk.at = "marker", Fixed, Waits, UNCHANGED nand, walk' = NextBlock,
         NEW leaf \in Leaf, leaf.die = walk.die, leaf.block = walk.block,
         \/ leaf.status = "skipped" /\ (nand[Here].marked \/ Stalls)
         \/ leaf.status = "failed" /\ Stalls
  PROVE  Noted(leaf)
<1>1. Elsewhere /\ (Stalls => Here \in stalled')  BY ApartFromHere DEF Erasing
<1>2. Here \in Cells /\ ~Before(Here)  BY HereIsACell DEF Typed, Before, Here, WalkTyped, WalkType
<1>3. nand[Here].dirty = Pages  BY <1>2 DEF Walked, Fresh
<1>4. ASSUME NEW c \in Cells, c = Here PROVE LeafIsTrue(leaf, c)'
  BY <1>1, <1>3, <1>4 DEF LeafIsTrue
<1> QED  BY <1>1, <1>4, LeafHere
----------------------------------------------------------------------------
(* The erase *)

LEMMA ErasedTakesTheErase ==
  ASSUME Typed, Walked, walk.at = "erase", Fixed, Runs, EraseBlock(Here), EraseAccepted(Here),
         EffectiveVerify = "Off", walk' = NextBlock,
         NEW leaf \in Leaf, leaf.die = walk.die, leaf.block = walk.block, leaf.status = "erased"
  PROVE  Noted(leaf)
<1>1. Elsewhere  BY ApartFromHere DEF Waits, Erasing
<1>2. nand'[Here].dirty = nand'[Here].sticky  BY Erases
<1>3. EffectiveVerify' = "Off"  BY SameBench DEF Fixed, Given
<1>4. ASSUME NEW c \in Cells, c = Here PROVE LeafIsTrue(leaf, c)'
  BY <1>2, <1>3, <1>4 DEF LeafIsTrue
<1> QED  BY <1>1, <1>4, LeafHere

LEMMA ErasedIsRead ==
  ASSUME Typed, Walked, walk.at = "erase", Fixed, Runs, EraseBlock(Here), EraseAccepted(Here),
         EffectiveVerify # "Off", walk' = [walk EXCEPT !.at = "verify", !.tries = 0]
  PROVE  Stayed
<1>1. /\ walk'.at = "verify" /\ walk'.die = walk.die /\ walk'.block = walk.block
      /\ walk'.page = walk.page /\ walk'.nonzero = walk.nonzero
  <2>1. PICK u : u = [walk EXCEPT !.at = "verify"]  OBVIOUS
  <2>2. /\ u \in WalkType /\ u.at = "verify" /\ u.die = walk.die /\ u.block = walk.block
        /\ u.page = walk.page /\ u.nonzero = walk.nonzero
    BY <2>1 DEF Typed, WalkTyped, WalkType
  <2>3. walk' = [u EXCEPT !.tries = 0]  BY <2>1
  <2> QED  BY <2>2, <2>3 DEF WalkType
<1>2. walk.page = 0 /\ walk.nonzero = 0  BY DEF Walked, AtStart
<1>3. Elsewhere  BY ApartFromHere DEF Waits, Erasing
<1>4. Here' = Here  BY <1>1 DEF Here
<1>5. AtVerify'
  <2>1. nand'[Here].dirty = nand'[Here].sticky  BY Erases
  <2>2. EffectiveVerify' # "Off" /\ Stride' = Stride /\ Sampled' = Sampled  BY SameBench DEF Fixed, Given
  <2>3. 0 % Stride = 0  BY StrideIsPositive
  <2>4. \A p \in Sampled : ~(p < 0)  BY DEF Sampled, Pages
  <2> QED  BY <1>1, <1>2, <1>4, <2>1, <2>2, <2>3, <2>4 DEF AtVerify
<1>6. AtStart' /\ AtErase'  BY <1>1 DEF AtStart, AtErase
<1> QED  BY <1>1, <1>3, <1>5, <1>6, StayedBy

\* An attempt that came to nothing: refused, or not answered in time.
Missed == (Runs /\ EraseBlock(Here) /\ ~EraseAccepted(Here)) \/ (Stalls /\ Erasing)

LEMMA MissedOnce ==
  ASSUME Typed, Walked, walk.at = "erase", Fixed, Missed
  PROVE  /\ Elsewhere
         /\ Here \notin stalled' =>
              nand'[Here].refuses = Stuck \/ nand'[Here].refuses + walk.tries + 1 <= 2
<1>1. Elsewhere /\ stalled \subseteq stalled' /\ (Stalls => Here \in stalled')
  BY ApartFromHere DEF Waits, Erasing, Missed
<1>2. CASE Stalls  BY <1>1, <1>2
<1>3. CASE Runs /\ EraseBlock(Here) /\ ~EraseAccepted(Here)
  BY <1>1, <1>3, Erases, WalkFields DEF Walked, AtErase, Stuck
<1> QED  BY <1>1, <1>2, <1>3 DEF Missed

LEMMA MissedAndTried ==
  ASSUME Typed, Walked, walk.at = "erase", Fixed, Missed,
         walk.tries + 1 < 3, walk' = [walk EXCEPT !.tries = @ + 1]
  PROVE  Stayed
<1>1. /\ walk'.at = "erase" /\ walk'.die = walk.die /\ walk'.block = walk.block
      /\ walk'.page = walk.page /\ walk'.nonzero = walk.nonzero /\ walk'.tries = walk.tries + 1
  BY DEF Typed, WalkTyped, WalkType
<1>2. Here' = Here  BY <1>1 DEF Here
<1>3. AtErase'
  <2> SUFFICES ASSUME Here \notin stalled'
               PROVE  nand'[Here].refuses = Stuck \/ nand'[Here].refuses + (walk.tries + 1) <= 2
    BY <1>1, <1>2 DEF AtErase
  <2>1. CASE nand'[Here].refuses = Stuck  BY <2>1
  <2>2. CASE nand'[Here].refuses # Stuck
    <3>1. CASE UNCHANGED nand
      BY MissedOnce, <2>2, <3>1, HereIsACell, WalkFields DEF Typed, NandTyped, Block, Stuck
    <3>2. CASE EraseBlock(Here)
      <4>1. nand' \in [Cells -> Block] /\ Here \in Cells
        BY <3>2, EraseTyped, HereIsACell DEF Typed
      <4>2. nand'[Here].refuses \in 0 .. Stuck  BY <4>1 DEF Block
      <4> QED  BY MissedOnce, <2>2, <4>2, WalkFields DEF Stuck
    <3> QED  BY <3>1, <3>2 DEF Missed, Erasing
  <2> QED  BY <2>1, <2>2
<1>4. AtStart' /\ AtVerify'  BY <1>1 DEF Walked, AtStart, AtVerify
<1> QED  BY <1>1, <1>3, <1>4, MissedOnce, StayedBy

LEMMA MissedThrice ==
  ASSUME Typed, Walked, walk.at = "erase", Fixed, Missed, ~(walk.tries + 1 < 3), walk' = NextBlock,
         NEW leaf \in Leaf, leaf.die = walk.die, leaf.block = walk.block, leaf.status = "failed"
  PROVE  Noted(leaf)
<1>1. walk.tries = 2  BY WalkFields
<1>2. Here \notin stalled' => nand'[Here].refuses = Stuck
  <2>1. nand'[Here].refuses \in 0 .. Stuck
    <3>1. Here \in Cells  BY HereIsACell DEF Typed
    <3>2. nand' \in [Cells -> Block]  BY EraseTyped DEF Missed, Erasing, Typed, NandTyped
    <3> QED  BY <3>1, <3>2 DEF Block
  <2> QED  BY <1>1, <2>1, MissedOnce DEF Stuck
<1>3. ASSUME NEW c \in Cells, c = Here PROVE LeafIsTrue(leaf, c)'
  BY <1>2, <1>3 DEF LeafIsTrue
<1> QED  BY <1>3, MissedOnce, LeafHere

----------------------------------------------------------------------------
(* The read-back *)

LEMMA DirtOfPage ==
  ASSUME Typed
  PROVE  Dirt \in {0, 1} /\ (Dirt = 0 <=> walk.page \notin nand[Here].dirty)
BY DEF Dirt

\* The pages a sample looks at, up to the one in hand.
LEMMA SampledSoFar ==
  ASSUME Typed, Walked, walk.at = "verify", Here \notin stalled, walk.nonzero + Dirt = 0,
         NEW p \in Sampled, p < walk.page + Stride
  PROVE  p \notin nand[Here].dirty
<1>1. p \in Nat /\ p % Stride = 0  BY DEF Sampled, Pages
<1>2. walk.page \in Nat /\ walk.page % Stride = 0  BY WalkFields DEF Walked, AtVerify
<1>3. p <= walk.page  BY <1>1, <1>2, StrideIsPositive, NoneBetween
<1>4. walk.nonzero = 0 /\ Dirt = 0  BY WalkFields, DirtOfPage
<1>5. CASE p = walk.page  BY <1>4, <1>5, DirtOfPage
<1>6. CASE p < walk.page  BY <1>4, <1>6 DEF Walked, AtVerify
<1> QED  BY <1>1, <1>2, <1>3, <1>5, <1>6

LEMMA ReadOn ==
  ASSUME Typed, Walked, walk.at = "verify", Fixed, Waits, UNCHANGED nand, ~LastPage,
         NEW n \in Nat, Runs /\ Here \notin stalled => n = walk.nonzero + Dirt,
         walk'.at = "verify", walk'.die = walk.die, walk'.block = walk.block,
         walk'.page = walk.page + Stride, walk'.nonzero = n
  PROVE  Stayed
<1>1. /\ Elsewhere /\ stalled \subseteq stalled' /\ (Runs => stalled' = stalled)
      /\ (Stalls => Here \in stalled')
  BY ApartFromHere DEF Erasing
<1>2. Here' = Here  BY DEF Here
<1>3. EffectiveVerify' = EffectiveVerify /\ Stride' = Stride /\ Sampled' = Sampled
  BY SameBench DEF Fixed, Given
<1>4. Stride \in Nat \ {0} /\ walk.page \in Nat /\ walk.page % Stride = 0 /\ walk.nonzero \in Nat
  BY StrideIsPositive, WalkFields DEF Walked, AtVerify
<1>5. (walk.page + Stride) % Stride = 0  BY <1>4, NextMultiple
<1>6. Here \notin stalled' => Runs /\ Here \notin stalled  BY <1>1 DEF Waits
<1>7. Here \notin stalled' => n <= walk.page + Stride
  BY <1>4, <1>6, DirtOfPage DEF Walked, AtVerify
<1>8. Here \notin stalled' /\ n = 0 =>
        \A p \in Sampled : p < walk.page + Stride => p \notin nand[Here].dirty
  BY <1>6, SampledSoFar
<1>9. AtVerify'
  BY <1>2, <1>3, <1>5, <1>7, <1>8 DEF Walked, AtVerify
<1>10. AtStart' /\ AtErase'  BY DEF AtStart, AtErase
<1> QED  BY <1>1, <1>9, <1>10, StayedBy

LEMMA ReadThrough ==
  ASSUME Typed, Walked, walk.at = "verify", Fixed, Waits, UNCHANGED nand, LastPage,
         walk' = NextBlock, NEW leaf \in Leaf, leaf.die = walk.die, leaf.block = walk.block,
         leaf.status = "erased", Runs /\ Here \notin stalled => leaf.nonzero = walk.nonzero + Dirt
  PROVE  Noted(leaf)
<1>1. Elsewhere /\ (Runs => stalled' = stalled) /\ (Stalls => Here \in stalled')
  BY ApartFromHere DEF Erasing
<1>2. nand[Here].dirty = nand[Here].sticky  BY DEF Walked, AtVerify
<1>3. Sampled' = Sampled  BY SameBench DEF Fixed, Given
<1>4. Here \notin stalled' => Runs /\ Here \notin stalled  BY <1>1 DEF Waits
<1>5. leaf.nonzero = 0 /\ Here \notin stalled' => nand[Here].dirty \cap Sampled = {}
  <2> SUFFICES ASSUME leaf.nonzero = 0, Here \notin stalled', NEW p \in Sampled
               PROVE  p \notin nand[Here].dirty
    OBVIOUS
  <2>1. p < walk.page + Stride
    BY StrideIsPositive, WalkFields, Positive DEF LastPage, Sampled, Pages
  <2> QED  BY <1>4, <2>1, SampledSoFar
<1>6. ASSUME NEW c \in Cells, c = Here PROVE LeafIsTrue(leaf, c)'
  BY <1>2, <1>3, <1>5, <1>6 DEF LeafIsTrue
<1> QED  BY <1>1, <1>6, LeafHere

LEMMA ReadStalled ==
  ASSUME Typed, Walked, walk.at = "verify", Fixed, Stalls, UNCHANGED nand, walk' = NextBlock,
         NEW leaf \in Leaf, leaf.die = walk.die, leaf.block = walk.block, leaf.status = "failed"
  PROVE  Noted(leaf)
<1>1. Elsewhere /\ Here \in stalled'  BY ApartFromHere DEF Waits, Erasing
<1>2. ASSUME NEW c \in Cells, c = Here PROVE LeafIsTrue(leaf, c)'
  BY <1>1, <1>2 DEF LeafIsTrue
<1> QED  BY <1>1, <1>2, LeafHere
----------------------------------------------------------------------------
(* The kernel and the pins *)

\* What a step of either does to its list of records.
Kept(R, S) == (Stayed /\ S = R) \/ \E leaf \in Leaf : Noted(leaf) /\ S = Append(R, leaf)

LEMMA LedgerOfStep ==
  ASSUME Typed, NEW R \in Seq(Leaf), NEW S, Ledger(R), Kept(R, S)
  PROVE  Ledger(S)' /\ Walked'
<1>1. CASE Stayed /\ S = R
  BY <1>1, LedgerStays DEF Stayed
<1>2. ASSUME NEW leaf \in Leaf, Noted(leaf), S = Append(R, leaf) PROVE Ledger(S)' /\ Walked'
  BY <1>2, LedgerGrows DEF Noted
<1> QED  BY <1>1, <1>2 DEF Kept

LEMMA LeafFields ==
  ASSUME Typed, walk.at # "summary", NEW status \in Statuses, NEW n \in Nat,
         NEW leaf, leaf = BlockLeaf(status, n)
  PROVE  /\ leaf \in Leaf /\ leaf.die = walk.die /\ leaf.block = walk.block
         /\ leaf.status = status /\ leaf.nonzero = n
BY LeafTyped DEF Typed, BlockLeaf

\* A record that finds the mailbox full leaves the walk where it is.
LEMMA Recorded ==
  ASSUME Typed, Walked, walk.at # "summary", Fixed, Waits \/ Garbles,
         UNCHANGED nand \/ (walk.at = "erase" /\ EraseBlock(Here)),
         NEW leaf \in Leaf, NEW next, Record(leaf, next), walk' = next => Noted(leaf)
  PROVE  Kept(sram.records, sram'.records) /\ sram'.done = sram.done /\ core'.image = core.image
<1>1. CASE Len(sram.records) < board.room
  <2>1. /\ walk' = next /\ sram'.records = Append(sram.records, leaf) /\ sram'.done = sram.done
        /\ core' = core
    BY <1>1 DEF Record, Typed, SramTyped, SramType
  <2> QED  BY <2>1 DEF Kept
<1>2. CASE ~(Len(sram.records) < board.room)
  <2>1. UNCHANGED <<walk, sram>> /\ core'.image = core.image
    BY <1>2 DEF Record, Typed, CoreTyped, CoreType
  <2> QED  BY <2>1, StandsStill DEF Kept
<1> QED  BY <1>1, <1>2

LEMMA WalkedOn ==
  ASSUME NEW next, Walks(next), walk' = next => Stayed
  PROVE  Kept(sram.records, sram'.records) /\ sram'.done = sram.done /\ core'.image = core.image
BY DEF Walks, Kept

\* Each of the kernel's steps stays on its block or notes one true leaf.
LEMMA KernelKeeps ==
  ASSUME Typed, Walked, SelectDie \/ ReadMarker \/ Erase \/ VerifyPage
  PROVE  Kept(sram.records, sram'.records) /\ sram'.done = sram.done /\ core'.image = core.image
<1> DEFINE Goal == Kept(sram.records, sram'.records) /\ sram'.done = sram.done /\ core'.image = core.image
<1>1. CASE SelectDie
  <2>1. walk.at = "die" /\ Fixed /\ UNCHANGED nand  BY <1>1 DEF SelectDie, Kernel, Running
  <2>2. PICK fits \in BOOLEAN :
          /\ \/ Runs /\ (walk.die \notin board.odd => (fits <=> expect = "own"))
             \/ Garbles /\ (fits => expect = "junk")
          /\ IF fits THEN Walks([walk EXCEPT !.at = "marker"]) ELSE Record(DieLeaf, NextDie)
    BY <1>1 DEF SelectDie
  <2>3. CASE ~fits
    <3>1. PICK leaf : leaf = DieLeaf  OBVIOUS
    <3>2. leaf \in Leaf /\ leaf.die = walk.die /\ leaf.status = "die"
      BY <2>1, <3>1, WalkFields, Positive DEF Leaf, Dies, Statuses, DieLeaf
    <3>3. Elsewhere /\ (Garbles => IdOf(walk.die) \in stalled')
      BY <2>1, <2>2, ApartFromHere DEF Waits, Erasing
    <3>4. PICK d : d = walk.die  OBVIOUS
    <3>5. Unfit(d)'  BY <2>2, <2>3, <3>3, <3>4 DEF Elsewhere, Unfit, IdOf
    <3>6. walk' = NextDie => Noted(leaf)  BY <2>1, <3>2, <3>3, <3>4, <3>5, LeafOfDie
    <3> QED  BY <2>1, <2>2, <2>3, <3>1, <3>2, <3>6, Recorded DEF Waits
  <2>4. CASE fits
    BY <2>1, <2>2, <2>4, MarksDie, WalkedOn
  <2> QED  BY <2>3, <2>4
<1>2. CASE ReadMarker
  <2>1. walk.at = "marker" /\ Fixed /\ UNCHANGED nand  BY <1>2 DEF ReadMarker, Kernel, Running
  <2>2. ASSUME Waits, NEW status \in {"skipped", "failed"}, Record(BlockLeaf(status, 0), NextBlock),
               \/ status = "skipped" /\ nand[Here].marked
               \/ status = "failed" /\ Stalls
        PROVE  Goal
    <3>1. PICK leaf : leaf = BlockLeaf(status, 0)  OBVIOUS
    <3>2. /\ leaf \in Leaf /\ leaf.die = walk.die /\ leaf.block = walk.block
          /\ leaf.status = status
      BY <2>1, <2>2, <3>1, LeafFields DEF Statuses
    <3>3. walk' = NextBlock => Noted(leaf)  BY <2>1, <2>2, <3>2, MarkerLeaf
    <3> QED  BY <2>1, <2>2, <3>1, <3>2, <3>3, Recorded
  <2>3. CASE Runs /\ nand[Here].marked  BY <1>2, <2>2, <2>3, NeverBoth DEF ReadMarker, Waits
  <2>4. CASE Runs /\ ~nand[Here].marked /\ Walks([walk EXCEPT !.at = "erase"])
    BY <2>1, <2>4, MarkerClear, WalkedOn
  <2>5. CASE Stalls /\ Record(BlockLeaf("failed", 0), NextBlock)
    BY <2>2, <2>5 DEF Waits
  <2> QED  BY <1>2, <2>3, <2>4, <2>5 DEF ReadMarker
<1>3. CASE Erase
  <2>1. walk.at = "erase" /\ Fixed  BY <1>3 DEF Erase, Kernel, Running
  <2>2. CASE Missed /\ TryAgain
    <3>0. Waits /\ Erasing  BY <2>2 DEF Missed, Waits, Erasing
    <3>1. CASE walk.tries + 1 < 3 /\ Walks([walk EXCEPT !.tries = @ + 1])
      BY <2>1, <2>2, <3>1, MissedAndTried, WalkedOn
    <3>2. CASE ~(walk.tries + 1 < 3) /\ Record(BlockLeaf("failed", 0), NextBlock)
      <4>1. PICK leaf : leaf = BlockLeaf("failed", 0)  OBVIOUS
      <4>2. /\ leaf \in Leaf /\ leaf.die = walk.die /\ leaf.block = walk.block
            /\ leaf.status = "failed"
        BY <2>1, <4>1, LeafFields DEF Statuses
      <4>3. walk' = NextBlock => Noted(leaf)  BY <2>1, <2>2, <3>2, <4>2, MissedThrice
      <4> QED  BY <2>1, <3>0, <3>2, <4>1, <4>2, <4>3, Recorded DEF Erasing
    <3> QED  BY <2>2, <3>1, <3>2 DEF TryAgain
  <2>3. CASE Runs /\ EraseBlock(Here) /\ EraseAccepted(Here) /\ EffectiveVerify = "Off"
    <3>1. PICK leaf : leaf = Erased(0)  OBVIOUS
    <3>2. /\ leaf \in Leaf /\ leaf.die = walk.die /\ leaf.block = walk.block
          /\ leaf.status = "erased"
      BY <2>1, <2>3, <3>1, LeafFields, WalkFields DEF Statuses, Erased
    <3>3. Record(leaf, NextBlock)  BY <1>3, <2>3, <3>1, NeverBoth DEF Erase, FailBit
    <3>4. walk' = NextBlock => Noted(leaf)  BY <2>1, <2>3, <3>2, ErasedTakesTheErase
    <3> QED  BY <2>1, <2>3, <3>2, <3>3, <3>4, Recorded DEF Waits
  <2>4. CASE /\ Runs /\ EraseBlock(Here) /\ EraseAccepted(Here) /\ EffectiveVerify # "Off"
             /\ Walks([walk EXCEPT !.at = "verify", !.tries = 0])
    BY <2>1, <2>4, ErasedIsRead, WalkedOn
  <2> QED  BY <1>3, <2>2, <2>3, <2>4 DEF Erase, FailBit, Missed, Erasing
<1>4. CASE VerifyPage
  <2>1. walk.at = "verify" /\ Fixed /\ UNCHANGED nand  BY <1>4 DEF VerifyPage, Kernel, Running
  <2>2. CASE Runs /\ LastPage /\ Record(Erased(walk.nonzero + Dirt), NextBlock)
    <3>1. PICK leaf : leaf = Erased(walk.nonzero + Dirt)  OBVIOUS
    <3>2. walk.nonzero + Dirt \in Nat /\ EffectiveVerify # "Off"
      BY <2>1, WalkFields, DirtOfPage DEF Walked, AtVerify
    <3>3. /\ leaf \in Leaf /\ leaf.die = walk.die /\ leaf.block = walk.block
          /\ leaf.status = "erased" /\ leaf.nonzero = walk.nonzero + Dirt
      BY <2>1, <3>1, <3>2, LeafFields DEF Statuses, Erased
    <3>4. walk' = NextBlock => Noted(leaf)  BY <2>1, <2>2, <3>3, ReadThrough DEF Waits
    <3> QED  BY <2>1, <2>2, <3>1, <3>3, <3>4, Recorded DEF Waits
  <2>3. CASE /\ Runs /\ ~LastPage
             /\ Walks([walk EXCEPT !.page = @ + Stride, !.nonzero = @ + Dirt])
    <3>1. PICK n \in Nat : n = walk.nonzero + Dirt  BY WalkFields, DirtOfPage
    <3>2. /\ walk'.at = "verify" /\ walk'.die = walk.die /\ walk'.block = walk.block
          /\ walk'.page = walk.page + Stride /\ walk'.nonzero = n
      BY <2>1, <2>3, <3>1 DEF Walks, Typed, WalkTyped, WalkType
    <3>3. Stayed  BY <2>1, <2>3, <3>1, <3>2, ReadOn DEF Waits
    <3> QED  BY <2>3, <3>3, WalkedOn
  <2>4. CASE Stalls /\ Record(BlockLeaf("failed", 0), NextBlock)
    <3>1. PICK leaf : leaf = BlockLeaf("failed", 0)  OBVIOUS
    <3>2. /\ leaf \in Leaf /\ leaf.die = walk.die /\ leaf.block = walk.block
          /\ leaf.status = "failed"
      BY <2>1, <3>1, LeafFields DEF Statuses
    <3>3. walk' = NextBlock => Noted(leaf)  BY <2>1, <2>4, <3>2, ReadStalled
    <3> QED  BY <2>1, <2>4, <3>1, <3>2, <3>3, Recorded DEF Waits
  <2> QED  BY <1>4, <2>2, <2>3, <2>4 DEF VerifyPage
<1> QED  BY <1>1, <1>2, <1>3, <1>4
----------------------------------------------------------------------------
\* So does each step of the pins, whose rig proves when the walk is over.
LEMMA PinsKeep ==
  ASSUME Typed, Walked, PinDie \/ PinMarker \/ PinErase \/ PinPage
  PROVE  /\ Kept(rig.records, rig'.records) /\ rig'.exit = rig.exit
         /\ rig'.pc = IF walk'.at = "summary" THEN "prove" ELSE rig.pc
<1> DEFINE Goal == /\ Kept(rig.records, rig'.records) /\ rig'.exit = rig.exit
                   /\ rig'.pc = IF walk'.at = "summary" THEN "prove" ELSE rig.pc
<1>1. ASSUME UNCHANGED rig, Stayed, walk'.at # "summary" PROVE Goal
  BY <1>1 DEF Kept
<1>2. ASSUME NEW leaf \in Leaf, PinRecord(leaf), Noted(leaf) PROVE Goal
  <2>1. /\ walk' = NextBlock /\ rig'.records = Append(rig.records, leaf) /\ rig'.exit = rig.exit
        /\ rig'.pc = IF NextBlock.at = "summary" THEN "prove" ELSE rig.pc
    BY <1>2 DEF PinRecord, Typed, RigTyped, RigType
  <2> QED  BY <1>2, <2>1 DEF Kept
<1>3. ASSUME walk.at # "summary", NEW status \in Statuses, NEW n \in Nat, PinRecord(BlockLeaf(status, n)),
             \A leaf \in Leaf :
               /\ leaf.die = walk.die /\ leaf.block = walk.block
               /\ leaf.status = status /\ leaf.nonzero = n /\ walk' = NextBlock
               => Noted(leaf)
      PROVE  Goal
  <2>1. PICK leaf : leaf = BlockLeaf(status, n)  OBVIOUS
  <2>2. /\ leaf \in Leaf /\ leaf.die = walk.die /\ leaf.block = walk.block
        /\ leaf.status = status /\ leaf.nonzero = n
    BY <1>3, <2>1, LeafFields
  <2>3. PinRecord(leaf) /\ walk' = NextBlock  BY <1>3, <2>1 DEF PinRecord
  <2> QED  BY <1>2, <1>3, <2>2, <2>3
<1>4. CASE PinDie
  <2>1. /\ walk.at = "die" /\ Fixed /\ Runs /\ UNCHANGED <<nand, rig>>
        /\ walk' = [walk EXCEPT !.at = "marker"]
    BY <1>4 DEF PinDie, Pins, At, PinWalks
  <2>2. walk'.at = "marker"  BY <2>1 DEF Typed, WalkTyped, WalkType
  <2> QED  BY <1>1, <2>1, <2>2, MarksDie
<1>5. CASE PinMarker
  <2>1. walk.at = "marker" /\ Fixed /\ UNCHANGED nand  BY <1>5 DEF PinMarker, Pins, At
  <2>2. CASE PinRecord(BlockLeaf("skipped", 0)) /\ ((Runs /\ nand[Here].marked) \/ Stalls)
    BY <1>3, <2>1, <2>2, MarkerLeaf DEF Waits, Statuses
  <2>3. CASE Runs /\ PinWalks([walk EXCEPT !.at = "erase"])
    <3>1. walk'.at = "erase"  BY <2>3 DEF PinWalks, Typed, WalkTyped, WalkType
    <3> QED  BY <1>1, <2>1, <2>3, <3>1, MarkerClear DEF PinWalks
  <2> QED  BY <1>5, <2>2, <2>3 DEF PinMarker
<1>6. CASE PinErase
  <2>1. walk.at = "erase" /\ Fixed  BY <1>6 DEF PinErase, Pins, At
  <2>2. CASE Missed /\ PinTryAgain
    <3>1. CASE walk.tries + 1 < 3 /\ PinWalks([walk EXCEPT !.tries = @ + 1])
      <4>1. walk'.at = "erase"  BY <2>1, <3>1 DEF PinWalks, Typed, WalkTyped, WalkType
      <4> QED  BY <1>1, <2>1, <2>2, <3>1, <4>1, MissedAndTried DEF PinWalks
    <3>2. CASE ~(walk.tries + 1 < 3) /\ PinRecord(BlockLeaf("failed", 0))
      BY <1>3, <2>1, <2>2, <3>2, MissedThrice DEF Statuses
    <3> QED  BY <2>2, <3>1, <3>2 DEF PinTryAgain
  <2>3. CASE /\ Runs /\ EraseBlock(Here) /\ EraseAccepted(Here) /\ EffectiveVerify = "Off"
             /\ PinRecord(BlockLeaf("erased", 0))
    BY <1>3, <2>1, <2>3, ErasedTakesTheErase DEF Statuses
  <2>4. CASE /\ Runs /\ EraseBlock(Here) /\ EraseAccepted(Here) /\ EffectiveVerify # "Off"
             /\ PinWalks([walk EXCEPT !.at = "verify", !.tries = 0])
    <3>1. Stayed  BY <2>1, <2>4, ErasedIsRead DEF PinWalks
    <3>2. walk'.at # "summary"
      <4>1. PICK u : u = [walk EXCEPT !.at = "verify"]  OBVIOUS
      <4>2. u \in WalkType /\ u.at = "verify"  BY <4>1 DEF Typed, WalkTyped, WalkType
      <4>3. walk' = [u EXCEPT !.tries = 0]  BY <2>4, <4>1 DEF PinWalks
      <4> QED  BY <4>2, <4>3 DEF WalkType
    <3> QED  BY <1>1, <2>4, <3>1, <3>2 DEF PinWalks
  <2> QED  BY <1>6, <2>2, <2>3, <2>4 DEF PinErase, Missed, Erasing
<1>7. CASE PinPage
  <2>1. walk.at = "verify" /\ Fixed /\ UNCHANGED nand  BY <1>7 DEF PinPage, Pins, At
  <2>2. PICK count \in {walk.nonzero + Dirt, walk.nonzero + Wrap - 1} :
          /\ IF count = walk.nonzero + Dirt THEN Runs ELSE Stalls
          /\ IF LastPage THEN PinRecord(BlockLeaf("erased", count % Wrap))
             ELSE PinWalks([walk EXCEPT !.page = @ + Stride, !.nonzero = count % Wrap])
    BY <1>7 DEF PinPage
  <2>3. PICK n : n = count % Wrap  OBVIOUS
  <2>4. walk.nonzero + Dirt \in Nat /\ walk.nonzero + Wrap - 1 \in Nat
    BY WrapIsPositive, WalkFields, DirtOfPage
  <2>5. n \in Nat /\ Waits  BY <2>2, <2>3, <2>4, WrapIsPositive DEF Waits
  <2>6. Runs /\ Here \notin stalled => n = walk.nonzero + Dirt
    <3> SUFFICES ASSUME Runs, Here \notin stalled PROVE n = walk.nonzero + Dirt  OBVIOUS
    <3>1. count = walk.nonzero + Dirt  BY <2>2, NeverBoth
    <3>2. walk.nonzero + Dirt < Wrap
      BY <2>1, WalkFields, DirtOfPage, Positive DEF Walked, AtVerify, Wrap
    <3> QED  BY <2>3, <2>4, <3>1, <3>2, WrapIsPositive
  <2>7. CASE LastPage
    BY <1>3, <2>1, <2>2, <2>3, <2>5, <2>6, <2>7, ReadThrough DEF Statuses
  <2>8. CASE ~LastPage
    <3>1. /\ walk'.at = "verify" /\ walk'.die = walk.die /\ walk'.block = walk.block
          /\ walk'.page = walk.page + Stride /\ walk'.nonzero = n /\ UNCHANGED rig
      BY <2>1, <2>2, <2>3, <2>8 DEF PinWalks, Typed, WalkTyped, WalkType
    <3>2. Stayed  BY <2>1, <2>5, <2>6, <2>8, <3>1, ReadOn
    <3> QED  BY <1>1, <3>1, <3>2
  <2> QED  BY <2>7, <2>8
<1> QED  BY <1>4, <1>5, <1>6, <1>7
----------------------------------------------------------------------------
(* The rig around the walk *)

\* Before the first block there is nothing to account for.
LEMMA EmptyLedger ==
  ASSUME walk = Start
  PROVE  Ledger(<<>>)
<1>1. walk.die = 0 /\ walk.block = 0  BY DEF Start
<1>2. ASSUME NEW c \in Cells PROVE ~Before(c)
  <2>1. c[1] \in Nat /\ c[2] \in Nat  BY DEF Cells, Dies
  <2> QED  BY <1>1, <2>1 DEF Before
<1> QED  BY <1>2 DEF Ledger

LEMMA WalkUnmoved ==
  ASSUME Typed, Walked, UNCHANGED <<board, verify, expect, nand, stalled, walk>>
  PROVE  /\ Walked' /\ Elsewhere /\ (\A R : Ledger(R) => Ledger(R)')
         /\ \A R : \A c \in Cells : Accounted(R, c) => Accounted(R, c)'
<1>1. Elsewhere  BY DEF Elsewhere
<1>2. EffectiveVerify' = EffectiveVerify /\ Stride' = Stride /\ Sampled' = Sampled  BY SameBench
<1>3. Here' = Here /\ \A c : Before(c)' <=> Before(c)  BY DEF Here, Before
<1>4. Walked'
  BY <1>2, <1>3 DEF Walked, Fresh, AtStart, AtErase, AtVerify
<1>5. ASSUME NEW R, Ledger(R) PROVE Ledger(R)'  BY <1>1, <1>5, LedgerStays
<1>6. ASSUME NEW R, NEW c \in Cells, Accounted(R, c) PROVE Accounted(R, c)'
  BY <1>6, AccountedKept
<1> QED  BY <1>1, <1>4, <1>5, <1>6

\* At its summary the walk has every block behind it.
LEMMA AllBehind ==
  ASSUME NEW c \in Cells, walk.die = NumDies
  PROVE  Before(c)
<1>1. c[1] \in 0 .. NumDies - 1  BY DEF Cells, Dies
<1> QED  BY <1>1, Positive DEF Before

\* The rig's steps other than the pins', the readback and the proof: they write
\* no record, and release the kernel only before anybody has walked.
LEMMA RigMoves ==
  ASSUME Typed, Books, rig.pc \notin {"pins", "prove", "end"},
         UNCHANGED <<board, verify, expect, nand, stalled, walk>>,
         sram'.records = sram.records, sram'.done = sram.done,
         \/ core'.image = core.image
         \/ Unbegun /\ (core'.image = "kernel" => ~Unbegun' /\ rig'.pc # "pins"),
         rig'.records = rig.records, rig'.exit \in {rig.exit, "error"}, rig'.pc # "prove",
         Unbegun' \/ rig'.pc = "pins" => Unbegun
  PROVE  Books'
<1>1. /\ Walked' /\ \A R : Ledger(R) => Ledger(R)'
      /\ \A R : \A c \in Cells : Accounted(R, c) => Accounted(R, c)'
  BY WalkUnmoved DEF Books
<1>2. Unwalked'  BY DEF Books, Unwalked
<1>3. KernelsLedger'
  <2>1. CASE core'.image = core.image  BY <1>1, <2>1 DEF Books, KernelsLedger
  <2>2. CASE Unbegun
    <3>1. walk = Start /\ sram'.records = <<>>  BY <2>2 DEF Books, Unwalked
    <3> QED  BY <1>1, <3>1, EmptyLedger DEF KernelsLedger
  <2> QED  BY <2>1, <2>2
<1>4. PinsLedger'
  <2> SUFFICES ASSUME rig'.pc = "pins" PROVE Ledger(rig.records)'  BY DEF PinsLedger
  <2>1. walk = Start /\ rig'.records = <<>>  BY DEF Books, Unwalked
  <2>2. Ledger(<<>>)'  BY <1>1, <2>1, EmptyLedger
  <2> QED  BY <2>1, <2>2
<1>5. ProofsLedger'
  <2>1. rig.exit # "proof"  BY DEF Books, ProofsLedger
  <2> QED  BY <2>1 DEF ProofsLedger
<1> QED  BY <1>1, <1>2, <1>3, <1>4, <1>5 DEF Books

\* What a failing step, or one that only moves the counters, leaves alone.
LEMMA FailsFields ==
  ASSUME Typed, Fails
  PROVE  rig'.pc = "end" /\ rig'.exit = "error" /\ rig'.records = rig.records /\ ~Unbegun'
BY DEF Typed, RigTyped, RigType, Fails, Unbegun

LEMMA GoesRecords ==
  ASSUME Typed, NEW pc, Goes(pc)
  PROVE  /\ rig'.pc = pc /\ rig'.stage = rig.stage /\ rig'.exit = rig.exit
         /\ rig'.records = rig.records
BY DEF Typed, RigTyped, RigType, Goes

LEMMA StoreFields ==
  ASSUME Typed, Stores \/ UNCHANGED sram
  PROVE  sram'.records = sram.records /\ sram'.done = sram.done
BY DEF Stores, Typed, SramTyped, SramType

LEMMA ReleaseFields ==
  ASSUME Typed, Books, rig.pc = "jump", Release
  PROVE  UNCHANGED walk /\ Unbegun /\ core'.image = sram.image
BY DEF Books, Unwalked, Unbegun, Release

\* What the kernel will expect is settled before there is anything to account for.
LEMMA GeometryKeepsBooks ==
  ASSUME Typed, Books, rig.pc = "peek", rig'.pc \in {"load", "halt"}, rig'.records = rig.records,
         rig'.exit = rig.exit, UNCHANGED <<board, verify, core, sram, walk, nand, stalled>>
  PROVE  Books'
<1>1. EffectiveVerify' = EffectiveVerify /\ Stride' = Stride /\ Sampled' = Sampled  BY SameBench
<1>2. Here' = Here /\ \A c : Before(c)' <=> Before(c)  BY DEF Here, Before
<1>3. Walked'  BY <1>1, <1>2 DEF Books, Walked, Fresh, AtStart, AtErase, AtVerify
<1>4. Unwalked'  BY DEF Books, Unwalked, Unbegun
<1>5. KernelsLedger'  BY DEF Books, Unwalked, Unbegun, KernelsLedger
<1>6. PinsLedger' /\ ProofsLedger'  BY DEF Books, PinsLedger, ProofsLedger
<1> QED  BY <1>3, <1>4, <1>5, <1>6 DEF Books

LEMMA RigKeepsBooks ==
  ASSUME Typed, Whole, Books, Rig,
         ~Readback, ~Prove, rig.pc # "pins"
  PROVE  Books'
<1> DEFINE Aside == rig.pc \notin {"pins", "prove", "end"} /\ Fixed /\ UNCHANGED <<nand, stalled>>
<1>f. ASSUME Aside, Fails, UNCHANGED <<core, walk>>, Stores \/ UNCHANGED sram PROVE Books'
  BY <1>f, FailsFields, StoreFields, RigMoves DEF Fixed, Given
<1>g. ASSUME Aside, NEW pc, Goes(pc), core'.image = core.image, UNCHANGED walk, Stores \/ UNCHANGED sram,
             pc # "prove", Unbegun' \/ pc = "pins" => Unbegun
      PROVE  Books'
  BY <1>g, GoesRecords, StoreFields, RigMoves DEF Fixed, Given
<1>s. ASSUME Aside, rig'.pc = rig.pc, rig'.stage = rig.stage, rig'.records = rig.records,
             rig'.exit = rig.exit, UNCHANGED <<core, walk>>, Stores \/ UNCHANGED sram
      PROVE  Books'
  <2>1. Unbegun' <=> Unbegun  BY <1>s DEF Unbegun
  <2> QED  BY <1>s, <2>1, StoreFields, RigMoves DEF Fixed, Given
<1>1. CASE ScanUart
  <2>1. /\ rig.pc = "scan" /\ Fixed /\ UNCHANGED target /\ rig'.pc = "triage"
        /\ rig'.records = rig.records /\ rig'.exit = rig.exit
    BY <1>1 DEF ScanUart, At, Typed, RigTyped, RigType
  <2> QED  BY <2>1, RigMoves DEF Fixed, Given, target, Unbegun
<1>2. CASE Triage
  <2>1. rig.pc = "triage" /\ Fixed /\ UNCHANGED target  BY <1>2 DEF Triage, At
  <2>2. CASE Fails  BY <1>f, <2>1, <2>2 DEF target
  <2>3. CASE \E swd \in BOOLEAN, tap \in BOOLEAN :
               Class(swd, tap) # "X" /\ rig' = [rig EXCEPT !.pc = Route[Class(swd, tap)], !.class = Class(swd, tap)]
    <3>1. PICK swd \in BOOLEAN, tap \in BOOLEAN :
            Class(swd, tap) # "X" /\ rig' = [rig EXCEPT !.pc = Route[Class(swd, tap)], !.class = Class(swd, tap)]
      BY <2>3
    <3>2. Class(swd, tap) \in {"A", "B", "C", "D"}  BY <3>1 DEF Class
    <3>3. Route[Class(swd, tap)] \in {"open", "halt", "extest"}  BY <3>2 DEF Route
    <3>4. /\ rig'.pc \in {"open", "halt", "extest"}
          /\ rig'.records = rig.records /\ rig'.exit = rig.exit
      BY <3>1, <3>3 DEF Typed, RigTyped, RigType
    <3> QED  BY <2>1, <3>4, RigMoves DEF Fixed, Given, target, Unbegun
  <2> QED  BY <1>2, <2>2, <2>3 DEF Triage
<1>3. CASE Open \/ Announce
  <2>1. rig.pc \in {"open", "load"} /\ Fixed /\ UNCHANGED target  BY <1>3 DEF Open, Announce, At
  <2> QED  BY <1>3, <1>f, <1>g, <2>1 DEF Open, Announce, target, Unbegun
<1>4. CASE SendChunk \/ WriteSram
  <2>1. /\ rig.pc = "chunk" /\ Fixed /\ UNCHANGED <<core, walk, nand, stalled>>
        /\ (Stores \/ UNCHANGED sram) /\ (Sent \/ Naked \/ Fails)
    BY <1>4 DEF SendChunk, WriteSram, At
  <2>2. CASE Fails  BY <1>f, <2>1, <2>2
  <2>3. CASE Goes("jump")  BY <1>g, <2>1, <2>3 DEF Unbegun
  <2>4. CASE \/ rig' = [rig EXCEPT !.sent = @ + 1, !.tries = 0]
             \/ rig' = [rig EXCEPT !.tries = @ + 1]
    <3>1. /\ rig'.pc = rig.pc /\ rig'.stage = rig.stage /\ rig'.records = rig.records
          /\ rig'.exit = rig.exit
      BY <2>4 DEF Typed, RigTyped, RigType
    <3> QED  BY <1>s, <2>1, <3>1
  <2> QED  BY <2>1, <2>2, <2>3, <2>4 DEF Sent, Naked
<1>5. CASE Jump \/ JumpCore
  <2>1. rig.pc = "jump" /\ Fixed /\ UNCHANGED <<sram, nand, stalled>>
    BY <1>5 DEF Jump, JumpCore, At
  <2>2. CASE Fails /\ UNCHANGED <<core, walk>>  BY <1>f, <2>1, <2>2
  <2>3. CASE Fails /\ Release
    BY <2>1, <2>3, ReleaseFields, FailsFields, RigMoves DEF Fixed, Given
  <2>4. ASSUME NEW pc \in {"listen", "poll"}, Goes(pc), Release PROVE Books'
    <3>1. /\ rig'.pc = pc /\ rig'.stage = rig.stage /\ rig'.exit = rig.exit
          /\ rig'.records = rig.records
      BY <2>4, GoesRecords
    <3>2. UNCHANGED walk /\ Unbegun /\ core'.image = rig.stage
      BY <2>1, <2>4, ReleaseFields DEF Whole, Downloaded
    <3>3. core'.image = "kernel" => ~Unbegun'  BY <2>4, <3>1, <3>2 DEF Unbegun
    <3> QED  BY <2>1, <3>1, <3>2, <3>3, RigMoves DEF Fixed, Given
  <2> QED  BY <1>5, <2>2, <2>3, <2>4 DEF Jump, JumpCore
<1>6. CASE HaltCore
  <2>1. /\ rig.pc = "halt" /\ Fixed /\ UNCHANGED <<sram, walk, nand, stalled>>
        /\ core'.image = core.image
    BY <1>6 DEF HaltCore, At, Typed, CoreTyped, CoreType
  <2> QED  BY <1>6, <1>f, <1>g, <2>1 DEF HaltCore, Unbegun
<1>7. CASE Hear \/ HearNothing \/ AwaitPark
  <2>1. rig.pc \in {"listen", "poll"} /\ Fixed /\ UNCHANGED <<core, sram, walk, nand, stalled>>
    BY <1>7 DEF Hear, HearNothing, AwaitPark, At, target
  <2>2. CASE Fails  BY <1>f, <2>1, <2>2
  <2>3. CASE Goes(AfterRun)
    <3>1. AfterRun # "prove" /\ AfterRun # "pins" /\ (Unbegun' => Unbegun)
      BY <2>1, <2>3, GoesRecords DEF AfterRun, Unbegun
    <3> QED  BY <1>g, <2>1, <2>3, <3>1
  <2>4. CASE rig' = rig \/ \E n \in Nat : rig' = [rig EXCEPT !.quiet = n]
    BY <1>s, <2>1, <2>4 DEF Typed, RigTyped, RigType
  <2>5. Fails \/ Goes(AfterRun) \/ rig' = rig \/ \E n \in Nat : rig' = [rig EXCEPT !.quiet = n]
    <3>1. rig.quiet + 1 \in Nat  BY Positive DEF Typed, RigTyped, RigType, Quiets
    <3>2. Quiet => Fails \/ \E n \in Nat : rig' = [rig EXCEPT !.quiet = n]  BY <3>1 DEF Quiet
    <3>3. CASE Hear  BY <3>3 DEF Hear
    <3>4. CASE HearNothing  BY <3>2, <3>4 DEF HearNothing
    <3>5. CASE AwaitPark  BY <3>2, <3>5 DEF AwaitPark
    <3> QED  BY <1>7, <3>3, <3>4, <3>5
  <2> QED  BY <2>2, <2>3, <2>4, <2>5
<1>8. CASE ReadGeometry
  <2>1. rig.pc = "peek" /\ Given /\ UNCHANGED target  BY <1>8 DEF ReadGeometry
  <2>2. CASE Fails /\ UNCHANGED expect  BY <1>f, <2>1, <2>2 DEF target, Fixed
  <2>3. CASE rig' = [rig EXCEPT !.stage = "kernel", !.pc = IF Brom THEN "load" ELSE "halt"]
    <3>1. /\ rig'.pc \in {"load", "halt"} /\ rig'.records = rig.records /\ rig'.exit = rig.exit
      BY <2>3 DEF Typed, RigTyped, RigType
    <3> QED  BY <2>1, <3>1, GeometryKeepsBooks DEF target, Given
  <2> QED  BY <1>8, <2>2, <2>3 DEF ReadGeometry
<1>9. CASE TakePins
  <2>1. rig.pc = "extest" /\ Fixed /\ UNCHANGED <<core, sram, nand, stalled>>
    BY <1>9 DEF TakePins, At
  <2>2. CASE Fails /\ UNCHANGED walk  BY <1>f, <2>1, <2>2
  <2>3. CASE Goes("pins") /\ walk' = Start
    <3>1. UNCHANGED walk /\ Unbegun  BY <2>1, <2>3 DEF Books, Unwalked, Unbegun
    <3> QED  BY <1>g, <2>1, <2>3, <3>1
  <2> QED  BY <1>9, <2>2, <2>3 DEF TakePins
<1>10. ~PinDie /\ ~PinMarker /\ ~PinErase /\ ~PinPage
  BY DEF PinDie, PinMarker, PinErase, PinPage, Pins, At
<1> QED
  BY <1>1, <1>2, <1>3, <1>4, <1>5, <1>6, <1>7, <1>8, <1>9, <1>10 DEF Rig
----------------------------------------------------------------------------
(* Reading back and proving *)

LEMMA ReadbackKeepsBooks ==
  ASSUME Typed, Whole, Books, Readback
  PROVE  Books'
<1>1. rig.pc = "readback" /\ Fixed /\ UNCHANGED <<link, core, sram, walk, nand, stalled>>
  BY DEF Readback, At, target
<1>2. CASE Fails
  BY <1>1, <1>2, FailsFields, RigMoves DEF Fixed, Given
<1>3. CASE sram.done /\ rig' = [rig EXCEPT !.pc = "prove", !.records = sram.records]
  <2>1. rig'.pc = "prove" /\ rig'.records = sram.records
    BY <1>3 DEF Typed, RigTyped, RigType
  <2>2. /\ Walked' /\ \A R : Ledger(R) => Ledger(R)'
        /\ \A R : \A c \in Cells : Accounted(R, c) => Accounted(R, c)'
    BY <1>1, WalkUnmoved DEF Books, Fixed, Given
  <2>3. core.state = "parked" /\ core.image = "kernel" /\ walk.die = NumDies
    BY <1>1, <1>3 DEF Whole, ParkedFirst, Parked, Books, Unwalked, Walked, AtStart
  <2>4. Unwalked'  BY <1>1, <2>1 DEF Books, Unwalked, Unbegun
  <2>5. KernelsLedger'  BY <1>1, <2>2 DEF Books, KernelsLedger
  <2>6. PinsLedger'  BY <2>1 DEF PinsLedger
  <2>7. ProofsLedger'
    <3>1. rig'.exit # "proof" \/ rig'.pc \in {"prove", "end"}  BY <2>1
    <3>2. \A c \in Cells : Accounted(sram.records, c)
      BY <2>3, AllBehind DEF Books, KernelsLedger, Ledger
    <3>3. \A c \in Cells : Accounted(rig.records, c)'
      <4>1. PICK R : R = sram.records  OBVIOUS
      <4>2. \A c \in Cells : Accounted(R, c)'  BY <2>2, <3>2, <4>1
      <4> QED  BY <2>1, <4>1, <4>2 DEF Accounted
    <3> QED  BY <1>1, <2>1, <2>3, <3>3 DEF ProofsLedger
  <2> QED  BY <2>2, <2>4, <2>5, <2>6, <2>7 DEF Books
<1> QED  BY <1>2, <1>3 DEF Readback

LEMMA ProveKeepsBooks ==
  ASSUME Typed, Whole, Books, Prove
  PROVE  Books'
<1>1. rig.pc = "prove" /\ Fixed /\ UNCHANGED <<link, core, sram, walk, nand, stalled>>
  BY DEF Prove, At, target
<1>2. /\ Walked' /\ \A R : Ledger(R) => Ledger(R)'
      /\ \A R : \A c \in Cells : Accounted(R, c) => Accounted(R, c)'
  BY <1>1, WalkUnmoved DEF Books, Fixed, Given
<1>3. rig'.pc = "end" /\ rig'.records = rig.records
  BY DEF Prove, Fails, Typed, RigTyped, RigType
<1>4. Unwalked'  BY <1>1, <1>3 DEF Books, Unwalked, Unbegun
<1>5. KernelsLedger'  BY <1>1, <1>2 DEF Books, KernelsLedger
<1>6. PinsLedger'  BY <1>3 DEF PinsLedger
<1>7. ProofsLedger'
  <2>1. core.state # "running" /\ \A c \in Cells : Accounted(rig.records, c)
    BY <1>1 DEF Books, ProofsLedger
  <2>2. \A c \in Cells : Accounted(rig.records, c)'
    <3>1. PICK R : R = rig.records  OBVIOUS
    <3>2. \A c \in Cells : Accounted(R, c)'  BY <1>2, <2>1, <3>1
    <3> QED  BY <1>3, <3>1, <3>2 DEF Accounted
  <2> QED  BY <1>1, <1>3, <2>1, <2>2 DEF ProofsLedger
<1> QED  BY <1>2, <1>4, <1>5, <1>6, <1>7 DEF Books

LEMMA PinsKeepBooks ==
  ASSUME Typed, Whole, Books, rig.pc = "pins", PinDie \/ PinMarker \/ PinErase \/ PinPage
  PROVE  Books'
<1>1. Fixed /\ UNCHANGED <<link, core, sram>>
  BY DEF PinDie, PinMarker, PinErase, PinPage, Pins, At
<1>2. /\ Kept(rig.records, rig'.records) /\ rig'.exit = rig.exit
      /\ rig'.pc = IF walk'.at = "summary" THEN "prove" ELSE "pins"
  BY PinsKeep DEF Books
<1>3. PICK S : S = rig'.records  OBVIOUS
<1>4. Ledger(S)' /\ Walked'
  <2>1. rig.records \in Seq(Leaf)  BY DEF Typed, RigTyped, RigType
  <2>2. PICK R : R = rig.records  OBVIOUS
  <2>3. Ledger(R) /\ Kept(R, S)  BY <1>2, <1>3, <2>2 DEF Books, PinsLedger
  <2> QED  BY <2>1, <2>2, <2>3, LedgerOfStep
<1>5. core.state # "running" /\ core.image # "kernel" /\ ~sram.done /\ rig.exit # "proof"
  BY DEF Whole, WaitedFor, Books, Unwalked, ProofsLedger
<1>6. Unwalked'  BY <1>1, <1>2, <1>5 DEF Unwalked, Unbegun
<1>7. KernelsLedger'  BY <1>1, <1>5 DEF KernelsLedger
<1>8. PinsLedger'  BY <1>3, <1>4 DEF PinsLedger, Ledger, Accounted
<1>9. ProofsLedger'
  <2>1. rig'.pc = "prove" => \A c \in Cells : Accounted(S, c)'
    <3> SUFFICES ASSUME rig'.pc = "prove", NEW c \in Cells PROVE Accounted(S, c)'  OBVIOUS
    <3>1. walk'.die = NumDies  BY <1>2, <1>4 DEF Walked, AtStart
    <3>2. Before(c)'
      <4>1. c[1] \in 0 .. NumDies - 1  BY DEF Cells, Dies
      <4> QED  BY <3>1, <4>1, Positive DEF Before
    <3> QED  BY <1>4, <3>2 DEF Ledger
  <2>2. rig'.pc = "prove" => \A c \in Cells : Accounted(rig.records, c)'
    BY <1>3, <2>1 DEF Accounted
  <2> QED  BY <1>1, <1>2, <1>5, <2>2 DEF ProofsLedger
<1> QED  BY <1>4, <1>6, <1>7, <1>8, <1>9 DEF Books
----------------------------------------------------------------------------
(* The core *)

\* The core only runs while the rig waits for it or has given up, never once a
\* proof is being written.
LEMMA CoreKeepsBooks ==
  ASSUME Typed, Whole, Books, Core
  PROVE  Books'
<1>1. /\ core.state = "running" /\ core.image \in {"probe", "kernel"} /\ Fixed /\ UNCHANGED rig
      /\ core.image = "probe" <=> ProbeRuns
  BY DEF Core, ProbeRuns, SelectDie, ReadMarker, Erase, VerifyPage, Summary, Kernel, Running
<1>2. rig.pc \in {"listen", "poll", "end"} /\ rig.exit # "proof"
  BY <1>1 DEF Whole, WaitedFor, Books, ProofsLedger
<1>3. PinsLedger' /\ ProofsLedger'  BY <1>1, <1>2 DEF PinsLedger, ProofsLedger
<1>4. CASE ProbeRuns
  <2>1. /\ UNCHANGED <<walk, nand, stalled>> /\ core'.image = core.image
        /\ sram'.records = sram.records /\ sram'.done = sram.done
    BY <1>4 DEF ProbeRuns, Typed, CoreTyped, CoreType, SramTyped, SramType
  <2>2. Walked'  BY <1>1, <2>1, WalkUnmoved DEF Books, Fixed, Given
  <2>3. Unwalked'  BY <1>1, <2>1 DEF Books, Unwalked, Unbegun
  <2>4. KernelsLedger'  BY <1>1, <1>4, <2>1 DEF KernelsLedger
  <2> QED  BY <1>3, <2>2, <2>3, <2>4 DEF Books
<1>5. CASE Summary
  <2>1. /\ UNCHANGED <<walk, nand, stalled>> /\ core'.image = core.image
        /\ sram'.records = sram.records /\ core.image = "kernel" /\ walk.at = "summary"
    BY <1>5
    DEF Summary, Kernel, Running, Runs, Typed, CoreTyped, CoreType, SramTyped, SramType
  <2>2. Walked' /\ \A R : Ledger(R) => Ledger(R)'  BY <1>1, <2>1, WalkUnmoved DEF Books, Fixed, Given
  <2>3. Unwalked'  BY <1>1, <1>2, <2>1 DEF Books, Unwalked, Unbegun
  <2>4. KernelsLedger'  BY <2>1, <2>2 DEF Books, KernelsLedger
  <2> QED  BY <1>3, <2>2, <2>3, <2>4 DEF Books
<1>6. CASE SelectDie \/ ReadMarker \/ Erase \/ VerifyPage
  <2>1. core.image = "kernel" /\ walk.at # "summary"
    BY <1>6 DEF SelectDie, ReadMarker, Erase, VerifyPage, Kernel, Running
  <2>2. Kept(sram.records, sram'.records) /\ sram'.done = sram.done /\ core'.image = core.image
    BY <1>6, KernelKeeps DEF Books
  <2>3. PICK S : S = sram'.records  OBVIOUS
  <2>4. Ledger(S)' /\ Walked'
    <3>1. sram.records \in Seq(Leaf)  BY DEF Typed, SramTyped, SramType
    <3>2. PICK R : R = sram.records  OBVIOUS
    <3>3. Ledger(R) /\ Kept(R, S)  BY <2>1, <2>2, <2>3, <3>2 DEF Books, KernelsLedger
    <3> QED  BY <3>1, <3>2, <3>3, LedgerOfStep
  <2>5. Unwalked'  BY <1>1, <1>2, <2>1, <2>2 DEF Books, Unwalked, Unbegun
  <2>6. KernelsLedger'  BY <2>3, <2>4 DEF KernelsLedger, Ledger, Accounted
  <2> QED  BY <1>3, <2>4, <2>5, <2>6 DEF Books
<1> QED  BY <1>4, <1>5, <1>6 DEF Core
----------------------------------------------------------------------------
(* The theorems *)

LEMMA InitBooks == Init => Books
<1> SUFFICES ASSUME Init PROVE Books  OBVIOUS
<1>1. /\ rig.pc = "scan" /\ rig.records = <<>> /\ rig.exit = "none"
      /\ sram.records = <<>> /\ ~sram.done /\ core.image = "none" /\ walk = Start
  BY DEF Init
<1>2. \A c \in Cells : nand[c].dirty = Pages
  BY Bench DEF Init
<1>3. Walked
  BY <1>1, <1>2, Positive DEF Walked, Fresh, AtStart, AtErase, AtVerify, Start
<1> QED
  BY <1>1, <1>3 DEF Books, Unwalked, KernelsLedger, PinsLedger, ProofsLedger

\* Every step keeps the books.
LEMMA BooksKept == Typed /\ Whole /\ Books /\ [Next]_vars => Books'
<1> SUFFICES ASSUME Typed, Whole, Books, [Next]_vars PROVE Books'  OBVIOUS
<1>1. CASE Readback  BY <1>1, ReadbackKeepsBooks
<1>2. CASE Prove     BY <1>2, ProveKeepsBooks
<1>3. CASE Rig /\ rig.pc = "pins"
  <2>1. PinDie \/ PinMarker \/ PinErase \/ PinPage
    BY <1>3
    DEF Rig, At, ScanUart, Triage, Open, Announce, SendChunk, Jump, HaltCore, WriteSram, JumpCore,
        Hear, HearNothing, AwaitPark, ReadGeometry, Readback, Prove, TakePins
  <2> QED  BY <1>3, <2>1, PinsKeepBooks
<1>4. CASE Rig /\ rig.pc # "pins" /\ ~Readback /\ ~Prove  BY <1>4, RigKeepsBooks
<1>5. CASE Core  BY <1>5, CoreKeepsBooks
<1>6. CASE UNCHANGED vars
  <2>1. /\ Walked' /\ \A R : Ledger(R) => Ledger(R)'
        /\ \A R : \A c \in Cells : Accounted(R, c) => Accounted(R, c)'
    BY <1>6, WalkUnmoved DEF Books, vars
  <2>2. Unwalked'  BY <1>6 DEF Books, Unwalked, Unbegun, vars
  <2>3. KernelsLedger' /\ PinsLedger'
    BY <1>6, <2>1 DEF Books, KernelsLedger, PinsLedger, vars
  <2>4. ProofsLedger'  BY <1>6, <2>1 DEF Books, ProofsLedger, vars
  <2> QED  BY <2>1, <2>2, <2>3, <2>4 DEF Books
<1> QED  BY <1>1, <1>2, <1>3, <1>4, <1>5, <1>6 DEF Next

\* The books of the walk are in order whatever the board, the geometry and the
\* faults: behind the walk every block has one leaf and a true one, before it
\* none has been touched, in the kernel's mailbox (payload/fragments.rs) as under the
\* pins (pipeline.rs, run_via_bitbang).
THEOREM BooksInOrder == Spec => [](Typed /\ Whole /\ Books)
BY InitTyped, InitWhole, InitBooks, TypesKept, WholeKept, BooksKept, PTL DEF Spec

\* A proof of erasure accounts for every block of every die once and what it
\* says of the block is so (ProofIsTruthful of Resurrect), although complete()
\* only counts the leaves.
THEOREM TruthfulProofs == Spec => []ProofIsTruthful
<1>1. Books => ProofIsTruthful
  BY DEF Books, ProofsLedger, Accounted, ProofIsTruthful
<1> QED  BY <1>1, BooksInOrder, PTL
=============================================================================
