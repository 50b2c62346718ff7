--------------------------- MODULE BatchRunProofs ---------------------------
(***************************************************************************)
(* Proofs about BatchRun for any number of commands, drives, partitions,   *)
(* windows and faults, and any lists of targets: a worker has its drive to *)
(* itself and the drive the operator confirmed, a certificate covers the   *)
(* whole drive, and what a batch reports is what happened.                 *)
(*                                                                         *)
(* The invariant is stated command by command.  A step is that of one      *)
(* command, of another program or of the hands at the machine; it keeps    *)
(* the invariant of its own command, and those of the others because it    *)
(* leaves alone what they hold.                                            *)
(***************************************************************************)
EXTENDS BatchRun, TLAPS

----------------------------------------------------------------------------
(* The inductive invariant *)

CmdRec == [pc : Stages, job : Nat, node : Nat, exit : Exits]

CmdTyped    == cmd \in [Procs -> CmdRec]
               /\ \A p \in Procs : cmd[p].job \in 1 .. Len(batch[p]) + 1
WorkTyped   == worker \in [Procs -> [Devices -> WorkerState]]
DiskTyped   == /\ drive \in [Devices -> Nat] /\ \A d \in Devices : drive[d] <= faults
               /\ media \in [Devices -> [1 .. Windows -> Procs \cup {"old"}]]
ProbeTyped  == probed \in [Procs -> [Devices -> 0 .. MaxFaults[batch]]]
HolderTyped == holder \in [AllNodes -> Procs \cup {"none", "other"}]
FlagTyped   == signal \in [Procs -> 0 .. 3] /\ cancel \in [Procs -> BOOLEAN]
RunTyped    == batch \in Batches /\ faults \in 0 .. MaxFaults[batch]

Typed == CmdTyped /\ WorkTyped /\ DiskTyped /\ ProbeTyped /\ HolderTyped /\ FlagTyped /\ RunTyped

Held(p, d)      == \A k \in 0 .. Parts[d] : holder[<<d, k>>] = p
Confirmed(p, d) == d \notin Serialless => drive[d] = probed[p][d]

\* What has been locked so far is held and is what was probed: every target
\* before the current one whole, and of that one the nodes before the next.
Armed(p) ==
  cmd[p].pc = "arm" =>
    /\ \A i \in 1 .. Len(batch[p]) : i < cmd[p].job => Held(p, batch[p][i]) /\ Confirmed(p, batch[p][i])
    /\ cmd[p].job <= Len(batch[p]) =>
         /\ cmd[p].node <= Parts[Current(p)]
         /\ \A k \in 0 .. Parts[Current(p)] : k < cmd[p].node => holder[<<Current(p), k>>] = p
         /\ cmd[p].node > 0 => Confirmed(p, Current(p))

\* Between two disks no partition is due.
BetweenDisks(p) == cmd[p].pc # "arm" \/ cmd[p].job > Len(batch[p]) => cmd[p].node = 0

Owns(p) ==
  cmd[p].pc = "running" =>
    \A d \in Targets(p) : worker[p][d].at \notin Over => Held(p, d) /\ Confirmed(p, d)

\* The workers of a command are those of its targets, from the spawn on.
Employed(p) ==
  /\ cmd[p].pc \in Stages \ {"running", "exited"} => \A d \in Devices : worker[p][d] = Idle
  /\ cmd[p].pc = "running" => \A d \in Devices : worker[p][d].at # "none" <=> d \in Targets(p)

\* The windows behind a worker hold its pattern, as far as its drive keeps
\* what is written or its read-back has seen it.
Written(p) ==
  cmd[p].pc = "running" =>
    \A d \in Targets(p) :
      /\ worker[p][d].at = "create" => worker[p][d].w = 0
      /\ worker[p][d].at = "write" /\ d \notin Flaky
           => \A u \in 1 .. Windows : u <= worker[p][d].w => media[d][u] = p
      /\ worker[p][d].at = "verify" /\ ~worker[p][d].bad
           => \A u \in 1 .. Windows : u <= worker[p][d].w => media[d][u] = p
      /\ worker[p][d].at = "certify" /\ d \notin Flaky \ Verified
           => \A u \in 1 .. Windows : media[d][u] = p

\* A worker past its Completed record, and one that ended well.
Recorded(p) ==
  \A d \in Devices :
    /\ worker[p][d].at \in {"certify", "ok"} => worker[p][d].last = "Completed"
    /\ worker[p][d].at = "ok" => worker[p][d].cert

\* The exit code, and what the workers had come to when it was set.
ExitTrue(p) ==
  /\ cmd[p].pc # "exited" => cmd[p].exit = "none"
  /\ cmd[p].exit = "ok" => \A d \in Targets(p) : worker[p][d].cert /\ worker[p][d].last = "Completed"
  /\ cmd[p].exit \in {"dry", "refused", "interrupted", "aborted"}
       => \A d \in Devices : worker[p][d] = Idle
  /\ cmd[p].exit = "failed" => \E d \in Targets(p) : worker[p][d].at = "error"

\* The flag is raised by a signal, counted before, or by a hot drive.
Caused(p) ==
  /\ cancel[p] => signal[p] = 3 \/ \E e \in Targets(p) : worker[p][e].hot
  /\ \A d \in Devices :
       /\ worker[p][d].last = "Interrupted"
            => worker[p][d].signals > 0 \/ \E e \in Targets(p) : worker[p][e].hot
       /\ worker[p][d].last = "THERMAL_CRITICAL" => worker[p][d].hot

Sound(p) == /\ Armed(p) /\ BetweenDisks(p) /\ Owns(p) /\ Employed(p)
            /\ Written(p) /\ Recorded(p) /\ ExitTrue(p) /\ Caused(p)

IInv == Typed /\ \A p \in Procs : Sound(p)

----------------------------------------------------------------------------
(* Lists, nodes, names *)

LEMMA ListsAre ==
  ASSUME RunTyped, NEW p \in Procs
  PROVE  /\ Len(batch[p]) \in Nat
         /\ \A i \in 1 .. Len(batch[p]) : batch[p][i] \in Devices /\ batch[p][i] \in Targets(p)
         /\ \A d \in Targets(p) : d \in Devices /\ \E i \in 1 .. Len(batch[p]) : d = batch[p][i]
<1>1. PICK l \in Seq(Devices) : l = batch[p]  BY BatchAssumption DEF RunTyped
<1>2. Len(l) \in Nat /\ DOMAIN l = 1 .. Len(l) /\ \A i \in 1 .. Len(l) : l[i] \in Devices  OBVIOUS
<1> QED  BY <1>1, <1>2 DEF Targets, Range

LEMMA NodesAre ==
  /\ \A d \in Devices : Parts[d] \in Nat /\ 0 \in 0 .. Parts[d]
  /\ \A d \in Devices : \A k \in 0 .. Parts[d] : <<d, k>> \in AllNodes
  /\ \A d \in Devices : \A n : n \in Nodes(d) <=> \E k \in 0 .. Parts[d] : n = <<d, k>>
  /\ \A n \in AllNodes : \E d \in Devices : \E k \in 0 .. Parts[d] : n = <<d, k>>
<1>1. \A d \in Devices : Parts[d] \in Nat  BY BatchAssumption
<1>2. \A d \in Devices : \A n : n \in Nodes(d) <=> \E k \in 0 .. Parts[d] : n = <<d, k>>
  BY DEF Nodes
<1>3. \A d \in Devices : Nodes(d) \subseteq AllNodes  BY DEF AllNodes
<1>4. \A n \in AllNodes : \E d \in Devices : n \in Nodes(d)  BY DEF AllNodes
<1> QED  BY <1>1, <1>2, <1>3, <1>4

LEMMA Names ==
  \A p \in Procs : p # "none" /\ p # "other" /\ p # "old"
BY BatchAssumption

LEMMA Sizes ==
  /\ Windows \in Nat \ {0}
  /\ RunTyped => MaxFaults[batch] \in Nat /\ faults \in Nat
BY BatchAssumption DEF RunTyped

LEMMA HandlerRuns ==
  ASSUME NEW p \in Procs, signal[p] \in 0 .. 3
  PROVE  /\ Ran(p, "cancel") <=> signal[p] = 3
         /\ signal[p] = 3 => signals_received(p) = 1
         /\ signals_received(p) \in 0 .. 1
         /\ signal[p] < 3 => (Handler[signal[p] + 1] = "cancel" <=> signal[p] = 2)
         /\ Len(Handler) = 3
<1>1. Handler[1] = "seen" /\ Handler[2] = "count" /\ Handler[3] = "cancel" /\ Len(Handler) = 3
  BY DEF Handler
<1>2. Ran(p, "cancel") <=> signal[p] = 3
  <2>1. ASSUME Ran(p, "cancel") PROVE signal[p] = 3
    <3>1. PICK i \in 1 .. signal[p] : Handler[i] = "cancel"  BY <2>1 DEF Ran
    <3>2. i \in 1 .. 3  OBVIOUS
    <3>3. i # 1 /\ i # 2  BY <1>1, <3>1
    <3> QED  BY <3>2, <3>3
  <2>2. ASSUME signal[p] = 3 PROVE Ran(p, "cancel")
    <3>1. 3 \in 1 .. signal[p]  BY <2>2
    <3> QED  BY <1>1, <3>1 DEF Ran
  <2> QED  BY <2>1, <2>2
<1>3. signal[p] = 3 => Ran(p, "count")
  <2>1. signal[p] = 3 => 2 \in 1 .. signal[p]  OBVIOUS
  <2> QED  BY <1>1, <2>1 DEF Ran
<1>4. signal[p] < 3 => (Handler[signal[p] + 1] = "cancel" <=> signal[p] = 2)
  <2>1. signal[p] \in {0, 1, 2, 3}  OBVIOUS
  <2> QED  BY <1>1, <2>1
<1> QED  BY <1>1, <1>2, <1>3, <1>4 DEF signals_received

----------------------------------------------------------------------------
(* What a step does not touch *)

\* The step is not one of this command, and takes from it neither a lock nor
\* a drive it has locked.
Leaves(p) ==
  /\ UNCHANGED batch
  /\ cmd'[p] = cmd[p] /\ worker'[p] = worker[p] /\ probed'[p] = probed[p]
  /\ signal'[p] = signal[p] /\ cancel'[p] = cancel[p]
  /\ \A n \in AllNodes : holder[n] = p => holder'[n] = p
  /\ \A d \in Devices : holder[<<d, 0>>] = p => drive'[d] = drive[d] /\ media'[d] = media[d]

\* What a command holds stays its own, and what it has confirmed there.
LEMMA HeldStays ==
  ASSUME NEW p \in Procs, NEW d \in Devices, Leaves(p), Held(p, d)
  PROVE  /\ Held(p, d)' /\ media'[d] = media[d]
         /\ Confirmed(p, d) => Confirmed(p, d)'
BY NodesAre DEF Leaves, Held, Confirmed

LEMMA SoundStays ==
  ASSUME RunTyped, CmdTyped, NEW p \in Procs, Sound(p), Leaves(p)
  PROVE  Sound(p)'
<1> USE DEF Sound
<1>1. /\ UNCHANGED batch /\ cmd'[p] = cmd[p] /\ worker'[p] = worker[p] /\ probed'[p] = probed[p]
      /\ signal'[p] = signal[p] /\ cancel'[p] = cancel[p]
      /\ Targets(p)' = Targets(p) /\ Current(p)' = Current(p)
  BY DEF Leaves, Targets, Current
<1>2. \A i \in 1 .. Len(batch[p]) : batch[p][i] \in Devices  BY ListsAre
<1>3. \A d \in Targets(p) : d \in Devices  BY ListsAre
<1>4. Armed(p)'
  <2> SUFFICES ASSUME cmd[p].pc = "arm"
               PROVE  /\ \A i \in 1 .. Len(batch[p]) :
                           i < cmd[p].job => Held(p, batch[p][i])' /\ Confirmed(p, batch[p][i])'
                      /\ cmd[p].job <= Len(batch[p]) =>
                           /\ cmd[p].node <= Parts[Current(p)]
                           /\ \A k \in 0 .. Parts[Current(p)] :
                                k < cmd[p].node => holder'[<<Current(p), k>>] = p
                           /\ cmd[p].node > 0 => Confirmed(p, Current(p))'
    BY <1>1 DEF Armed, Held, Confirmed
  <2>1. \A i \in 1 .. Len(batch[p]) :
          i < cmd[p].job => Held(p, batch[p][i])' /\ Confirmed(p, batch[p][i])'
    <3> SUFFICES ASSUME NEW i \in 1 .. Len(batch[p]), i < cmd[p].job
                 PROVE  Held(p, batch[p][i])' /\ Confirmed(p, batch[p][i])'
      OBVIOUS
    <3>1. PICK d \in Devices : d = batch[p][i]  BY <1>2
    <3>2. Held(p, d) /\ Confirmed(p, d)  BY <3>1 DEF Armed
    <3>3. Held(p, d)' /\ Confirmed(p, d)'  BY <3>2, HeldStays
    <3> QED  BY <1>1, <3>1, <3>3 DEF Held, Confirmed
  <2>2. ASSUME cmd[p].job <= Len(batch[p])
        PROVE  /\ \A k \in 0 .. Parts[Current(p)] :
                    k < cmd[p].node => holder'[<<Current(p), k>>] = p
               /\ cmd[p].node > 0 => Confirmed(p, Current(p))'
    <3>1. Current(p) \in Devices /\ cmd[p].node \in Nat
      BY <1>2, <2>2, ListsAre DEF Current, CmdTyped, CmdRec
    <3>2. \A k \in 0 .. Parts[Current(p)] : k < cmd[p].node => holder'[<<Current(p), k>>] = p
      BY <2>2, <3>1, NodesAre DEF Armed, Leaves
    <3>3. ASSUME cmd[p].node > 0 PROVE Confirmed(p, Current(p))'
      <4>1. holder[<<Current(p), 0>>] = p  BY <2>2, <3>1, <3>3, NodesAre DEF Armed
      <4> QED  BY <1>1, <2>2, <3>1, <3>3, <4>1 DEF Armed, Leaves, Confirmed
    <3> QED  BY <3>2, <3>3
  <2> QED  BY <2>1, <2>2 DEF Armed
<1>5. Owns(p)'
  <2>1. ASSUME cmd[p].pc = "running", NEW d \in Targets(p), worker[p][d].at \notin Over
        PROVE  Held(p, d)' /\ Confirmed(p, d)'
    BY <1>3, <2>1, HeldStays DEF Owns
  <2> QED  BY <1>1, <2>1 DEF Owns
<1>6. Written(p)'
  <2>1. ASSUME cmd[p].pc = "running", NEW d \in Targets(p), worker[p][d].at \notin Over
        PROVE  media'[d] = media[d]
    BY <1>3, <2>1, HeldStays DEF Owns
  <2>2. ASSUME cmd[p].pc = "running", NEW d \in Targets(p)
        PROVE  worker[p][d].at \in {"write", "verify", "certify"} => media'[d] = media[d]
    BY <2>1, <2>2 DEF Over
  <2> QED  BY <1>1, <2>2 DEF Written
<1>7. BetweenDisks(p)' /\ Employed(p)'  BY <1>1 DEF BetweenDisks, Employed
<1>8. Recorded(p)' /\ ExitTrue(p)' /\ Caused(p)'  BY <1>1 DEF Recorded, ExitTrue, Caused
<1> QED  BY <1>4, <1>5, <1>6, <1>7, <1>8

----------------------------------------------------------------------------
(* The main thread *)

LEMMA GotoIs ==
  ASSUME CmdTyped, NEW p \in Procs, NEW pc \in Stages, Goto(p, pc), RunTyped, UNCHANGED batch
  PROVE  /\ CmdTyped' /\ \A q \in Procs : q # p => cmd'[q] = cmd[q]
         /\ cmd'[p].pc = pc /\ cmd'[p].job = 1
         /\ cmd'[p].node = cmd[p].node /\ cmd'[p].exit = cmd[p].exit
<1>1. PICK r : r = [[cmd[p] EXCEPT !.pc = pc] EXCEPT !.job = 1]  OBVIOUS
<1>2. r \in CmdRec /\ r.pc = pc /\ r.job = 1 /\ r.node = cmd[p].node /\ r.exit = cmd[p].exit
  BY <1>1 DEF CmdTyped, CmdRec
<1>3. cmd' = [cmd EXCEPT ![p] = r]  BY <1>1 DEF CmdTyped, Goto
<1>4. cmd' \in [Procs -> CmdRec] /\ cmd'[p] = r /\ \A q \in Procs : q # p => cmd'[q] = cmd[q]
  BY <1>2, <1>3 DEF CmdTyped
<1>5. \A q \in Procs : cmd'[q].job \in 1 .. Len(batch[q]) + 1
  BY <1>2, <1>4, ListsAre DEF CmdTyped
<1> QED  BY <1>2, <1>4, <1>5 DEF CmdTyped

LEMMA ExitIs ==
  ASSUME CmdTyped, NEW p \in Procs, NEW exit \in Exits, Exit(p, exit), RunTyped, UNCHANGED batch
  PROVE  /\ CmdTyped' /\ \A q \in Procs : q # p => cmd'[q] = cmd[q]
         /\ cmd'[p].pc = "exited" /\ cmd'[p].node = 0 /\ cmd'[p].exit = exit
<1>1. PICK r : r = [pc |-> "exited", job |-> 1, node |-> 0, exit |-> exit]  OBVIOUS
<1>2. r \in CmdRec /\ r.pc = "exited" /\ r.job = 1 /\ r.node = 0 /\ r.exit = exit
  BY <1>1 DEF CmdRec, Stages
<1>3. cmd' = [cmd EXCEPT ![p] = r]  BY <1>1 DEF Exit
<1>4. cmd' \in [Procs -> CmdRec] /\ cmd'[p] = r /\ \A q \in Procs : q # p => cmd'[q] = cmd[q]
  BY <1>2, <1>3 DEF CmdTyped
<1>5. \A q \in Procs : cmd'[q].job \in 1 .. Len(batch[q]) + 1
  BY <1>2, <1>4, ListsAre DEF CmdTyped
<1> QED  BY <1>2, <1>4, <1>5 DEF CmdTyped

\* A command that exits leaves its workers and its flag as they are.
LEMMA SoundStops ==
  ASSUME NEW p \in Procs, Sound(p), cmd'[p].pc = "exited", cmd'[p].node = 0, ExitTrue(p)',
         UNCHANGED <<batch, signal, cancel, worker>>
  PROVE  Sound(p)'
<1>1. Targets(p)' = Targets(p)  BY DEF Targets
<1> QED
  BY <1>1 DEF Sound, Armed, BetweenDisks, Owns, Employed, Written, Recorded, Caused, Stages

\* Before the locks nothing is claimed but that the workers have not started.
LEMMA SoundBefore ==
  ASSUME NEW p \in Procs, Sound(p), cmd[p].pc \in {"probe", "gate", "prompt", "prearm"},
         \/ cmd'[p].pc \in {"probe", "gate", "prompt", "prearm"}
         \/ cmd'[p].pc = "arm" /\ cmd'[p].job = 1,
         cmd'[p].node = cmd[p].node, cmd'[p].exit = cmd[p].exit, RunTyped,
         UNCHANGED <<batch, signal, cancel, worker>>
  PROVE  Sound(p)'
<1> USE DEF Sound
<1>0. cmd'[p].pc \notin {"running", "exited"} /\ cmd'[p].pc \in Stages  BY DEF Stages
<1>1. Targets(p)' = Targets(p)  BY DEF Targets
<1>2. cmd'[p].node = 0  BY DEF BetweenDisks
<1>3. Armed(p)'
  <2> SUFFICES ASSUME cmd'[p].pc = "arm", cmd'[p].job = 1 PROVE Armed(p)'  BY DEF Armed
  <2>1. \A i \in 1 .. Len(batch[p]) : ~(i < cmd'[p].job)  OBVIOUS
  <2>2. cmd'[p].job <= Len(batch[p]) => batch[p][cmd'[p].job] \in Devices
    BY ListsAre
  <2>3. cmd'[p].job <= Len(batch[p]) =>
           Parts[batch[p][cmd'[p].job]] \in Nat
    BY <2>2, NodesAre
  <2> QED  BY <1>2, <2>1, <2>3 DEF Armed, Current
<1>4. BetweenDisks(p)' /\ Owns(p)' /\ Written(p)'  BY <1>0, <1>2 DEF BetweenDisks, Owns, Written
<1>5. Employed(p)'  BY <1>0 DEF Employed, Stages
<1>6. Recorded(p)' /\ Caused(p)'  BY <1>1 DEF Recorded, Caused
<1>7. ExitTrue(p)'  BY <1>0, <1>1 DEF ExitTrue
<1> QED  BY <1>3, <1>4, <1>5, <1>6, <1>7

\* Out of what a command says before its workers start.
LEMMA IdleExits ==
  ASSUME NEW p \in Procs, Sound(p), cmd[p].pc \in Stages \ {"running", "exited"},
         cmd'[p].pc = "exited", cmd'[p].exit \in {"dry", "refused", "interrupted", "aborted"},
         UNCHANGED worker
  PROVE  ExitTrue(p)'
BY DEF Sound, Employed, ExitTrue

\* The others see nothing of a main thread that has no lock yet.
LEMMA MainLeaves ==
  ASSUME NEW p \in Procs, NEW q \in Procs, q # p, cmd'[q] = cmd[q], probed'[q] = probed[q],
         UNCHANGED <<batch, hardware, signal, cancel, worker>>,
         \A n \in AllNodes : holder'[n] = holder[n] \/ holder[n] = p \/ holder[n] = "none"
  PROVE  Leaves(q)
BY Names DEF Leaves, hardware

LEMMA IInvFrom ==
  ASSUME IInv, NEW p \in Procs, Sound(p)', Typed', \A q \in Procs : q # p => Leaves(q)
  PROVE  IInv'
<1>1. \A q \in Procs : q # p => Sound(q)'  BY SoundStays DEF IInv, Typed
<1> QED  BY <1>1 DEF IInv

LEMMA PrecheckKeeps == ASSUME IInv, NEW p \in Procs, Precheck(p) PROVE IInv'
<1> USE DEF IInv
<1>1. cmd[p].pc = "probe" /\ UNCHANGED <<batch, hardware, holder, signal, cancel, worker, faults>>
  BY DEF Precheck
<1>2. CmdTyped /\ RunTyped  BY DEF Typed
<1>3. /\ CmdTyped' /\ \A q \in Procs : q # p => cmd'[q] = cmd[q]
      /\ \/ cmd'[p].pc = "exited" /\ cmd'[p].node = 0 /\ cmd'[p].exit = "refused"
         \/ /\ cmd'[p].pc \in {"probe", "gate"} /\ cmd'[p].node = cmd[p].node
            /\ cmd'[p].exit = cmd[p].exit
  <2>1. CASE Exit(p, "refused")  BY <1>1, <1>2, <2>1, ExitIs DEF Exits
  <2>2. CASE Goto(p, "gate")  BY <1>1, <1>2, <2>2, GotoIs DEF Stages
  <2>3. CASE cmd' = [cmd EXCEPT ![p].job = @ + 1] /\ cmd[p].job <= Len(batch[p])
    <3>1. PICK r : r = [cmd[p] EXCEPT !.job = @ + 1]  OBVIOUS
    <3>2. /\ r \in CmdRec /\ r.pc = "probe" /\ r.node = cmd[p].node /\ r.exit = cmd[p].exit
          /\ r.job = cmd[p].job + 1
      BY <1>1, <1>2, <3>1 DEF CmdTyped, CmdRec
    <3>3. cmd' = [cmd EXCEPT ![p] = r]  BY <2>3, <3>1 DEF CmdTyped
    <3>4. cmd' \in [Procs -> CmdRec] /\ cmd'[p] = r /\ \A q \in Procs : q # p => cmd'[q] = cmd[q]
      BY <1>2, <3>2, <3>3 DEF CmdTyped
    <3>5. \A q \in Procs : cmd'[q].job \in 1 .. Len(batch[q]) + 1
      BY <1>2, <2>3, <3>2, <3>4, ListsAre DEF CmdTyped
    <3> QED  BY <1>1, <3>2, <3>4, <3>5 DEF CmdTyped
  <2> QED  BY <2>1, <2>2, <2>3 DEF Precheck
<1>4. ProbeTyped' /\ \A q \in Procs : q # p => probed'[q] = probed[q]
  <2>1. CASE UNCHANGED probed  BY <1>1, <2>1 DEF Typed, ProbeTyped
  <2>2. CASE /\ cmd[p].job <= Len(batch[p])
             /\ probed' = [probed EXCEPT ![p][Current(p)] = drive[Current(p)]]
    <3>1. PICK d \in Devices : d = Current(p)
      BY <1>2, <2>2, ListsAre DEF Current, CmdTyped
    <3>2. drive[d] \in 0 .. MaxFaults[batch]
      BY Sizes, <3>1 DEF Typed, DiskTyped, RunTyped
    <3>3. probed' = [probed EXCEPT ![p][d] = drive[d]]  BY <2>2, <3>1
    <3> QED  BY <1>1, <3>2, <3>3 DEF Typed, ProbeTyped
  <2> QED  BY <2>1, <2>2 DEF Precheck
<1>5. Typed'
  BY <1>1, <1>3, <1>4 DEF Typed, WorkTyped, DiskTyped, HolderTyped, FlagTyped, RunTyped, hardware
<1>6. Sound(p)'
  <2>1. CASE cmd'[p].pc = "exited" /\ cmd'[p].node = 0 /\ cmd'[p].exit = "refused"
    <3>1. ExitTrue(p)'  BY <1>1, <2>1, IdleExits DEF Stages
    <3> QED  BY <1>1, <2>1, <3>1, SoundStops
  <2>2. CASE /\ cmd'[p].pc \in {"probe", "gate"} /\ cmd'[p].node = cmd[p].node
             /\ cmd'[p].exit = cmd[p].exit
    BY <1>1, <1>2, <2>2, SoundBefore
  <2> QED  BY <1>3, <2>1, <2>2
<1>7. \A q \in Procs : q # p => Leaves(q)  BY <1>1, <1>3, <1>4, MainLeaves
<1> QED  BY <1>5, <1>6, <1>7, IInvFrom

LEMMA GatesKeep == ASSUME IInv, NEW p \in Procs, Gate(p) \/ Answer(p) \/ PreArm(p) PROVE IInv'
<1> USE DEF IInv
<1>1. /\ cmd[p].pc \in {"gate", "prompt", "prearm"}
      /\ UNCHANGED <<batch, hardware, holder, probed, signal, cancel, worker, faults>>
  BY DEF Gate, Answer, PreArm
<1>2. CmdTyped /\ RunTyped  BY DEF Typed
<1>3. /\ CmdTyped' /\ \A q \in Procs : q # p => cmd'[q] = cmd[q]
      /\ \/ /\ cmd'[p].pc = "exited" /\ cmd'[p].node = 0
            /\ cmd'[p].exit \in {"dry", "refused", "interrupted", "aborted"}
         \/ /\ cmd'[p].pc \in {"prompt", "prearm", "arm"} /\ cmd'[p].job = 1
            /\ cmd'[p].node = cmd[p].node /\ cmd'[p].exit = cmd[p].exit
  <2>1. ASSUME NEW exit \in {"dry", "refused", "interrupted", "aborted"}, Exit(p, exit)
        PROVE  /\ CmdTyped' /\ \A q \in Procs : q # p => cmd'[q] = cmd[q]
               /\ cmd'[p].pc = "exited" /\ cmd'[p].node = 0 /\ cmd'[p].exit = exit
    BY <1>1, <1>2, <2>1, ExitIs DEF Exits
  <2>2. ASSUME NEW pc \in {"prompt", "prearm", "arm"}, Goto(p, pc)
        PROVE  /\ CmdTyped' /\ \A q \in Procs : q # p => cmd'[q] = cmd[q]
               /\ cmd'[p].pc = pc /\ cmd'[p].job = 1
               /\ cmd'[p].node = cmd[p].node /\ cmd'[p].exit = cmd[p].exit
    BY <1>1, <1>2, <2>2, GotoIs DEF Stages
  <2>3. \/ \E exit \in {"dry", "refused", "interrupted", "aborted"} : Exit(p, exit)
        \/ \E pc \in {"prompt", "prearm", "arm"} : Goto(p, pc)
    BY DEF Gate, Answer, PreArm
  <2> QED  BY <2>1, <2>2, <2>3
<1>4. Typed'
  BY <1>1, <1>3 DEF Typed, WorkTyped, DiskTyped, ProbeTyped, HolderTyped, FlagTyped, RunTyped, hardware
<1>5. Sound(p)'
  <2>1. CASE /\ cmd'[p].pc = "exited" /\ cmd'[p].node = 0
             /\ cmd'[p].exit \in {"dry", "refused", "interrupted", "aborted"}
    <3>1. ExitTrue(p)'  BY <1>1, <2>1, IdleExits DEF Stages
    <3> QED  BY <1>1, <2>1, <3>1, SoundStops
  <2>2. CASE /\ cmd'[p].pc \in {"prompt", "prearm", "arm"} /\ cmd'[p].job = 1
             /\ cmd'[p].node = cmd[p].node /\ cmd'[p].exit = cmd[p].exit
    BY <1>1, <1>2, <2>2, SoundBefore
  <2> QED  BY <1>3, <2>1, <2>2
<1>6. \A q \in Procs : q # p => Leaves(q)  BY <1>1, <1>3, MainLeaves
<1> QED  BY <1>4, <1>5, <1>6, IInvFrom

----------------------------------------------------------------------------
(* Locks *)

LEMMA ReleasedIs ==
  ASSUME HolderTyped, NEW p \in Procs, holder' = Released(p)
  PROVE  HolderTyped' /\ \A n \in AllNodes : holder'[n] = holder[n] \/ holder[n] = p
BY DEF HolderTyped, Released

\* The next node was free and is held now; nothing else changes hands.
LEMMA NodeTaken ==
  ASSUME HolderTyped, NEW p \in Procs, NEW node \in AllNodes,
         holder[node] = "none", holder' = [holder EXCEPT ![node] = p]
  PROVE  /\ HolderTyped' /\ holder'[node] = p
         /\ \A n \in AllNodes : holder[n] # "none" => holder'[n] = holder[n]
         /\ \A n \in AllNodes : holder'[n] = holder[n] \/ holder[n] = "none"
         /\ \A e \in Devices : Held(p, e) => Held(p, e)'
<1>1. /\ HolderTyped' /\ holder'[node] = p
      /\ \A n \in AllNodes : n # node => holder'[n] = holder[n]
  BY DEF HolderTyped
<1>2. \A e \in Devices : Held(p, e) => Held(p, e)'
  BY <1>1, NodesAre, Names DEF Held
<1> QED  BY <1>1, <1>2

\* The command goes to the next partition, or to its next target.
LEMMA NodeCounted ==
  ASSUME CmdTyped, RunTyped, NEW p \in Procs, NEW d \in Devices, cmd[p].pc = "arm",
         cmd[p].job <= Len(batch[p]), cmd[p].node <= Parts[d], UNCHANGED batch,
         cmd' = IF cmd[p].node < LastNode(d) THEN [cmd EXCEPT ![p].node = @ + 1]
                ELSE [cmd EXCEPT ![p].job = @ + 1, ![p].node = 0]
  PROVE  /\ CmdTyped' /\ \A q \in Procs : q # p => cmd'[q] = cmd[q]
         /\ cmd'[p].pc = "arm" /\ cmd'[p].exit = cmd[p].exit
         /\ \/ /\ cmd[p].node < Parts[d]
               /\ cmd'[p].job = cmd[p].job /\ cmd'[p].node = cmd[p].node + 1
            \/ /\ cmd[p].node = Parts[d]
               /\ cmd'[p].job = cmd[p].job + 1 /\ cmd'[p].node = 0
<1>1. PICK c : c = cmd[p]  OBVIOUS
<1>2. c \in CmdRec /\ c.job \in 1 .. Len(batch[p]) + 1 /\ Len(batch[p]) \in Nat /\ Parts[d] \in Nat
  BY <1>1, NodesAre, ListsAre DEF CmdTyped
<1>3. PICK r : /\ cmd' = [cmd EXCEPT ![p] = r] /\ r \in CmdRec /\ r.pc = c.pc /\ r.exit = c.exit
               /\ \/ c.node < Parts[d] /\ r.job = c.job /\ r.node = c.node + 1
                  \/ c.node = Parts[d] /\ r.job = c.job + 1 /\ r.node = 0
  <2>1. CASE c.node < Parts[d]
    <3>1. PICK r : r = [c EXCEPT !.node = c.node + 1]  OBVIOUS
    <3>2. cmd' = [cmd EXCEPT ![p] = r]  BY <1>1, <2>1, <3>1 DEF CmdTyped, LastNode
    <3>3. r \in CmdRec /\ r.pc = c.pc /\ r.exit = c.exit /\ r.job = c.job /\ r.node = c.node + 1
      BY <1>2, <3>1 DEF CmdRec
    <3> QED  BY <2>1, <3>2, <3>3
  <2>2. CASE ~(c.node < Parts[d])
    <3>1. PICK r : r = [[c EXCEPT !.job = c.job + 1] EXCEPT !.node = 0]  OBVIOUS
    <3>2. cmd' = [cmd EXCEPT ![p] = r]  BY <1>1, <2>2, <3>1 DEF CmdTyped, LastNode
    <3>3. c.node = Parts[d]  BY <1>1, <1>2, <2>2 DEF CmdRec
    <3>4. r \in CmdRec /\ r.pc = c.pc /\ r.exit = c.exit /\ r.job = c.job + 1 /\ r.node = 0
      <4>1. PICK s : s = [c EXCEPT !.job = c.job + 1]  OBVIOUS
      <4>2. s \in CmdRec /\ s.pc = c.pc /\ s.exit = c.exit /\ s.job = c.job + 1
        BY <1>2, <4>1 DEF CmdRec
      <4>3. r = [s EXCEPT !.node = 0]  BY <3>1, <4>1
      <4> QED  BY <4>2, <4>3 DEF CmdRec
    <3> QED  BY <3>2, <3>3, <3>4
  <2> QED  BY <2>1, <2>2
<1>6. cmd' \in [Procs -> CmdRec] /\ cmd'[p] = r /\ \A q \in Procs : q # p => cmd'[q] = cmd[q]
  BY <1>3 DEF CmdTyped
<1>7. r.job \in 1 .. Len(batch[p]) + 1  BY <1>1, <1>2, <1>3
<1>8. CmdTyped'  BY <1>6, <1>7 DEF CmdTyped
<1> QED  BY <1>1, <1>3, <1>6, <1>8

\* A node is locked: of a disk that is the one probed, or one of its
\* partitions after it.
LEMMA NodeArms ==
  ASSUME IInv, NEW p \in Procs, NEW d \in Devices, NEW k \in 0 .. Parts[d],
         cmd[p].pc = "arm", cmd[p].job <= Len(batch[p]), d = Current(p), k = cmd[p].node,
         k = 0 => Confirmed(p, d), holder'[<<d, k>>] = p,
         \A n \in AllNodes : holder[n] # "none" => holder'[n] = holder[n],
         \A e \in Devices : Held(p, e) => Held(p, e)',
         cmd'[p].pc = "arm",
         \/ k < Parts[d] /\ cmd'[p].job = cmd[p].job /\ cmd'[p].node = k + 1
         \/ k = Parts[d] /\ cmd'[p].job = cmd[p].job + 1 /\ cmd'[p].node = 0,
         UNCHANGED batch, UNCHANGED drive, UNCHANGED probed
  PROVE  Armed(p)'
<1>0. Armed(p) /\ CmdTyped /\ RunTyped  BY DEF IInv, Typed, Sound
<1>3. Parts[d] \in Nat /\ cmd[p] \in CmdRec /\ cmd[p].job \in 1 .. Len(batch[p]) + 1 /\ Len(batch[p]) \in Nat
  BY <1>0, NodesAre, ListsAre DEF CmdTyped
<1>9. \A e \in Devices : Confirmed(p, e) => Confirmed(p, e)'  BY DEF Confirmed
<1>10. Confirmed(p, d)' /\ \A i \in 0 .. Parts[d] : i <= k => holder'[<<d, i>>] = p
  <2>1. Confirmed(p, d)  BY <1>0, <1>3 DEF Armed, CmdRec
  <2>2. \A i \in 0 .. Parts[d] : i < k => holder[<<d, i>>] = p  BY <1>0 DEF Armed
  <2>3. \A i \in 0 .. Parts[d] : i < k => holder'[<<d, i>>] = p  BY <2>2, NodesAre, Names
  <2>4. \A i \in 0 .. Parts[d] : i <= k => i < k \/ i = k  OBVIOUS
  <2> QED  BY <1>9, <2>1, <2>3, <2>4
<1>11. \A i \in 1 .. Len(batch[p]) : i < cmd[p].job =>
          Held(p, batch[p][i])' /\ Confirmed(p, batch[p][i])'
  <2> SUFFICES ASSUME NEW i \in 1 .. Len(batch[p]), i < cmd[p].job
               PROVE  Held(p, batch[p][i])' /\ Confirmed(p, batch[p][i])'
    OBVIOUS
  <2>1. PICK e \in Devices : e = batch[p][i]  BY <1>0, ListsAre
  <2>2. Held(p, e) /\ Confirmed(p, e)  BY <1>0, <2>1 DEF Armed
  <2>3. Held(p, e)' /\ Confirmed(p, e)'  BY <1>9, <2>2
  <2> QED  BY <2>1, <2>3 DEF Held, Confirmed
<1>12. CASE k < Parts[d] /\ cmd'[p].job = cmd[p].job /\ cmd'[p].node = k + 1
  <2>1. \A i \in 0 .. Parts[d] : i < k + 1 => i <= k  OBVIOUS
  <2>2. Current(p)' = d  BY <1>12 DEF Current
  <2>3. \A i \in 0 .. Parts[d] : i < cmd'[p].node => holder'[<<d, i>>] = p
    BY <1>10, <1>12, <2>1
  <2>4. cmd'[p].node <= Parts[d]  BY <1>3, <1>12
  <2>5. Confirmed(p, Current(p))'  BY <1>10, <2>2 DEF Confirmed
  <2>6. \A i \in 1 .. Len(batch[p]) : i < cmd'[p].job =>
          Held(p, batch[p][i])' /\ Confirmed(p, batch[p][i])'
    BY <1>11, <1>12
  <2> QED  BY <2>2, <2>3, <2>4, <2>5, <2>6 DEF Armed
<1>13. CASE k = Parts[d] /\ cmd'[p].job = cmd[p].job + 1 /\ cmd'[p].node = 0
  <2>1. Held(p, d)'  BY <1>10, <1>13 DEF Held
  <2>2. ASSUME NEW i \in 1 .. Len(batch[p]), i = cmd[p].job
        PROVE  Held(p, batch[p][i])' /\ Confirmed(p, batch[p][i])'
    BY <1>10, <2>1, <2>2 DEF Held, Confirmed, Current
  <2>3. \A i \in 1 .. Len(batch[p]) : i < cmd'[p].job => i < cmd[p].job \/ i = cmd[p].job
    BY <1>3, <1>13
  <2>4. \A i \in 1 .. Len(batch[p]) : i < cmd'[p].job =>
          Held(p, batch[p][i])' /\ Confirmed(p, batch[p][i])'
    BY <1>11, <2>2, <2>3
  <2>5. cmd'[p].job <= Len(batch[p]) => Parts[Current(p)'] \in Nat
    BY <1>0, <1>3, <1>13, ListsAre, NodesAre DEF Current
  <2> QED  BY <1>13, <2>4, <2>5 DEF Armed
<1> QED  BY <1>12, <1>13

LEMMA NodeLocks ==
  ASSUME IInv, NEW p \in Procs, NEW d \in Devices, NEW k \in 0 .. Parts[d],
         cmd[p].pc = "arm", cmd[p].job <= Len(batch[p]), d = Current(p), k = cmd[p].node,
         holder[<<d, k>>] = "none", k = 0 => Confirmed(p, d),
         holder' = [holder EXCEPT ![<<d, k>>] = p],
         cmd' = IF cmd[p].node < LastNode(d) THEN [cmd EXCEPT ![p].node = @ + 1]
                ELSE [cmd EXCEPT ![p].job = @ + 1, ![p].node = 0],
         UNCHANGED <<batch, hardware, probed, signal, cancel, worker, faults>>
  PROVE  IInv'
<1>0. Typed /\ CmdTyped /\ RunTyped /\ HolderTyped  BY DEF IInv, Typed
<1>1. /\ HolderTyped' /\ holder'[<<d, k>>] = p
      /\ \A n \in AllNodes : holder[n] # "none" => holder'[n] = holder[n]
      /\ \A n \in AllNodes : holder'[n] = holder[n] \/ holder[n] = "none"
      /\ \A e \in Devices : Held(p, e) => Held(p, e)'
  <2>1. PICK node \in AllNodes : node = <<d, k>>  BY NodesAre
  <2>2. holder[node] = "none" /\ holder' = [holder EXCEPT ![node] = p]  BY <2>1
  <2>3. /\ HolderTyped' /\ holder'[node] = p
        /\ \A n \in AllNodes : holder[n] # "none" => holder'[n] = holder[n]
        /\ \A n \in AllNodes : holder'[n] = holder[n] \/ holder[n] = "none"
        /\ \A e \in Devices : Held(p, e) => Held(p, e)'
    BY <1>0, <2>2, NodeTaken
  <2> QED  BY <2>1, <2>3
<1>2. /\ CmdTyped' /\ \A q \in Procs : q # p => cmd'[q] = cmd[q]
      /\ cmd'[p].pc = "arm" /\ cmd'[p].exit = cmd[p].exit
      /\ \/ k < Parts[d] /\ cmd'[p].job = cmd[p].job /\ cmd'[p].node = k + 1
         \/ k = Parts[d] /\ cmd'[p].job = cmd[p].job + 1 /\ cmd'[p].node = 0
  <2>1. cmd[p].node <= Parts[d]  OBVIOUS
  <2> QED  BY <1>0, <2>1, NodeCounted
<1>8. Typed'
  BY <1>0, <1>1, <1>2 DEF Typed, WorkTyped, DiskTyped, ProbeTyped, FlagTyped, RunTyped, hardware
<1>9. Targets(p)' = Targets(p)  BY DEF Targets
<1>10. Armed(p)'  BY <1>1, <1>2, NodeArms DEF hardware
<1>11. BetweenDisks(p)'
  <2>1. Len(batch[p]) \in Nat /\ cmd[p].job \in Nat  BY <1>0, ListsAre DEF CmdTyped
  <2> QED  BY <1>2, <2>1 DEF BetweenDisks
<1>14. Owns(p)' /\ Written(p)'  BY <1>2 DEF Owns, Written
<1>15. Employed(p)' /\ Recorded(p)' /\ Caused(p)' /\ ExitTrue(p)'
  BY <1>2, <1>9 DEF IInv, Sound, Employed, Recorded, Caused, ExitTrue, Stages
<1>17. \A q \in Procs : q # p => Leaves(q)  BY <1>1, <1>2, MainLeaves
<1> QED  BY <1>8, <1>10, <1>11, <1>14, <1>15, <1>17, IInvFrom DEF Sound

LEMMA ArmKeeps == ASSUME IInv, NEW p \in Procs, ArmNext(p) PROVE IInv'
<1> USE DEF IInv
<1>0. CmdTyped /\ RunTyped /\ HolderTyped  BY DEF Typed
<1>1. /\ cmd[p].pc = "arm" /\ cmd[p].job <= Len(batch[p])
      /\ UNCHANGED <<batch, hardware, probed, signal, cancel, worker, faults>>
  BY DEF ArmNext
<1>2. PICK d \in Devices : d = Current(p)
  BY <1>0, <1>1, ListsAre DEF Current, CmdTyped
<1>3. PICK k \in 0 .. Parts[d] : k = cmd[p].node
  BY <1>0, <1>1, <1>2, NodesAre DEF Sound, Armed, CmdTyped, CmdRec
<1>4. CASE ArmingRefused(p) /\ holder' = Released(p) /\ Exit(p, "refused")
  <2>1. /\ CmdTyped' /\ \A q \in Procs : q # p => cmd'[q] = cmd[q]
        /\ cmd'[p].pc = "exited" /\ cmd'[p].node = 0 /\ cmd'[p].exit = "refused"
    BY <1>0, <1>1, <1>4, ExitIs DEF Exits
  <2>2. HolderTyped' /\ \A n \in AllNodes : holder'[n] = holder[n] \/ holder[n] = p
    BY <1>0, <1>4, ReleasedIs
  <2>3. Typed'
    BY <1>1, <2>1, <2>2 DEF Typed, WorkTyped, DiskTyped, ProbeTyped, FlagTyped, RunTyped, hardware
  <2>4. Sound(p)'
    <3>1. ExitTrue(p)'  BY <1>1, <2>1, IdleExits DEF Stages
    <3> QED  BY <1>1, <2>1, <3>1, SoundStops
  <2>5. \A q \in Procs : q # p => Leaves(q)  BY <1>1, <2>1, <2>2, MainLeaves
  <2> QED  BY <2>3, <2>4, <2>5, IInvFrom
<1>5. CASE /\ holder[NextNode(p)] = "none" /\ ~ArmingRefused(p)
           /\ holder' = [holder EXCEPT ![NextNode(p)] = p]
           /\ cmd' = IF cmd[p].node < LastNode(Current(p)) THEN [cmd EXCEPT ![p].node = @ + 1]
                     ELSE [cmd EXCEPT ![p].job = @ + 1, ![p].node = 0]
  <2>1. NextNode(p) = <<d, k>>  BY <1>2, <1>3 DEF NextNode
  <2>2. k = 0 => Confirmed(p, d)  BY <1>2, <1>3, <1>5 DEF ArmingRefused, Drifts, Confirmed
  <2> QED  BY <1>1, <1>2, <1>3, <1>5, <2>1, <2>2, NodeLocks
<1> QED  BY <1>4, <1>5 DEF ArmNext

\* The process dies, armed in part or with workers in their windows.
LEMMA KillKeeps == ASSUME IInv, NEW p \in Procs, Kill(p) PROVE IInv'
<1> USE DEF IInv
<1>0. CmdTyped /\ RunTyped /\ HolderTyped  BY DEF Typed
<1>1. /\ Fault /\ holder' = Released(p) /\ Exit(p, "killed") /\ cmd[p].pc \in {"arm", "running"}
      /\ UNCHANGED <<batch, hardware, probed, signal, cancel, worker>>
  BY DEF Kill
<1>2. /\ CmdTyped' /\ \A q \in Procs : q # p => cmd'[q] = cmd[q]
      /\ cmd'[p].pc = "exited" /\ cmd'[p].node = 0 /\ cmd'[p].exit = "killed"
  BY <1>0, <1>1, ExitIs DEF Exits
<1>3. HolderTyped' /\ \A n \in AllNodes : holder'[n] = holder[n] \/ holder[n] = p
  BY <1>0, <1>1, ReleasedIs
<1>4. RunTyped' /\ faults' = faults + 1  BY <1>0, <1>1, Sizes DEF RunTyped, Fault
<1>5. DiskTyped'  BY <1>0, <1>1, <1>4, Sizes DEF Typed, DiskTyped, hardware
<1>6. Typed'
  BY <1>1, <1>2, <1>3, <1>4, <1>5 DEF Typed, WorkTyped, ProbeTyped, FlagTyped
<1>7. Sound(p)'  BY <1>1, <1>2, SoundStops DEF ExitTrue
<1>8. \A q \in Procs : q # p => Leaves(q)  BY <1>1, <1>2, <1>3, MainLeaves
<1> QED  BY <1>6, <1>7, <1>8, IInvFrom

LEMMA SignalKeeps == ASSUME IInv, NEW p \in Procs, Signal(p) PROVE IInv'
<1> USE DEF IInv
<1>0. RunTyped /\ FlagTyped  BY DEF Typed
<1>1. UNCHANGED <<batch, hardware, holder, cmd, probed, worker>>  BY DEF Signal
<1>2. signal[p] \in 0 .. 2 /\ Len(Handler) = 3
  BY <1>0, HandlerRuns DEF Signal, FlagTyped
<1>3. /\ signal' \in [Procs -> 0 .. 3] /\ signal'[p] = signal[p] + 1
      /\ \A q \in Procs : q # p => signal'[q] = signal[q]
  BY <1>0, <1>2 DEF Signal, FlagTyped
<1>4. /\ cancel' \in [Procs -> BOOLEAN] /\ (cancel'[p] => cancel[p] \/ signal[p] = 2)
      /\ \A q \in Procs : q # p => cancel'[q] = cancel[q]
  <2>1. Handler[signal[p] + 1] = "cancel" <=> signal[p] = 2  BY <1>2, HandlerRuns
  <2>2. cancel' = [cancel EXCEPT ![p] = cancel[p] \/ Handler[signal[p] + 1] = "cancel"]
    BY DEF Signal
  <2>3. PICK raised \in BOOLEAN : raised <=> (cancel[p] \/ Handler[signal[p] + 1] = "cancel")
    OBVIOUS
  <2>4. (cancel[p] \/ Handler[signal[p] + 1] = "cancel") \in BOOLEAN  OBVIOUS
  <2> QED  BY <1>0, <2>1, <2>2, <2>4 DEF FlagTyped
<1>5. RunTyped' /\ faults <= faults'  BY <1>0, <1>1, Sizes DEF Signal, RunTyped, Fault
<1>6. DiskTyped'  BY <1>0, <1>1, <1>5, Sizes DEF Typed, DiskTyped, hardware, RunTyped
<1>7. Typed'
  BY <1>1, <1>3, <1>4, <1>5, <1>6 DEF Typed, CmdTyped, WorkTyped, ProbeTyped, FlagTyped, HolderTyped
<1>8. Sound(p)'
  <2>1. Targets(p)' = Targets(p)  BY <1>1 DEF Targets
  <2>2. signal[p] = 3 => FALSE  BY <1>2
  <2>3. Caused(p)'
    BY <1>1, <1>2, <1>3, <1>4, <2>1, <2>2 DEF Sound, Caused
  <2>4. Armed(p)' /\ BetweenDisks(p)' /\ Owns(p)' /\ Written(p)'
    BY <1>1, <2>1 DEF Sound, Armed, BetweenDisks, Owns, Written, Held, Confirmed, Current, hardware
  <2>5. Employed(p)' /\ Recorded(p)' /\ ExitTrue(p)'
    BY <1>1, <2>1 DEF Sound, Employed, Recorded, ExitTrue
  <2> QED  BY <2>3, <2>4, <2>5 DEF Sound
<1>9. \A q \in Procs : q # p => Leaves(q)
  BY <1>1, <1>3, <1>4 DEF Leaves, hardware
<1> QED  BY <1>7, <1>8, <1>9, IInvFrom

----------------------------------------------------------------------------
(* The spawn and the join *)

LEMMA IdleIs ==
  /\ Idle \in WorkerState /\ [Idle EXCEPT !.at = "create"] \in WorkerState
  /\ Idle.at = "none" /\ Idle.last = "none" /\ ~Idle.hot
  /\ [Idle EXCEPT !.at = "create"].at = "create" /\ [Idle EXCEPT !.at = "create"].w = 0
  /\ [Idle EXCEPT !.at = "create"].last = "none"
<1>1. 0 \in 0 .. Windows /\ 0 \in 0 .. 1  BY Sizes
<1>2. Idle \in WorkerState /\ Idle.at = "none" /\ Idle.last = "none" /\ ~Idle.hot /\ Idle.w = 0
  BY <1>1 DEF Idle, WorkerState, Phases, Records
<1>3. PICK c : c = [Idle EXCEPT !.at = "create"]  OBVIOUS
<1>4. c \in WorkerState /\ c.at = "create" /\ c.w = 0 /\ c.last = "none"
  BY <1>2, <1>3 DEF WorkerState, Phases
<1> QED  BY <1>2, <1>3, <1>4

\* Every target has been claimed and confirmed when the workers start.
LEMMA SpawnKeeps == ASSUME IInv, NEW p \in Procs, Spawn(p) PROVE IInv'
<1> USE DEF IInv
<1>0. CmdTyped /\ RunTyped /\ WorkTyped /\ Typed  BY DEF Typed
<1>1. /\ cmd[p].pc = "arm" /\ AllArmed(p) /\ Goto(p, "running")
      /\ UNCHANGED <<batch, hardware, holder, probed, signal, cancel, faults>>
  BY DEF Spawn
<1>2. /\ CmdTyped' /\ \A q \in Procs : q # p => cmd'[q] = cmd[q]
      /\ cmd'[p].pc = "running" /\ cmd'[p].job = 1
      /\ cmd'[p].node = cmd[p].node /\ cmd'[p].exit = cmd[p].exit
  BY <1>0, <1>1, GotoIs DEF Stages
<1>3. PICK w : w = [d \in Devices |-> IF d \in Targets(p) THEN [Idle EXCEPT !.at = "create"] ELSE Idle]
  OBVIOUS
<1>4. w \in [Devices -> WorkerState]  BY <1>3, IdleIs
<1>5. worker' = [worker EXCEPT ![p] = w]  BY <1>3 DEF Spawn
<1>6. WorkTyped' /\ worker'[p] = w /\ \A q \in Procs : q # p => worker'[q] = worker[q]
  BY <1>0, <1>4, <1>5 DEF WorkTyped
<1>7. Typed'
  BY <1>0, <1>1, <1>2, <1>6 DEF Typed, DiskTyped, ProbeTyped, HolderTyped, FlagTyped, RunTyped, hardware
<1>8. Targets(p)' = Targets(p) /\ \A d \in Targets(p) : d \in Devices
  BY <1>0, <1>1, ListsAre DEF Targets
<1>9. \A d \in Devices : /\ worker'[p][d].at = IF d \in Targets(p) THEN "create" ELSE "none"
                         /\ worker'[p][d].last = "none"
                         /\ d \in Targets(p) => worker'[p][d].w = 0
  BY <1>3, <1>6, IdleIs
<1>10. Owns(p)'
  <2> SUFFICES ASSUME NEW d \in Targets(p) PROVE Held(p, d)' /\ Confirmed(p, d)'
    BY <1>8 DEF Owns
  <2>1. PICK i \in 1 .. Len(batch[p]) : d = batch[p][i]  BY <1>0, ListsAre
  <2>2. i < cmd[p].job  BY <1>0, <1>1, ListsAre DEF AllArmed, CmdTyped
  <2>3. Held(p, d) /\ Confirmed(p, d)  BY <1>1, <2>1, <2>2 DEF Sound, Armed
  <2> QED  BY <1>1, <2>3 DEF Held, Confirmed, hardware
<1>11. Written(p)' /\ Armed(p)'  BY <1>2, <1>8, <1>9 DEF Written, Armed
<1>12. BetweenDisks(p)'
  <2>1. cmd[p].job > Len(batch[p])  BY <1>1 DEF AllArmed
  <2>2. cmd[p].node = 0  BY <2>1 DEF Sound, BetweenDisks
  <2> QED  BY <1>2, <2>2 DEF BetweenDisks
<1>13. Employed(p)'  BY <1>2, <1>8, <1>9 DEF Employed
<1>14. Recorded(p)'  BY <1>9 DEF Recorded
<1>15. ExitTrue(p)'
  <2>1. cmd'[p].exit = "none"  BY <1>1, <1>2 DEF Sound, ExitTrue
  <2> QED  BY <2>1 DEF ExitTrue
<1>16. Caused(p)'
  <2>1. cancel[p] => signal[p] = 3
    <3>1. \A d \in Devices : worker[p][d] = Idle  BY <1>1 DEF Sound, Employed, Stages
    <3> QED  BY <1>8, <3>1, IdleIs DEF Sound, Caused
  <2> QED  BY <1>1, <1>9, <2>1 DEF Caused
<1>17. \A q \in Procs : q # p => Leaves(q)  BY <1>1, <1>2, <1>6 DEF Leaves, hardware
<1> QED  BY <1>7, <1>10, <1>11, <1>12, <1>13, <1>14, <1>15, <1>16, <1>17, IInvFrom DEF Sound

LEMMA JoinKeeps == ASSUME IInv, NEW p \in Procs, Join(p) PROVE IInv'
<1> USE DEF IInv
<1>0. CmdTyped /\ RunTyped /\ Typed  BY DEF Typed
<1>1. /\ cmd[p].pc = "running" /\ \A d \in Targets(p) : worker[p][d].at \in Over
      /\ Exit(p, IF AllSucceed(p) THEN "ok" ELSE "failed")
      /\ UNCHANGED <<batch, hardware, holder, probed, signal, cancel, worker, faults>>
  BY DEF Join
<1>2. PICK exit \in {"ok", "failed"} : exit = IF AllSucceed(p) THEN "ok" ELSE "failed"  OBVIOUS
<1>3. /\ CmdTyped' /\ \A q \in Procs : q # p => cmd'[q] = cmd[q]
      /\ cmd'[p].pc = "exited" /\ cmd'[p].node = 0 /\ cmd'[p].exit = exit
  BY <1>0, <1>1, <1>2, ExitIs DEF Exits
<1>4. Typed'
  BY <1>0, <1>1, <1>3 DEF Typed, WorkTyped, DiskTyped, ProbeTyped, HolderTyped, FlagTyped, RunTyped, hardware
<1>5. ExitTrue(p)'
  <2>1. Targets(p)' = Targets(p) /\ \A d \in Targets(p) : d \in Devices
    BY <1>0, <1>1, ListsAre DEF Targets
  <2>2. exit = "ok" => \A d \in Targets(p) : worker[p][d].cert /\ worker[p][d].last = "Completed"
    BY <1>2, <2>1 DEF AllSucceed, Sound, Recorded
  <2>3. exit = "failed" => \E d \in Targets(p) : worker[p][d].at = "error"
    BY <1>1, <1>2 DEF AllSucceed, Over
  <2> QED  BY <1>1, <1>3, <2>1, <2>2, <2>3 DEF ExitTrue
<1>6. Sound(p)'  BY <1>1, <1>3, <1>5, SoundStops
<1>7. \A q \in Procs : q # p => Leaves(q)  BY <1>1, <1>3, MainLeaves
<1> QED  BY <1>4, <1>6, <1>7, IInvFrom

----------------------------------------------------------------------------
(* Other programs, and the hands at the machine *)

LEMMA OthersKeep == ASSUME IInv, NEW n \in AllNodes, OtherClaims(n) PROVE IInv'
<1> USE DEF IInv
<1>0. CmdTyped /\ RunTyped /\ Typed /\ HolderTyped  BY DEF Typed
<1>1. UNCHANGED <<batch, hardware, threads>>  BY DEF OtherClaims
<1>2. HolderTyped' /\ \A m \in AllNodes : holder'[m] = holder[m] \/ holder[m] \in {"none", "other"}
  BY <1>0 DEF OtherClaims, HolderTyped
<1>3. RunTyped' /\ faults <= faults'  BY <1>0, <1>1, Sizes DEF OtherClaims, RunTyped, Fault
<1>4. DiskTyped'  BY <1>0, <1>1, <1>3, Sizes DEF Typed, DiskTyped, hardware, RunTyped
<1>5. Typed'
  BY <1>0, <1>1, <1>2, <1>3, <1>4 DEF Typed, CmdTyped, WorkTyped, ProbeTyped, FlagTyped, threads
<1>6. \A p \in Procs : Leaves(p)  BY <1>1, <1>2, Names DEF Leaves, hardware, threads
<1>7. \A p \in Procs : Sound(p)'  BY <1>0, <1>6, SoundStays
<1> QED  BY <1>5, <1>7

\* A drive is swapped under a node that nobody holds.
LEMMA SwapKeeps == ASSUME IInv, NEW d \in Devices, Swap(d) PROVE IInv'
<1> USE DEF IInv
<1>0. CmdTyped /\ RunTyped /\ Typed /\ DiskTyped  BY DEF Typed
<1>1. /\ \A n \in Nodes(d) : holder[n] = "none"
      /\ faults' = faults + 1 /\ faults < MaxFaults[batch]
      /\ drive' = [drive EXCEPT ![d] = @ + 1]
      /\ media' = [media EXCEPT ![d] = [w \in 1 .. Windows |-> "old"]]
      /\ UNCHANGED <<batch, holder, threads>>
  BY DEF Swap, Fault
<1>2. RunTyped'  BY <1>0, <1>1, Sizes DEF RunTyped
<1>3. DiskTyped'
  <2>1. drive' \in [Devices -> Nat] /\ \A e \in Devices : drive'[e] <= faults'
    BY <1>0, <1>1, Sizes DEF DiskTyped
  <2>2. [w \in 1 .. Windows |-> "old"] \in [1 .. Windows -> Procs \cup {"old"}]  OBVIOUS
  <2>3. media' \in [Devices -> [1 .. Windows -> Procs \cup {"old"}]]
    BY <1>0, <1>1, <2>2 DEF DiskTyped
  <2> QED  BY <2>1, <2>3 DEF DiskTyped
<1>4. Typed'
  BY <1>0, <1>1, <1>2, <1>3 DEF Typed, CmdTyped, WorkTyped, ProbeTyped, HolderTyped, FlagTyped, threads
<1>5. holder[<<d, 0>>] = "none"  BY <1>1, NodesAre
<1>6. \A e \in Devices : e # d => drive'[e] = drive[e] /\ media'[e] = media[e]
  BY <1>0, <1>1 DEF DiskTyped
<1>7. \A p \in Procs : Leaves(p)
  <2> SUFFICES ASSUME NEW p \in Procs PROVE Leaves(p)  OBVIOUS
  <2>1. \A e \in Devices : holder[<<e, 0>>] = p => e # d  BY <1>5, Names
  <2> QED  BY <1>1, <1>6, <2>1 DEF Leaves, threads
<1>8. \A p \in Procs : Sound(p)'  BY <1>0, <1>7, SoundStays
<1> QED  BY <1>4, <1>8

----------------------------------------------------------------------------
(* The workers *)

\* A worker at work goes on, with `new` for its state: of the locks it may
\* drop its own when it ends, of the media it may write its own, of the flag
\* it may only raise its command's, and only hot; what `new` claims is so.
Goes(p, d, new) ==
  /\ cmd[p].pc = "running" /\ worker[p][d].at \notin {"none"} \cup Over
  /\ new \in WorkerState /\ new.at \notin {"none", "create"} /\ Becomes(p, d, new)
  /\ UNCHANGED <<batch, drive, cmd, probed, signal>>
  /\ RunTyped' /\ faults <= faults'
  /\ HolderTyped'
  /\ \A n \in AllNodes : holder'[n] = holder[n] \/ (holder[n] = p /\ n \in Nodes(d) /\ new.at \in Over)
  /\ media' \in [Devices -> [1 .. Windows -> Procs \cup {"old"}]]
  /\ \A e \in Devices : e # d => media'[e] = media[e]
  /\ cancel' \in [Procs -> BOOLEAN] /\ (cancel'[p] => cancel[p] \/ new.hot)
  /\ \A q \in Procs : q # p => cancel'[q] = cancel[q]
  /\ worker[p][d].hot => new.hot
  /\ new.cert => worker[p][d].cert \/ worker[p][d].at = "certify"
  /\ new.at = "write" /\ d \notin Flaky => \A u \in 1 .. Windows : u <= new.w => media'[d][u] = p
  /\ new.at = "verify" /\ ~new.bad => \A u \in 1 .. Windows : u <= new.w => media'[d][u] = p
  /\ new.at = "certify" /\ d \notin Flaky \ Verified => \A u \in 1 .. Windows : media'[d][u] = p
  /\ new.at \in {"certify", "ok"} => new.last = "Completed"
  /\ new.at = "ok" => new.cert
  /\ new.last = "Interrupted" => new.signals > 0 \/ \E e \in Targets(p) : worker[p][e].hot
  /\ new.last = "THERMAL_CRITICAL" => new.hot

\* The step certifies nothing but a drive that holds the run's pattern.
CertStep ==
  \A p \in Procs : \A d \in Devices \ (Flaky \ Verified) :
    worker'[p][d].cert /\ ~worker[p][d].cert => \A w \in 1 .. Windows : media[d][w] = p

LEMMA WorkerIs ==
  ASSUME WorkTyped, NEW p \in Procs, NEW d \in Devices, NEW new \in WorkerState, Becomes(p, d, new)
  PROVE  /\ WorkTyped' /\ worker'[p][d] = new
         /\ \A e \in Devices : e # d => worker'[p][e] = worker[p][e]
         /\ \A q \in Procs : q # p => worker'[q] = worker[q]
BY DEF WorkTyped, Becomes

\* Who works is one of the command's targets, and has it to itself.
LEMMA WorksOnTarget ==
  ASSUME IInv, NEW p \in Procs, NEW d \in Devices, cmd[p].pc = "running",
         worker[p][d].at \notin {"none"} \cup Over
  PROVE  /\ d \in Targets(p) /\ Held(p, d) /\ Confirmed(p, d)
         /\ \A q \in Procs : q # p => holder[<<d, 0>>] # q
<1>1. d \in Targets(p)  BY DEF IInv, Sound, Employed
<1>2. Held(p, d) /\ Confirmed(p, d)  BY <1>1 DEF IInv, Sound, Owns
<1> QED  BY <1>1, <1>2, NodesAre DEF Held

LEMMA GoesKeeps ==
  ASSUME IInv, NEW p \in Procs, NEW d \in Devices, NEW new, Goes(p, d, new)
  PROVE  IInv' /\ CertStep
<1>0. Typed /\ CmdTyped /\ RunTyped /\ WorkTyped /\ Sound(p)  BY DEF IInv, Typed
<1>1. /\ cmd[p].pc = "running" /\ worker[p][d].at \notin {"none"} \cup Over
      /\ new \in WorkerState /\ new.at \notin {"none", "create"} /\ Becomes(p, d, new)
      /\ UNCHANGED <<batch, drive, cmd, probed, signal>>
  BY DEF Goes
<1>2. /\ WorkTyped' /\ worker'[p][d] = new
      /\ \A e \in Devices : e # d => worker'[p][e] = worker[p][e]
      /\ \A q \in Procs : q # p => worker'[q] = worker[q]
  BY <1>0, <1>1, WorkerIs
<1>3. /\ d \in Targets(p) /\ Held(p, d) /\ Confirmed(p, d)
      /\ \A q \in Procs : q # p => holder[<<d, 0>>] # q
  BY <1>1, WorksOnTarget
<1>4. /\ Targets(p)' = Targets(p) /\ \A e \in Targets(p) : e \in Devices
      /\ \A e \in Devices : Confirmed(p, e) => Confirmed(p, e)'
  BY <1>0, <1>1, ListsAre DEF Targets, Confirmed
<1>5. Typed'
  <2>1. DiskTyped'
    BY <1>0, <1>1, Sizes DEF Typed, DiskTyped, Goes, RunTyped
  <2>2. CmdTyped' /\ ProbeTyped'  BY <1>0, <1>1 DEF Typed, CmdTyped, ProbeTyped
  <2>3. FlagTyped'  BY <1>0, <1>1 DEF Typed, FlagTyped, Goes
  <2> QED  BY <1>2, <2>1, <2>2, <2>3 DEF Typed, Goes
<1>6. Owns(p)'
  <2> SUFFICES ASSUME NEW e \in Targets(p), worker'[p][e].at \notin Over
               PROVE  Held(p, e)' /\ Confirmed(p, e)'
    BY <1>4 DEF Owns
  <2>1. e \in Devices  BY <1>4
  <2>2. worker[p][e].at \notin Over  BY <1>1, <1>2, <2>1
  <2>3. Held(p, e) /\ Confirmed(p, e)  BY <1>0, <1>1, <2>2 DEF Sound, Owns
  <2>4. e # d \/ new.at \notin Over  BY <1>2
  <2>5. \A k \in 0 .. Parts[e] : holder'[<<e, k>>] = holder[<<e, k>>]
    <3> SUFFICES ASSUME NEW k \in 0 .. Parts[e] PROVE holder'[<<e, k>>] = holder[<<e, k>>]
      OBVIOUS
    <3>1. <<e, k>> \in AllNodes /\ (<<e, k>> \in Nodes(d) => e = d)
      BY <2>1, NodesAre
    <3>2. PICK n : n = <<e, k>>  OBVIOUS
    <3> QED  BY <2>4, <3>1, <3>2 DEF Goes
  <2> QED  BY <1>4, <2>1, <2>3, <2>5 DEF Held
<1>7. Employed(p)'
  BY <1>0, <1>1, <1>2, <1>3, <1>4 DEF Sound, Employed, Stages
<1>8. Written(p)'
  <2> SUFFICES ASSUME NEW e \in Targets(p)
               PROVE  /\ worker'[p][e].at = "create" => worker'[p][e].w = 0
                      /\ worker'[p][e].at = "write" /\ e \notin Flaky
                           => \A u \in 1 .. Windows : u <= worker'[p][e].w => media'[e][u] = p
                      /\ worker'[p][e].at = "verify" /\ ~worker'[p][e].bad
                           => \A u \in 1 .. Windows : u <= worker'[p][e].w => media'[e][u] = p
                      /\ worker'[p][e].at = "certify" /\ e \notin Flaky \ Verified
                           => \A u \in 1 .. Windows : media'[e][u] = p
    BY <1>4 DEF Written
  <2>1. CASE e = d  BY <1>1, <1>2, <2>1 DEF Goes
  <2>2. CASE e # d
    <3>1. e \in Devices  BY <1>4
    <3>2. worker'[p][e] = worker[p][e] /\ media'[e] = media[e]  BY <1>2, <2>2, <3>1 DEF Goes
    <3> QED  BY <1>0, <1>1, <3>2 DEF Sound, Written
  <2> QED  BY <2>1, <2>2
<1>9. Recorded(p)'
  <2> SUFFICES ASSUME NEW e \in Devices
               PROVE  /\ worker'[p][e].at \in {"certify", "ok"} => worker'[p][e].last = "Completed"
                      /\ worker'[p][e].at = "ok" => worker'[p][e].cert
    BY DEF Recorded
  <2>1. CASE e = d  BY <1>2, <2>1 DEF Goes
  <2>2. CASE e # d  BY <1>0, <1>2, <2>2 DEF Sound, Recorded
  <2> QED  BY <2>1, <2>2
<1>10. ExitTrue(p)'
  <2>1. cmd'[p].exit = "none" /\ cmd'[p].pc = "running"  BY <1>0, <1>1 DEF Sound, ExitTrue
  <2> QED  BY <2>1 DEF ExitTrue
<1>11. Caused(p)'
  <2>1. \A e \in Targets(p) : worker[p][e].hot => worker'[p][e].hot
    BY <1>2, <1>4 DEF Goes
  <2>2. cancel'[p] => signal'[p] = 3 \/ \E e \in Targets(p) : worker'[p][e].hot
    <3>1. cancel[p] => signal[p] = 3 \/ \E e \in Targets(p) : worker[p][e].hot
      BY <1>0 DEF Sound, Caused
    <3>2. cancel'[p] => cancel[p] \/ worker'[p][d].hot  BY <1>2 DEF Goes
    <3> QED  BY <1>1, <1>3, <2>1, <3>1, <3>2
  <2>3. ASSUME NEW e \in Devices
        PROVE  /\ worker'[p][e].last = "Interrupted"
                    => worker'[p][e].signals > 0 \/ \E f \in Targets(p) : worker'[p][f].hot
               /\ worker'[p][e].last = "THERMAL_CRITICAL" => worker'[p][e].hot
    <3>1. CASE e = d
      <4>1. /\ new.last = "Interrupted" => new.signals > 0 \/ \E f \in Targets(p) : worker[p][f].hot
            /\ new.last = "THERMAL_CRITICAL" => new.hot
        BY DEF Goes
      <4> QED  BY <1>2, <2>1, <3>1, <4>1
    <3>2. CASE e # d
      <4>1. /\ worker[p][e].last = "Interrupted"
                 => worker[p][e].signals > 0 \/ \E f \in Targets(p) : worker[p][f].hot
            /\ worker[p][e].last = "THERMAL_CRITICAL" => worker[p][e].hot
        BY <1>0 DEF Sound, Caused
      <4> QED  BY <1>2, <2>1, <3>2, <4>1
    <3> QED  BY <3>1, <3>2
  <2> QED  BY <1>4, <2>2, <2>3 DEF Caused
<1>12. Armed(p)' /\ BetweenDisks(p)'  BY <1>0, <1>1 DEF Sound, Armed, BetweenDisks
<1>13. \A q \in Procs : q # p => Leaves(q)
  <2> SUFFICES ASSUME NEW q \in Procs, q # p PROVE Leaves(q)  OBVIOUS
  <2>1. \A n \in AllNodes : holder[n] = q => holder'[n] = q  BY DEF Goes
  <2>2. \A e \in Devices : holder[<<e, 0>>] = q => media'[e] = media[e]
    BY <1>3 DEF Goes
  <2> QED  BY <1>1, <1>2, <2>1, <2>2 DEF Leaves, Goes
<1>14. CertStep
  <2> SUFFICES ASSUME NEW q \in Procs, NEW e \in Devices \ (Flaky \ Verified),
                      worker'[q][e].cert, ~worker[q][e].cert
               PROVE  \A w \in 1 .. Windows : media[e][w] = q
    BY DEF CertStep
  <2>1. q = p /\ e = d  BY <1>2
  <2>2. worker[p][d].at = "certify"  BY <1>2, <2>1 DEF Goes
  <2> QED  BY <1>0, <1>1, <1>3, <2>1, <2>2 DEF Sound, Written
<1> QED
  BY <1>5, <1>6, <1>7, <1>8, <1>9, <1>10, <1>11, <1>12, <1>13, <1>14, IInvFrom DEF Sound

\* Work on one drive keeps these, whatever it does to its worker.
LEMMA Bystanders ==
  ASSUME RunTyped, HolderTyped, DiskTyped, FlagTyped, UNCHANGED batch, Fault \/ UNCHANGED faults
  PROVE  /\ RunTyped' /\ faults <= faults'
         /\ UNCHANGED media => media' \in [Devices -> [1 .. Windows -> Procs \cup {"old"}]]
         /\ UNCHANGED cancel => cancel' \in [Procs -> BOOLEAN]
         /\ UNCHANGED holder => HolderTyped'
BY Sizes DEF RunTyped, HolderTyped, DiskTyped, FlagTyped, Fault

LEMMA DropsIs ==
  ASSUME HolderTyped, NEW p \in Procs, NEW d \in Devices, Drops(p, d)
  PROVE  /\ HolderTyped'
         /\ \A n \in AllNodes : holder'[n] = holder[n] \/ (holder[n] = p /\ n \in Nodes(d))
BY DEF HolderTyped, Drops

\* The pacer may raise the flag, and says so in the worker's state.
LEMMA PaceIs ==
  ASSUME RunTyped, FlagTyped, UNCHANGED batch, NEW p \in Procs, NEW d \in Devices,
         NEW new \in WorkerState, Pace(p, d, new)
  PROVE  \E r \in WorkerState :
           /\ Becomes(p, d, r) /\ (new.hot => r.hot)
           /\ r.at = new.at /\ r.w = new.w /\ r.bad = new.bad /\ r.last = new.last
           /\ r.signals = new.signals /\ r.cert = new.cert
           /\ cancel' \in [Procs -> BOOLEAN] /\ (cancel'[p] => cancel[p] \/ r.hot)
           /\ \A q \in Procs : q # p => cancel'[q] = cancel[q]
           /\ (Fault \/ UNCHANGED faults)
<1>1. CASE Becomes(p, d, new) /\ UNCHANGED <<cancel, faults>>
  <2>1. cancel' \in [Procs -> BOOLEAN]  BY <1>1 DEF FlagTyped
  <2> QED  BY <1>1, <2>1
<1>2. CASE /\ Fault /\ Becomes(p, d, [new EXCEPT !.hot = TRUE])
           /\ cancel' = [cancel EXCEPT ![p] = TRUE]
  <2>1. PICK r : r = [new EXCEPT !.hot = TRUE]  OBVIOUS
  <2>2. /\ r \in WorkerState /\ r.hot
        /\ r.at = new.at /\ r.w = new.w /\ r.bad = new.bad /\ r.last = new.last
        /\ r.signals = new.signals /\ r.cert = new.cert
    BY <2>1 DEF WorkerState
  <2>3. cancel' \in [Procs -> BOOLEAN] /\ \A q \in Procs : q # p => cancel'[q] = cancel[q]
    BY <1>2 DEF FlagTyped
  <2> QED  BY <1>2, <2>1, <2>2, <2>3
<1> QED  BY <1>1, <1>2 DEF Pace

\* What is said of a worker carries over to the next record of its fields.
LEMMA KeptSaid ==
  ASSUME IInv, NEW p \in Procs, NEW d \in Devices
  PROVE  /\ worker[p][d] \in WorkerState
         /\ worker[p][d].last = "Interrupted"
              => worker[p][d].signals > 0 \/ \E e \in Targets(p) : worker[p][e].hot
         /\ worker[p][d].last = "THERMAL_CRITICAL" => worker[p][d].hot
         /\ worker[p][d].at \in {"certify", "ok"} => worker[p][d].last = "Completed"
BY DEF IInv, Typed, WorkTyped, Sound, Caused, Recorded

LEMMA CreateGoes ==
  ASSUME IInv, NEW p \in Procs, NEW d \in Devices, Create(p, d)
  PROVE  \E new : Goes(p, d, new)
<1>0. RunTyped /\ HolderTyped /\ DiskTyped /\ FlagTyped  BY DEF IInv, Typed
<1>1. /\ cmd[p].pc = "running" /\ worker[p][d].at = "create"
      /\ UNCHANGED <<batch, hardware, holder, cmd, probed, signal, cancel, faults>>
  BY DEF Create, At
<1>2. PICK r : r = [[worker[p][d] EXCEPT !.at = "write"] EXCEPT !.last = "BeginPass"]  OBVIOUS
<1>3. Becomes(p, d, r)  BY <1>2 DEF Create
<1>4. PICK o \in WorkerState : o = worker[p][d]  BY KeptSaid
<1>5. /\ r \in WorkerState /\ r.at = "write" /\ r.last = "BeginPass" /\ r.w = o.w /\ r.bad = o.bad
      /\ r.hot = o.hot /\ r.signals = o.signals /\ r.cert = o.cert
  BY <1>2, <1>4 DEF WorkerState, Phases, Records, Over
<1>6. d \in Targets(p)  BY <1>1, WorksOnTarget DEF Over
<1>7. o.w = 0  BY <1>1, <1>4, <1>6 DEF IInv, Sound, Written
<1>8. Goes(p, d, r)
  BY <1>0, <1>1, <1>3, <1>4, <1>5, <1>7, Bystanders DEF Goes, Over, hardware
<1> QED  BY <1>8

LEMMA WriteGoes ==
  ASSUME IInv, NEW p \in Procs, NEW d \in Devices, WriteWindow(p, d)
  PROVE  \E new : Goes(p, d, new)
<1>0. RunTyped /\ HolderTyped /\ DiskTyped /\ FlagTyped  BY DEF IInv, Typed
<1>1. PICK o \in WorkerState : o = worker[p][d]  BY KeptSaid
<1>2. PICK w : w = o.w + 1  OBVIOUS
<1>3. /\ cmd[p].pc = "running" /\ o.at = "write" /\ w <= Windows
      /\ media' \in {[media EXCEPT ![d][w] = p]} \cup (IF d \in Flaky THEN {media} ELSE {})
      /\ Pace(p, d, [o EXCEPT !.w = w])
      /\ UNCHANGED <<batch, drive, holder, cmd, probed, signal>>
  BY <1>1, <1>2 DEF WriteWindow, At
<1>4. w \in 1 .. Windows /\ o.w \in 0 .. Windows  BY <1>2, <1>3, Sizes DEF WorkerState
<1>5. PICK n : n = [o EXCEPT !.w = w]  OBVIOUS
<1>6. /\ n \in WorkerState /\ n.at = "write" /\ n.w = w /\ n.bad = o.bad /\ n.last = o.last
      /\ n.signals = o.signals /\ n.cert = o.cert /\ n.hot = o.hot
  BY <1>3, <1>4, <1>5, Sizes DEF WorkerState
<1>7. PICK r \in WorkerState :
           /\ Becomes(p, d, r) /\ (n.hot => r.hot)
           /\ r.at = n.at /\ r.w = n.w /\ r.bad = n.bad /\ r.last = n.last
           /\ r.signals = n.signals /\ r.cert = n.cert
           /\ cancel' \in [Procs -> BOOLEAN] /\ (cancel'[p] => cancel[p] \/ r.hot)
           /\ \A q \in Procs : q # p => cancel'[q] = cancel[q]
           /\ (Fault \/ UNCHANGED faults)
  <2>1. Pace(p, d, n) /\ UNCHANGED batch  BY <1>3, <1>5
  <2> QED  BY <1>0, <1>6, <2>1, PaceIs
<1>8. /\ media' \in [Devices -> [1 .. Windows -> Procs \cup {"old"}]]
      /\ \A e \in Devices : e # d => media'[e] = media[e]
      /\ d \notin Flaky => media'[d] = [media[d] EXCEPT ![w] = p]
  <2>1. CASE media' = [media EXCEPT ![d][w] = p]
    <3>1. PICK m : m = [media[d] EXCEPT ![w] = p]  OBVIOUS
    <3>2. m \in [1 .. Windows -> Procs \cup {"old"}]  BY <1>0, <1>4, <3>1 DEF DiskTyped
    <3>3. media' = [media EXCEPT ![d] = m]  BY <2>1, <3>1
    <3> QED  BY <1>0, <3>1, <3>2, <3>3 DEF DiskTyped
  <2>2. CASE d \in Flaky /\ media' = media  BY <1>0, <2>2 DEF DiskTyped
  <2> QED  BY <1>3, <2>1, <2>2
<1>9. d \in Targets(p)  BY <1>1, <1>3, WorksOnTarget DEF Over
<1>10. d \notin Flaky => \A u \in 1 .. Windows : u <= w => media'[d][u] = p
  <2> SUFFICES ASSUME d \notin Flaky, NEW u \in 1 .. Windows, u <= w PROVE media'[d][u] = p  OBVIOUS
  <2>1. u <= o.w => media[d][u] = p  BY <1>1, <1>3, <1>9 DEF IInv, Sound, Written
  <2>2. media[d] \in [1 .. Windows -> Procs \cup {"old"}]  BY <1>0 DEF DiskTyped
  <2>3. u <= o.w \/ u = w  BY <1>2, <1>4
  <2> QED  BY <1>8, <2>1, <2>2, <2>3
<1>11. RunTyped' /\ faults <= faults' /\ HolderTyped'  BY <1>0, <1>3, <1>7, Bystanders
<1>12. /\ r.last = "Interrupted" => r.signals > 0 \/ \E e \in Targets(p) : worker[p][e].hot
       /\ r.last = "THERMAL_CRITICAL" => r.hot
  BY <1>1, <1>6, <1>7, KeptSaid
<1>13. Goes(p, d, r)
  BY <1>1, <1>3, <1>6, <1>7, <1>8, <1>10, <1>11, <1>12 DEF Goes, Over
<1> QED  BY <1>13

LEMMA VerifyGoes ==
  ASSUME IInv, NEW p \in Procs, NEW d \in Devices, VerifyWindow(p, d)
  PROVE  \E new : Goes(p, d, new)
<1>0. RunTyped /\ HolderTyped /\ DiskTyped /\ FlagTyped  BY DEF IInv, Typed
<1>1. PICK o \in WorkerState : o = worker[p][d]  BY KeptSaid
<1>2. PICK w : w = o.w + 1  OBVIOUS
<1>3. /\ cmd[p].pc = "running" /\ o.at = "verify" /\ w <= Windows
      /\ Pace(p, d, [o EXCEPT !.w = w, !.bad = o.bad \/ media[d][w] # p])
      /\ UNCHANGED <<batch, hardware, holder, cmd, probed, signal>>
  BY <1>1, <1>2 DEF VerifyWindow, At
<1>4. w \in 1 .. Windows /\ o.w \in 0 .. Windows  BY <1>2, <1>3, Sizes DEF WorkerState
<1>5. PICK bad \in BOOLEAN : bad = (o.bad \/ media[d][w] # p)  BY DEF WorkerState
<1>6. PICK n : n = [[o EXCEPT !.w = w] EXCEPT !.bad = bad]  OBVIOUS
<1>7. /\ n \in WorkerState /\ n.at = "verify" /\ n.w = w /\ n.bad = bad /\ n.last = o.last
      /\ n.signals = o.signals /\ n.cert = o.cert /\ n.hot = o.hot
  <2>1. PICK m : m = [o EXCEPT !.w = w]  OBVIOUS
  <2>2. /\ m \in WorkerState /\ m.at = "verify" /\ m.w = w /\ m.last = o.last
        /\ m.signals = o.signals /\ m.cert = o.cert /\ m.hot = o.hot
    BY <1>3, <1>4, <2>1, Sizes DEF WorkerState
  <2>3. n = [m EXCEPT !.bad = bad]  BY <1>6, <2>1
  <2> QED  BY <2>2, <2>3 DEF WorkerState
<1>8. Pace(p, d, n)  BY <1>3, <1>5, <1>6
<1>9. PICK r \in WorkerState :
           /\ Becomes(p, d, r) /\ (n.hot => r.hot)
           /\ r.at = n.at /\ r.w = n.w /\ r.bad = n.bad /\ r.last = n.last
           /\ r.signals = n.signals /\ r.cert = n.cert
           /\ cancel' \in [Procs -> BOOLEAN] /\ (cancel'[p] => cancel[p] \/ r.hot)
           /\ \A q \in Procs : q # p => cancel'[q] = cancel[q]
           /\ (Fault \/ UNCHANGED faults)
  BY <1>0, <1>3, <1>7, <1>8, PaceIs
<1>10. d \in Targets(p)  BY <1>1, <1>3, WorksOnTarget DEF Over
<1>11. ~bad => \A u \in 1 .. Windows : u <= w => media[d][u] = p
  <2> SUFFICES ASSUME ~bad, NEW u \in 1 .. Windows, u <= w PROVE media[d][u] = p  OBVIOUS
  <2>1. ~o.bad /\ media[d][w] = p  BY <1>5
  <2>2. u <= o.w => media[d][u] = p  BY <1>1, <1>3, <1>10, <2>1 DEF IInv, Sound, Written
  <2>3. u <= o.w \/ u = w  BY <1>2, <1>4
  <2> QED  BY <2>1, <2>2, <2>3
<1>12. UNCHANGED media /\ UNCHANGED drive  BY <1>3 DEF hardware
<1>13. /\ RunTyped' /\ faults <= faults' /\ HolderTyped'
       /\ media' \in [Devices -> [1 .. Windows -> Procs \cup {"old"}]]
  BY <1>0, <1>3, <1>9, <1>12, Bystanders
<1>14. /\ r.last = "Interrupted" => r.signals > 0 \/ \E e \in Targets(p) : worker[p][e].hot
       /\ r.last = "THERMAL_CRITICAL" => r.hot
  BY <1>1, <1>7, <1>9, KeptSaid
<1>15. Goes(p, d, r)
  BY <1>1, <1>3, <1>7, <1>9, <1>11, <1>12, <1>13, <1>14 DEF Goes, Over
<1> QED  BY <1>15

\* A pass that drains, in writing or in reading back, had a raised flag.
LEMMA DrainGoes ==
  ASSUME IInv, NEW p \in Procs, NEW d \in Devices, DrainWrite(p, d) \/ DrainVerify(p, d)
  PROVE  \E new : Goes(p, d, new)
<1>0. RunTyped /\ HolderTyped /\ DiskTyped /\ FlagTyped  BY DEF IInv, Typed
<1>1. PICK o \in WorkerState : o = worker[p][d]  BY KeptSaid
<1>2. /\ cmd[p].pc = "running" /\ o.at \in {"write", "verify"} /\ cancel[p] /\ Drops(p, d)
      /\ UNCHANGED <<batch, hardware, cmd, probed, signal, cancel, faults>>
  BY <1>1 DEF DrainWrite, DrainVerify, At, Drains, Ends
<1>3. PICK last \in {"THERMAL_CRITICAL", "Interrupted"} :
        /\ Becomes(p, d, [o EXCEPT !.at = "error", !.last = last, !.signals = signals_received(p)])
        /\ last = "THERMAL_CRITICAL" => o.hot
  BY <1>1 DEF DrainWrite, DrainVerify, Ends
<1>4. PICK r : r = [[[o EXCEPT !.at = "error"] EXCEPT !.last = last] EXCEPT !.signals = signals_received(p)]
  OBVIOUS
<1>5. Becomes(p, d, r)  BY <1>3, <1>4
<1>6. signal[p] \in 0 .. 3  BY <1>0 DEF FlagTyped
<1>7. PICK s \in 0 .. 1 : s = signals_received(p) /\ (signal[p] = 3 => s = 1)
  BY <1>6, HandlerRuns
<1>8. /\ r \in WorkerState /\ r.at = "error" /\ r.last = last /\ r.w = o.w /\ r.bad = o.bad
      /\ r.hot = o.hot /\ r.signals = s /\ r.cert = o.cert
  BY <1>4, <1>7 DEF WorkerState, Phases, Records, Over
<1>9. s > 0 \/ \E e \in Targets(p) : worker[p][e].hot
  BY <1>2, <1>7 DEF IInv, Sound, Caused
<1>10. /\ HolderTyped'
       /\ \A n \in AllNodes : holder'[n] = holder[n] \/ (holder[n] = p /\ n \in Nodes(d))
  BY <1>0, <1>2, DropsIs
<1>11. UNCHANGED media /\ UNCHANGED drive  BY <1>2 DEF hardware
<1>12. /\ RunTyped' /\ faults <= faults'
       /\ media' \in [Devices -> [1 .. Windows -> Procs \cup {"old"}]]
       /\ cancel' \in [Procs -> BOOLEAN]
  BY <1>0, <1>2, <1>11, Bystanders
<1>13. Goes(p, d, r)
  BY <1>1, <1>2, <1>3, <1>5, <1>8, <1>9, <1>10, <1>11, <1>12 DEF Goes, Over
<1> QED  BY <1>13

LEMMA EndPassGoes ==
  ASSUME IInv, NEW p \in Procs, NEW d \in Devices, EndPass(p, d)
  PROVE  \E new : Goes(p, d, new)
<1>0. RunTyped /\ HolderTyped /\ DiskTyped /\ FlagTyped  BY DEF IInv, Typed
<1>1. PICK o \in WorkerState : o = worker[p][d]  BY KeptSaid
<1>2. PICK at, last : /\ at = IF d \in Verified THEN "verify" ELSE "certify"
                      /\ last = IF d \in Verified THEN "Flushed" ELSE "Completed"
  OBVIOUS
<1>3. /\ cmd[p].pc = "running" /\ o.at = "write" /\ o.w = Windows
      /\ Becomes(p, d, [o EXCEPT !.w = 0, !.at = at, !.last = last])
      /\ UNCHANGED <<batch, hardware, holder, cmd, probed, signal, cancel, faults>>
  BY <1>1, <1>2 DEF EndPass, At, PassWritesAll
<1>4. PICK r : r = [[[o EXCEPT !.w = 0] EXCEPT !.at = at] EXCEPT !.last = last]  OBVIOUS
<1>5. Becomes(p, d, r)  BY <1>3, <1>4
<1>6. 0 \in 0 .. Windows  BY Sizes
<1>7. at \in Phases /\ last \in Records  BY <1>2 DEF Phases, Records
<1>8. /\ r \in WorkerState /\ r.at = at /\ r.last = last /\ r.w = 0 /\ r.bad = o.bad
      /\ r.hot = o.hot /\ r.signals = o.signals /\ r.cert = o.cert
  BY <1>4, <1>6, <1>7 DEF WorkerState
<1>9. d \in Targets(p)  BY <1>1, <1>3, WorksOnTarget DEF Over
<1>10. d \notin Flaky => \A u \in 1 .. Windows : media[d][u] = p
  <2>1. d \notin Flaky => \A u \in 1 .. Windows : u <= o.w => media[d][u] = p
    BY <1>1, <1>3, <1>9 DEF IInv, Sound, Written
  <2> QED  BY <1>3, <2>1, Sizes
<1>11. UNCHANGED media /\ UNCHANGED drive  BY <1>3 DEF hardware
<1>12. /\ RunTyped' /\ faults <= faults' /\ HolderTyped'
       /\ media' \in [Devices -> [1 .. Windows -> Procs \cup {"old"}]]
       /\ cancel' \in [Procs -> BOOLEAN]
  BY <1>0, <1>3, <1>11, Bystanders
<1>13. \A u \in 1 .. Windows : ~(u <= 0)  OBVIOUS
<1>14. Goes(p, d, r)
  BY <1>1, <1>2, <1>3, <1>5, <1>8, <1>10, <1>11, <1>12, <1>13 DEF Goes, Over
<1> QED  BY <1>14

\* A worker that ends without a certificate of this step.
LEMMA ErrorGoes ==
  ASSUME IInv, NEW p \in Procs, NEW d \in Devices, NEW o \in WorkerState, o = worker[p][d],
         cmd[p].pc = "running", o.at \notin {"none"} \cup Over,
         NEW last \in {o.last, "EIO", "VERIFICATION_FAILED"},
         NEW cert \in BOOLEAN, cert => o.cert \/ o.at = "certify",
         Ends(p, d, [[[o EXCEPT !.at = "error"] EXCEPT !.last = last] EXCEPT !.cert = cert]),
         Fault \/ UNCHANGED faults,
         UNCHANGED <<batch, hardware, cmd, probed, signal, cancel>>
  PROVE  \E new : Goes(p, d, new)
<1>0. RunTyped /\ HolderTyped /\ DiskTyped /\ FlagTyped  BY DEF IInv, Typed
<1>1. PICK r : r = [[[o EXCEPT !.at = "error"] EXCEPT !.last = last] EXCEPT !.cert = cert]  OBVIOUS
<1>2. last \in Records  BY DEF WorkerState, Records
<1>3. /\ r \in WorkerState /\ r.at = "error" /\ r.last = last /\ r.w = o.w /\ r.bad = o.bad
      /\ r.hot = o.hot /\ r.signals = o.signals /\ r.cert = cert
  BY <1>1, <1>2 DEF WorkerState, Phases, Over
<1>4. Becomes(p, d, r) /\ Drops(p, d)  BY <1>1 DEF Ends
<1>5. /\ HolderTyped'
      /\ \A n \in AllNodes : holder'[n] = holder[n] \/ (holder[n] = p /\ n \in Nodes(d))
  BY <1>0, <1>4, DropsIs
<1>6. UNCHANGED media /\ UNCHANGED drive  BY DEF hardware
<1>7. /\ RunTyped' /\ faults <= faults'
      /\ media' \in [Devices -> [1 .. Windows -> Procs \cup {"old"}]]
      /\ cancel' \in [Procs -> BOOLEAN]
  BY <1>0, <1>6, Bystanders
<1>8. /\ r.last = "Interrupted" => r.signals > 0 \/ \E e \in Targets(p) : worker[p][e].hot
      /\ r.last = "THERMAL_CRITICAL" => r.hot
  BY <1>3, KeptSaid
<1>9. Goes(p, d, r)  BY <1>3, <1>4, <1>5, <1>6, <1>7, <1>8 DEF Goes, Over
<1> QED  BY <1>9

LEMMA VerdictGoes ==
  ASSUME IInv, NEW p \in Procs, NEW d \in Devices, Verdict(p, d)
  PROVE  \E new : Goes(p, d, new)
<1>0. RunTyped /\ HolderTyped /\ DiskTyped /\ FlagTyped  BY DEF IInv, Typed
<1>1. PICK o \in WorkerState : o = worker[p][d]  BY KeptSaid
<1>2. /\ cmd[p].pc = "running" /\ o.at = "verify" /\ o.w = Windows
      /\ UNCHANGED <<batch, hardware, cmd, probed, signal, cancel, faults>>
  BY <1>1 DEF Verdict, At
<1>3. CASE o.bad
  <2>1. Ends(p, d, [o EXCEPT !.at = "error", !.last = "VERIFICATION_FAILED"])
    BY <1>1, <1>3 DEF Verdict, Mismatches
  <2>2. PICK r : r = [[o EXCEPT !.at = "error"] EXCEPT !.last = "VERIFICATION_FAILED"]  OBVIOUS
  <2>3. r.cert = o.cert /\ r \in WorkerState
    BY <2>2 DEF WorkerState, Phases, Over, Records
  <2>4. [r EXCEPT !.cert = o.cert] = r  BY <2>3 DEF WorkerState
  <2>5. Ends(p, d, [[[o EXCEPT !.at = "error"] EXCEPT !.last = "VERIFICATION_FAILED"] EXCEPT !.cert = o.cert])
    BY <2>1, <2>2, <2>4
  <2>6. o.cert \in BOOLEAN  BY DEF WorkerState
  <2> QED  BY <1>1, <1>2, <2>5, <2>6, ErrorGoes DEF Over
<1>4. CASE ~o.bad
  <2>1. /\ Becomes(p, d, [o EXCEPT !.at = "certify", !.last = "Completed"])
        /\ UNCHANGED holder
    BY <1>1, <1>4 DEF Verdict, Mismatches
  <2>2. PICK r : r = [[o EXCEPT !.at = "certify"] EXCEPT !.last = "Completed"]  OBVIOUS
  <2>3. /\ r \in WorkerState /\ r.at = "certify" /\ r.last = "Completed" /\ r.w = o.w
        /\ r.bad = o.bad /\ r.hot = o.hot /\ r.signals = o.signals /\ r.cert = o.cert
    BY <2>2 DEF WorkerState, Phases, Records
  <2>4. Becomes(p, d, r)  BY <2>1, <2>2
  <2>5. d \in Targets(p)  BY <1>1, <1>2, WorksOnTarget DEF Over
  <2>6. \A u \in 1 .. Windows : media[d][u] = p
    <3>1. \A u \in 1 .. Windows : u <= o.w => media[d][u] = p
      BY <1>1, <1>2, <1>4, <2>5 DEF IInv, Sound, Written
    <3> QED  BY <1>2, <3>1, Sizes
  <2>7. UNCHANGED media /\ UNCHANGED drive  BY <1>2 DEF hardware
  <2>8. /\ RunTyped' /\ faults <= faults' /\ HolderTyped'
        /\ media' \in [Devices -> [1 .. Windows -> Procs \cup {"old"}]]
        /\ cancel' \in [Procs -> BOOLEAN]
    BY <1>0, <1>2, <2>1, <2>7, Bystanders
  <2>9. Goes(p, d, r)
    BY <1>1, <1>2, <2>1, <2>3, <2>4, <2>6, <2>7, <2>8 DEF Goes, Over
  <2> QED  BY <2>9
<1> QED  BY <1>3, <1>4

LEMMA CertifyGoes ==
  ASSUME IInv, NEW p \in Procs, NEW d \in Devices, Certify(p, d)
  PROVE  \E new : Goes(p, d, new)
<1>0. RunTyped /\ HolderTyped /\ DiskTyped /\ FlagTyped  BY DEF IInv, Typed
<1>1. PICK o \in WorkerState : o = worker[p][d]  BY KeptSaid
<1>2. /\ cmd[p].pc = "running" /\ o.at = "certify" /\ o.last = "Completed"
      /\ UNCHANGED <<batch, hardware, cmd, probed, signal, cancel>>
  BY <1>1, KeptSaid DEF Certify, At
<1>3. PICK at \in Over : /\ Ends(p, d, [o EXCEPT !.at = at, !.cert = TRUE])
                         /\ Fault \/ UNCHANGED faults
  BY <1>1 DEF Certify, Over
<1>4. PICK r : r = [[o EXCEPT !.at = at] EXCEPT !.cert = TRUE]  OBVIOUS
<1>5. /\ r \in WorkerState /\ r.at = at /\ r.last = "Completed" /\ r.w = o.w
      /\ r.bad = o.bad /\ r.hot = o.hot /\ r.signals = o.signals /\ r.cert
  BY <1>2, <1>4 DEF WorkerState, Phases, Over
<1>6. Becomes(p, d, r) /\ Drops(p, d)  BY <1>3, <1>4 DEF Ends
<1>7. /\ HolderTyped'
      /\ \A n \in AllNodes : holder'[n] = holder[n] \/ (holder[n] = p /\ n \in Nodes(d))
  BY <1>0, <1>6, DropsIs
<1>8. UNCHANGED media /\ UNCHANGED drive  BY <1>2 DEF hardware
<1>9. /\ RunTyped' /\ faults <= faults'
      /\ media' \in [Devices -> [1 .. Windows -> Procs \cup {"old"}]]
      /\ cancel' \in [Procs -> BOOLEAN]
  BY <1>0, <1>2, <1>3, <1>8, Bystanders
<1>10. Goes(p, d, r)
  BY <1>1, <1>2, <1>5, <1>6, <1>7, <1>8, <1>9 DEF Goes, Over
<1> QED  BY <1>10

LEMMA FailsGoes ==
  ASSUME IInv, NEW p \in Procs, NEW d \in Devices, Fails(p, d)
  PROVE  \E new : Goes(p, d, new)
<1>1. PICK o \in WorkerState : o = worker[p][d]  BY KeptSaid
<1>2. /\ cmd[p].pc = "running" /\ o.at \notin {"none"} \cup Over /\ Fault
      /\ UNCHANGED <<batch, hardware, cmd, probed, signal, cancel>>
  BY <1>1 DEF Fails
<1>3. PICK last \in {o.last, "EIO"} :
        Ends(p, d, [[[o EXCEPT !.at = "error"] EXCEPT !.last = last] EXCEPT !.cert = o.cert])
  <2>1. ASSUME NEW r \in WorkerState PROVE [r EXCEPT !.cert = r.cert] = r  BY DEF WorkerState
  <2>2. ASSUME NEW r \in WorkerState PROVE [r EXCEPT !.last = r.last] = r  BY DEF WorkerState
  <2>3. PICK e : e = [o EXCEPT !.at = "error"]  OBVIOUS
  <2>4. e \in WorkerState /\ e.last = o.last /\ e.cert = o.cert
    BY <2>3 DEF WorkerState, Phases, Over
  <2>5. CASE Ends(p, d, e)
    <3>1. [[e EXCEPT !.last = o.last] EXCEPT !.cert = o.cert] = e  BY <2>1, <2>2, <2>4
    <3>2. Ends(p, d, [[e EXCEPT !.last = o.last] EXCEPT !.cert = o.cert])  BY <2>5, <3>1
    <3> QED  BY <2>3, <3>2
  <2>6. CASE Ends(p, d, [o EXCEPT !.at = "error", !.last = "EIO"])
    <3>1. PICK f : f = [e EXCEPT !.last = "EIO"]  OBVIOUS
    <3>2. f \in WorkerState /\ f.cert = o.cert  BY <2>4, <3>1 DEF WorkerState, Records
    <3>3. [f EXCEPT !.cert = o.cert] = f  BY <2>1, <3>2
    <3>4. Ends(p, d, f)  BY <2>3, <2>6, <3>1
    <3>5. Ends(p, d, [f EXCEPT !.cert = o.cert])  BY <3>3, <3>4
    <3> QED  BY <2>3, <3>1, <3>5
  <2> QED  BY <1>1, <2>3, <2>5, <2>6 DEF Fails
<1>4. o.cert \in BOOLEAN  BY DEF WorkerState
<1> QED  BY <1>1, <1>2, <1>3, <1>4, ErrorGoes

----------------------------------------------------------------------------
(* The invariant, and what follows from it *)

LEMMA InitIInv == Init => IInv
<1> SUFFICES ASSUME Init PROVE IInv  OBVIOUS
<1>1. RunTyped  BY BatchAssumption DEF Init, RunTyped
<1>2. PICK c : c = [pc |-> "probe", job |-> 1, node |-> 0, exit |-> "none"]  OBVIOUS
<1>3. c \in CmdRec /\ c.pc = "probe" /\ c.job = 1 /\ c.node = 0 /\ c.exit = "none"
  BY <1>2 DEF CmdRec, Stages, Exits
<1>4. \A p \in Procs : cmd[p] = c  BY <1>2 DEF Init
<1>5. CmdTyped
  <2>1. cmd \in [Procs -> CmdRec]  BY <1>2, <1>3 DEF Init
  <2> QED  BY <1>1, <1>3, <1>4, <2>1, ListsAre DEF CmdTyped
<1>6. WorkTyped /\ HolderTyped /\ FlagTyped
  BY IdleIs DEF Init, WorkTyped, HolderTyped, FlagTyped
<1>7. DiskTyped /\ ProbeTyped
  BY <1>1, Sizes DEF Init, DiskTyped, ProbeTyped
<1>8. ASSUME NEW p \in Procs PROVE Sound(p)
  <2>1. cmd[p].pc = "probe" /\ cmd[p].node = 0 /\ cmd[p].exit = "none"  BY <1>3, <1>4
  <2>2. \A d \in Devices : worker[p][d] = Idle  BY DEF Init
  <2>3. Armed(p) /\ BetweenDisks(p) /\ Owns(p) /\ Written(p)
    BY <2>1 DEF Armed, BetweenDisks, Owns, Written
  <2>4. Employed(p)  BY <2>1, <2>2 DEF Employed
  <2>5. Recorded(p)  BY <2>2, IdleIs DEF Recorded
  <2>6. ExitTrue(p)  BY <2>1 DEF ExitTrue
  <2>7. ~cancel[p]  BY DEF Init
  <2>8. Caused(p)  BY <2>2, <2>7, IdleIs DEF Caused
  <2> QED  BY <2>3, <2>4, <2>5, <2>6, <2>8 DEF Sound
<1> QED  BY <1>1, <1>5, <1>6, <1>7, <1>8 DEF IInv, Typed

LEMMA WorkKeeps ==
  ASSUME IInv, NEW p \in Procs, NEW d \in Devices, Work(p, d) \/ Fails(p, d)
  PROVE  IInv' /\ CertStep
<1>1. PICK new : Goes(p, d, new)
  BY CreateGoes, WriteGoes, VerifyGoes, DrainGoes, EndPassGoes, VerdictGoes, CertifyGoes, FailsGoes
     DEF Work
<1> QED  BY <1>1, GoesKeeps

\* Nobody but a worker certifies.
LEMMA SameWorkers == ASSUME worker' = worker PROVE CertStep
BY DEF CertStep

LEMMA SpawnCertifies == ASSUME IInv, NEW p \in Procs, Spawn(p) PROVE CertStep
<1>1. WorkTyped  BY DEF IInv, Typed
<1>2. PICK w : w = [d \in Devices |-> IF d \in Targets(p) THEN [Idle EXCEPT !.at = "create"] ELSE Idle]
  OBVIOUS
<1>3. [Idle EXCEPT !.at = "create"].cert = FALSE /\ Idle.cert = FALSE  BY DEF Idle
<1>4. \A d \in Devices : w[d].cert = FALSE  BY <1>2, <1>3
<1>5. worker'[p] = w /\ \A q \in Procs : q # p => worker'[q] = worker[q]
  BY <1>1, <1>2 DEF Spawn, WorkTyped
<1> QED  BY <1>4, <1>5 DEF CertStep

LEMMA IInvKept == IInv /\ [Next]_vars => IInv' /\ CertStep
<1> SUFFICES ASSUME IInv, [Next]_vars PROVE IInv' /\ CertStep  OBVIOUS
<1>1. ASSUME NEW p \in Procs, Main(p) \/ Answer(p) \/ Signal(p) \/ Kill(p) PROVE IInv' /\ CertStep
  <2>1. CASE Spawn(p)  BY <2>1, SpawnKeeps, SpawnCertifies
  <2>2. CASE Precheck(p) \/ Gate(p) \/ PreArm(p) \/ Answer(p) \/ ArmNext(p) \/ Join(p) \/ Signal(p) \/ Kill(p)
    <3>1. worker' = worker
      BY <2>2 DEF Precheck, Gate, PreArm, Answer, ArmNext, Join, Signal, Kill
    <3> QED  BY <2>2, <3>1, SameWorkers, PrecheckKeeps, GatesKeep, ArmKeeps, JoinKeeps, SignalKeeps, KillKeeps
  <2> QED  BY <1>1, <2>1, <2>2 DEF Main
<1>2. ASSUME NEW p \in Procs, NEW d \in Devices, Work(p, d) \/ Fails(p, d) PROVE IInv' /\ CertStep
  BY <1>2, WorkKeeps
<1>3. ASSUME NEW n \in AllNodes, OtherClaims(n) PROVE IInv' /\ CertStep
  BY <1>3, OthersKeep, SameWorkers DEF OtherClaims, threads
<1>4. ASSUME NEW d \in Devices, Swap(d) PROVE IInv' /\ CertStep
  BY <1>4, SwapKeeps, SameWorkers DEF Swap, threads
<1>5. CASE UNCHANGED vars
  <2>1. UNCHANGED <<batch, hardware, holder, threads, faults>>  BY <1>5 DEF vars
  <2>2. Typed /\ RunTyped /\ CmdTyped  BY DEF IInv, Typed
  <2>3. Typed'
    BY <2>1, <2>2 DEF Typed, CmdTyped, WorkTyped, DiskTyped, ProbeTyped, HolderTyped, FlagTyped, RunTyped,
                      hardware, threads
  <2>4. \A p \in Procs : Leaves(p)  BY <2>1 DEF Leaves, hardware, threads
  <2>5. \A p \in Procs : Sound(p)'  BY <2>2, <2>4, SoundStays DEF IInv
  <2> QED  BY <2>1, <2>3, <2>5, SameWorkers DEF IInv, threads
<1> QED  BY <1>1, <1>2, <1>3, <1>4, <1>5 DEF Next

LEMMA IInvTypes == IInv => TypeOK
<1> SUFFICES ASSUME IInv PROVE TypeOK  OBVIOUS
<1>1. CmdTyped /\ WorkTyped /\ DiskTyped /\ ProbeTyped /\ HolderTyped /\ FlagTyped /\ RunTyped
  BY DEF IInv, Typed
<1>2. drive \in [Devices -> 0 .. MaxFaults[batch]]
  <2>1. \A d \in Devices : drive[d] \in 0 .. MaxFaults[batch]
    BY <1>1, Sizes DEF DiskTyped, RunTyped
  <2> QED  BY <1>1, <2>1 DEF DiskTyped
<1>3. ASSUME NEW p \in Procs
      PROVE  /\ cmd[p] \in [pc : Stages, job : 1 .. Len(batch[p]) + 1, node : Nat, exit : Exits]
             /\ cmd[p].pc = "arm" /\ cmd[p].job <= Len(batch[p]) => NextNode(p) \in AllNodes
             /\ worker[p] \in [Devices -> WorkerState]
  <2>1. cmd[p] \in [pc : Stages, job : 1 .. Len(batch[p]) + 1, node : Nat, exit : Exits]
    BY <1>1 DEF CmdTyped, CmdRec
  <2>2. ASSUME cmd[p].pc = "arm", cmd[p].job <= Len(batch[p]) PROVE NextNode(p) \in AllNodes
    <3>1. Current(p) \in Devices  BY <1>1, <2>2, ListsAre DEF Current, CmdTyped
    <3>2. cmd[p].node \in 0 .. Parts[Current(p)]
      BY <1>1, <2>2, <3>1, NodesAre DEF IInv, Sound, Armed, CmdTyped, CmdRec
    <3> QED  BY <3>1, <3>2, NodesAre DEF NextNode
  <2> QED  BY <1>1, <2>1, <2>2 DEF WorkTyped
<1> QED  BY <1>1, <1>2, <1>3 DEF TypeOK, DiskTyped, HolderTyped, ProbeTyped, FlagTyped, RunTyped

LEMMA IInvOwns == IInv => WorkerOwnsItsDrive
<1> SUFFICES ASSUME IInv PROVE WorkerOwnsItsDrive  OBVIOUS
<1>1. RunTyped  BY DEF IInv, Typed
<1>2. WholeBatchLocked
  <2> SUFFICES ASSUME NEW p \in Procs, cmd[p].pc = "running", NEW d \in Targets(p),
                      worker[p][d].at \notin Over, NEW n \in Nodes(d)
               PROVE  holder[n] = p
    BY DEF WholeBatchLocked
  <2>1. d \in Devices  BY <1>1, ListsAre
  <2>2. Held(p, d)  BY DEF IInv, Sound, Owns
  <2>3. PICK k \in 0 .. Parts[d] : n = <<d, k>>  BY <2>1, NodesAre
  <2> QED  BY <2>2, <2>3 DEF Held
<1>3. WrittenIsConfirmed  BY DEF WrittenIsConfirmed, IInv, Sound, Owns, Confirmed
<1> QED  BY <1>2, <1>3 DEF WorkerOwnsItsDrive

LEMMA IInvReports == IInv => ReportsAreTrue
BY DEF IInv, Sound, ExitTrue, Caused, ReportsAreTrue, ExitMatchesCertificates, ShutdownHasCause

\* The inductive invariant of a batch: what has been locked so far is held and
\* is what was probed, whose workers those are, which windows hold the run's
\* pattern, and what raised the flag; through every interleaving of commands,
\* workers, signals, trips, kills, swaps and other programs.
THEOREM BatchInOrder == Spec => []IInv
<1>1. IInv /\ [Next]_vars => IInv'  BY IInvKept
<1> QED  BY InitIInv, <1>1, PTL DEF Spec

\* The types of the whole state: no worker passes the last window, no command
\* the last of its targets, and no node is armed that its disk does not have.
THEOREM TypeCorrect == Spec => []TypeOK
<1> QED  BY BatchInOrder, IInvTypes, PTL

\* Between the locks of arm_and_lock and the end of its worker a drive is
\* claimed whole by its process, disk and every partition, and it is the
\* drive whose serial the operator confirmed.
THEOREM OwnDrives == Spec => []WorkerOwnsItsDrive
<1> QED  BY BatchInOrder, IInvOwns, PTL

\* The exit code against the certificates and journals of the targets, and
\* the cause behind every Interrupted and THERMAL_CRITICAL record.
THEOREM TrueReports == Spec => []ReportsAreTrue
<1> QED  BY BatchInOrder, IInvReports, PTL

\* execute_device_inner issues its certificate only over a drive that holds
\* the run's pattern in every window, whatever shared flag drained meanwhile.
THEOREM WholeCertificates == Spec => CertifiedWhole
<1>1. CertStep => [\A p \in Procs : \A d \in Devices \ (Flaky \ Verified) :
                     worker'[p][d].cert /\ ~worker[p][d].cert
                       => \A w \in 1 .. Windows : media[d][w] = p]_vars
  BY DEF CertStep
<1>2. IInv /\ [Next]_vars => [\A p \in Procs : \A d \in Devices \ (Flaky \ Verified) :
                     worker'[p][d].cert /\ ~worker[p][d].cert
                       => \A w \in 1 .. Windows : media[d][w] = p]_vars
  BY <1>1, IInvKept
<1> QED  BY BatchInOrder, <1>2, PTL DEF Spec, CertifiedWhole
=============================================================================
