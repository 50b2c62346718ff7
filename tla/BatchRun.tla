------------------------------ MODULE BatchRun ------------------------------
(***************************************************************************)
(* `dc execute` over several targets, in several processes at once: the    *)
(* batch pipeline of dc-cli/src/execute.rs and the locks of Guardian.      *)
(*                                                                         *)
(* A command probes every target, asks once for all of them, claims every  *)
(* block node, and only then starts one worker thread per device.  The     *)
(* workers share one cancel flag, which the signal handler and each        *)
(* worker's thermal pacer raise; the processes share the drives, and so    *)
(* do other programs.  What one worker does to its drive and its journal   *)
(* is modelled window by window in WipeRun; here a worker has one pass and *)
(* keeps the last record of its journal.                                   *)
(***************************************************************************)
EXTENDS Naturals, Sequences, Functions

CONSTANTS Procs,       \* the running `dc execute` commands
          Devices,     \* the drives
          Batches,     \* the --target lists: functions from Procs to Seq(Devices)
          Parts,       \* Parts[d]: partitions of drive d
          Serialless,  \* drives that report no serial number
          Verified,    \* drives wiped with read-back verification
          Flaky,       \* drives that may lose a write
          Windows,     \* windows of a pass
          MaxFaults    \* bound, for each list: swaps, claims, signals, trips,
                       \* kills and failures

ASSUME BatchAssumption ==
  /\ Procs \cap {"none", "other", "old"} = {}
  /\ Batches \subseteq [Procs -> Seq(Devices)]
  /\ Parts \in [Devices -> Nat]
  /\ Serialless \cup Verified \cup Flaky \subseteq Devices
  /\ Windows \in Nat \ {0} /\ MaxFaults \in [Batches -> Nat]

VARIABLES
  batch,   \* the targets of each command, in the order given
  drive,   \* which drive is attached at each node: 0, or the swap's number
  media,   \* what each window holds: "old", or the run that wrote it
  holder,  \* who has each block node open O_EXCL
  cmd,     \* the main thread of each command
  probed,  \* the drive each command probed, and its operator confirmed
  signal,  \* the statements of the signal handler that have run
  cancel,  \* GLOBAL_CANCEL of each process
  worker,  \* one worker thread per process and device
  faults   \* faults so far

hardware == <<drive, media>>
threads  == <<cmd, probed, signal, cancel, worker>>
vars     == <<batch, hardware, holder, threads, faults>>

\* The block nodes of a drive: the disk, then its partitions.
Nodes(d) == {d} \X (0 .. Parts[d])
AllNodes == UNION {Nodes(d) : d \in Devices}

Stages  == {"probe", "gate", "prompt", "prearm", "arm", "running", "exited"}
Exits   == {"none", "ok", "dry", "refused", "interrupted", "aborted", "failed", "killed"}
Over    == {"ok", "error"}
Phases  == {"none", "create", "write", "verify", "certify"} \cup Over
Records == {"none", "BeginPass", "Flushed", "Completed", "Interrupted",
            "THERMAL_CRITICAL", "EIO", "VERIFICATION_FAILED"}

\* The signal handler's three stores, in order.
HandlerCancelsFirst == <<"seen", "cancel", "count">>
Handler             == <<"seen", "count", "cancel">>
Ran(p, store)       == \E i \in 1 .. signal[p] : Handler[i] = store
signals_received(p) == IF Ran(p, "count") THEN 1 ELSE 0

Targets(p)  == Range(batch[p])
Current(p)  == batch[p][cmd[p].job]
NextNode(p) == <<Current(p), cmd[p].node>>
Released(p) == [n \in AllNodes |-> IF holder[n] = p THEN "none" ELSE holder[n]]

Idle == [at |-> "none", w |-> 0, bad |-> FALSE, hot |-> FALSE, last |-> "none",
         signals |-> 0, cert |-> FALSE]

Init ==
  /\ batch \in Batches
  /\ drive = [d \in Devices |-> 0]
  /\ media = [d \in Devices |-> [w \in 1 .. Windows |-> "old"]]
  /\ holder = [n \in AllNodes |-> "none"]
  /\ cmd = [p \in Procs |-> [pc |-> "probe", job |-> 1, node |-> 0, exit |-> "none"]]
  /\ probed = [p \in Procs |-> [d \in Devices |-> 0]]
  /\ signal = [p \in Procs |-> 0]
  /\ cancel = [p \in Procs |-> FALSE]
  /\ worker = [p \in Procs |-> [d \in Devices |-> Idle]]
  /\ faults = 0

Fault == faults < MaxFaults[batch] /\ faults' = faults + 1

-----------------------------------------------------------------------------
(* The main thread, up to the last lock *)

Goto(p, pc)    == cmd' = [cmd EXCEPT ![p].pc = pc, ![p].job = 1]
Exit(p, exit)  == cmd' = [cmd EXCEPT ![p] = [pc |-> "exited", job |-> 1, node |-> 0, exit |-> exit]]

\* At least one target; then probe and Guardian::evaluate, target by target:
\* a refusal aborts the batch.
Precheck(p) ==
  /\ cmd[p].pc = "probe"
  /\ \/ batch[p] = <<>> /\ Exit(p, "refused") /\ UNCHANGED probed
     \/ /\ cmd[p].job <= Len(batch[p])
        /\ probed' = [probed EXCEPT ![p][Current(p)] = drive[Current(p)]]
        /\ cmd' = [cmd EXCEPT ![p].job = @ + 1]
     \/ cmd[p].job <= Len(batch[p]) /\ Exit(p, "refused") /\ UNCHANGED probed
     \/ cmd[p].job > Len(batch[p]) /\ batch[p] # <<>> /\ Goto(p, "gate") /\ UNCHANGED probed
  /\ UNCHANGED <<batch, hardware, holder, signal, cancel, worker, faults>>

\* The dry run ends here, an incomplete authorisation is refused, a signal
\* seen so far ends the command.
Gate(p) ==
  /\ cmd[p].pc = "gate"
  /\ \/ Exit(p, "dry")
     \/ Exit(p, "refused")
     \/ Ran(p, "seen") /\ Exit(p, "interrupted")
     \/ ~Ran(p, "seen") /\ Goto(p, "prompt")
  /\ UNCHANGED <<batch, hardware, holder, probed, signal, cancel, worker, faults>>

\* The operator types the tokens of all targets, or something else.
Answer(p) ==
  /\ cmd[p].pc = "prompt"
  /\ Goto(p, "prearm") \/ Exit(p, "aborted")
  /\ UNCHANGED <<batch, hardware, holder, probed, signal, cancel, worker, faults>>

\* The last look at the signals before the locks.
PreArm(p) ==
  /\ cmd[p].pc = "prearm"
  /\ IF Ran(p, "seen") THEN Exit(p, "interrupted") ELSE Goto(p, "arm")
  /\ UNCHANGED <<batch, hardware, holder, probed, signal, cancel, worker, faults>>

\* The open drive is not the one probed; without a serial nobody can tell.
Drifts(d, seen)       == d \notin Serialless /\ drive[d] # seen

\* O_EXCL, or the flock, fails at once when another claim stands.
BusyWaits(n) == FALSE
Busy(n)      == holder[n] # "none"

\* The last partition Guardian locks: a partition that is in use refuses the
\* whole disk, where it was once skipped.
LastNodeSkips(d) == IF Busy(<<d, Parts[d]>>) THEN 0 ELSE Parts[d]
LastNodePast(d)  == Parts[d] + 1
LastNode(d)      == Parts[d]

ArmingRefused(p) ==
  \/ Busy(NextNode(p))
  \/ cmd[p].node = 0 /\ Drifts(Current(p), probed[p][Current(p)])

\* arm_and_lock: the disk, then every partition; any refusal drops every lock.
ArmNext(p) ==
  /\ cmd[p].pc = "arm" /\ cmd[p].job <= Len(batch[p])
  /\ \/ /\ holder[NextNode(p)] = "none" /\ ~ArmingRefused(p)
        /\ holder' = [holder EXCEPT ![NextNode(p)] = p]
        /\ cmd' = IF cmd[p].node < LastNode(Current(p)) THEN [cmd EXCEPT ![p].node = @ + 1]
                  ELSE [cmd EXCEPT ![p].job = @ + 1, ![p].node = 0]
     \/ ArmingRefused(p) /\ holder' = Released(p) /\ Exit(p, "refused")
  /\ UNCHANGED <<batch, hardware, probed, signal, cancel, worker, faults>>

-----------------------------------------------------------------------------
(* The workers *)

\* One thread per armed device, all started together.
AllArmed(p) == cmd[p].job > Len(batch[p])

Spawn(p) ==
  /\ cmd[p].pc = "arm" /\ AllArmed(p)
  /\ Goto(p, "running")
  /\ worker' = [worker EXCEPT ![p] =
       [d \in Devices |-> IF d \in Targets(p) THEN [Idle EXCEPT !.at = "create"] ELSE Idle]]
  /\ UNCHANGED <<batch, hardware, holder, probed, signal, cancel, faults>>

At(p, d, phase) == cmd[p].pc = "running" /\ worker[p][d].at = phase

\* A worker goes on, with `new` for its state, or ends and drops its locks.
Becomes(p, d, new) == worker' = [worker EXCEPT ![p][d] = new]
Drops(p, d)        == holder' = [n \in AllNodes |-> IF n \in Nodes(d) /\ holder[n] = p
                                                      THEN "none" ELSE holder[n]]
Ends(p, d, new)    == Becomes(p, d, new) /\ Drops(p, d)

\* The thermal pacer, called after a window: a critical reading raises the
\* flag every thread of the process looks at.
Pace(p, d, new) ==
  \/ Becomes(p, d, new) /\ UNCHANGED <<cancel, faults>>
  \/ /\ ~new.hot /\ Fault
     /\ Becomes(p, d, [new EXCEPT !.hot = TRUE])
     /\ cancel' = [cancel EXCEPT ![p] = TRUE]

\* Journal with Header and Armed, engine, BeginPass.
Create(p, d) ==
  /\ At(p, d, "create")
  /\ Becomes(p, d, [worker[p][d] EXCEPT !.at = "write", !.last = "BeginPass"])
  /\ UNCHANGED <<batch, hardware, holder, cmd, probed, signal, cancel, faults>>

Drains(p, d) == cancel[p] /\ worker[p][d].w < Windows

\* One window of the pass; a flaky drive may lose it.
WriteWindow(p, d) ==
  LET w == worker[p][d].w + 1 IN
  /\ At(p, d, "write") /\ w <= Windows /\ ~Drains(p, d)
  /\ media' \in {[media EXCEPT ![d][w] = p]} \cup (IF d \in Flaky THEN {media} ELSE {})
  /\ Pace(p, d, [worker[p][d] EXCEPT !.w = w])
  /\ UNCHANGED <<batch, drive, holder, cmd, probed, signal>>

\* The pass drains: the pacer's own trip is journaled as THERMAL_CRITICAL,
\* every other cancel as a signal.
DrainWrite(p, d) ==
  /\ At(p, d, "write") /\ Drains(p, d)
  /\ Ends(p, d, [worker[p][d] EXCEPT !.at = "error",
                   !.last = IF worker[p][d].hot THEN "THERMAL_CRITICAL" ELSE "Interrupted",
                   !.signals = signals_received(p)])
  /\ UNCHANGED <<batch, hardware, cmd, probed, signal, cancel, faults>>

\* RangeCommit, EndPass, flush, Flushed; without verification straight on to
\* Completed.
PassWritesAllOrDrains(p, d) == worker[p][d].w = Windows \/ cancel[p]
PassWritesAll(p, d)         == worker[p][d].w = Windows

EndPass(p, d) ==
  /\ At(p, d, "write") /\ PassWritesAll(p, d)
  /\ Becomes(p, d, [worker[p][d] EXCEPT !.w = 0,
                      !.at = IF d \in Verified THEN "verify" ELSE "certify",
                      !.last = IF d \in Verified THEN "Flushed" ELSE "Completed"])
  /\ UNCHANGED <<batch, hardware, holder, cmd, probed, signal, cancel, faults>>

\* Read-back of one window.
VerifyWindow(p, d) ==
  LET w == worker[p][d].w + 1 IN
  /\ At(p, d, "verify") /\ w <= Windows /\ ~Drains(p, d)
  /\ Pace(p, d, [worker[p][d] EXCEPT !.w = w, !.bad = @ \/ media[d][w] # p])
  /\ UNCHANGED <<batch, hardware, holder, cmd, probed, signal>>

\* A read-back that is cancelled is always journaled as a signal.
DrainVerify(p, d) ==
  /\ At(p, d, "verify") /\ Drains(p, d)
  /\ Ends(p, d, [worker[p][d] EXCEPT !.at = "error", !.last = "Interrupted",
                                     !.signals = signals_received(p)])
  /\ UNCHANGED <<batch, hardware, cmd, probed, signal, cancel, faults>>

\* The Verify record: a mismatch fails the device, else Completed.
Mismatches(p, d) == worker[p][d].bad

Verdict(p, d) ==
  /\ At(p, d, "verify") /\ worker[p][d].w = Windows
  /\ IF Mismatches(p, d)
       THEN Ends(p, d, [worker[p][d] EXCEPT !.at = "error", !.last = "VERIFICATION_FAILED"])
       ELSE /\ Becomes(p, d, [worker[p][d] EXCEPT !.at = "certify", !.last = "Completed"])
            /\ UNCHANGED holder
  /\ UNCHANGED <<batch, hardware, cmd, probed, signal, cancel, faults>>

\* The certificate, then the archival copy, whose failure fails the device.
Certify(p, d) ==
  /\ At(p, d, "certify")
  /\ \/ Ends(p, d, [worker[p][d] EXCEPT !.at = "ok", !.cert = TRUE]) /\ UNCHANGED faults
     \/ Ends(p, d, [worker[p][d] EXCEPT !.at = "error", !.cert = TRUE]) /\ Fault
  /\ UNCHANGED <<batch, hardware, cmd, probed, signal, cancel>>

\* A device error is journaled as EIO; a journal append, a chassis guard, the
\* signing that fails, or a panic the join catches, leaves no record.
Fails(p, d) ==
  /\ cmd[p].pc = "running" /\ worker[p][d].at \notin {"none"} \cup Over /\ Fault
  /\ \/ worker[p][d].at \in {"write", "verify"}
        /\ Ends(p, d, [worker[p][d] EXCEPT !.at = "error", !.last = "EIO"])
     \/ Ends(p, d, [worker[p][d] EXCEPT !.at = "error"])
  /\ UNCHANGED <<batch, hardware, cmd, probed, signal, cancel>>

\* The scope joins every worker; one failed device fails the batch.
AllSucceed(p) == \A d \in Targets(p) : worker[p][d].at = "ok"

Join(p) ==
  /\ cmd[p].pc = "running" /\ \A d \in Targets(p) : worker[p][d].at \in Over
  /\ Exit(p, IF AllSucceed(p) THEN "ok" ELSE "failed")
  /\ UNCHANGED <<batch, hardware, holder, probed, signal, cancel, worker, faults>>

-----------------------------------------------------------------------------
(* Signals, kills, other programs, and the hands at the machine *)

\* A SIGINT or SIGTERM, and the rest of its handler store by store.
Signal(p) ==
  /\ cmd[p].pc # "exited"
  /\ IF signal[p] = 0 THEN Fault ELSE signal[p] < Len(Handler) /\ UNCHANGED faults
  /\ signal' = [signal EXCEPT ![p] = @ + 1]
  /\ cancel' = [cancel EXCEPT ![p] = @ \/ Handler[signal[p] + 1] = "cancel"]
  /\ UNCHANGED <<batch, hardware, holder, cmd, probed, worker>>

\* The process dies: the kernel closes its descriptors.
Kill(p) ==
  /\ cmd[p].pc \in {"arm", "running"} /\ Fault
  /\ Exit(p, "killed") /\ holder' = Released(p)
  /\ UNCHANGED <<batch, hardware, probed, signal, cancel, worker>>

\* Another program opens a node O_EXCL, or closes it.
OtherClaims(n) ==
  /\ \/ holder[n] = "none" /\ holder' = [holder EXCEPT ![n] = "other"] /\ Fault
     \/ holder[n] = "other" /\ holder' = [holder EXCEPT ![n] = "none"] /\ UNCHANGED faults
  /\ UNCHANGED <<batch, hardware, threads>>

\* Another drive appears under the same node.  A node held open stays with
\* the drive it was opened on, which is then gone: its writes fail (Fails).
Swap(d) ==
  /\ \A n \in Nodes(d) : holder[n] = "none"
  /\ Fault
  /\ drive' = [drive EXCEPT ![d] = @ + 1]
  /\ media' = [media EXCEPT ![d] = [w \in 1 .. Windows |-> "old"]]
  /\ UNCHANGED <<batch, holder, threads>>

Main(p)      == Precheck(p) \/ Gate(p) \/ PreArm(p) \/ ArmNext(p) \/ Spawn(p) \/ Join(p)
Work(p, d)   == \/ Create(p, d) \/ WriteWindow(p, d) \/ DrainWrite(p, d) \/ EndPass(p, d)
                \/ VerifyWindow(p, d) \/ DrainVerify(p, d) \/ Verdict(p, d) \/ Certify(p, d)

Next ==
  \/ \E p \in Procs : Main(p) \/ Answer(p) \/ Signal(p) \/ Kill(p)
  \/ \E p \in Procs, d \in Devices : Work(p, d) \/ Fails(p, d)
  \/ \E n \in AllNodes : OtherClaims(n)
  \/ \E d \in Devices : Swap(d)

Spec == Init /\ [][Next]_vars

\* The main thread and the workers run on; nothing is owed by the operator,
\* by other programs or by the faults.
LiveSpec ==
  /\ Spec
  /\ \A p \in Procs : WF_vars(Main(p))
  /\ \A p \in Procs : \A d \in Devices : WF_vars(Work(p, d))

-----------------------------------------------------------------------------
(* Properties *)

WorkerState == [at : Phases, w : 0 .. Windows, bad : BOOLEAN, hot : BOOLEAN,
                last : Records, signals : 0 .. 1, cert : BOOLEAN]

\* Every field ranges over what its declaration allows; in particular no
\* worker passes the last window and no command the last of its targets.
TypeOK ==
  /\ batch \in Batches
  /\ drive \in [Devices -> 0 .. MaxFaults[batch]]
  /\ media \in [Devices -> [1 .. Windows -> Procs \cup {"old"}]]
  /\ holder \in [AllNodes -> Procs \cup {"none", "other"}]
  /\ \A p \in Procs :
       /\ cmd[p] \in [pc : Stages, job : 1 .. Len(batch[p]) + 1, node : Nat, exit : Exits]
       /\ cmd[p].pc = "arm" /\ cmd[p].job <= Len(batch[p]) => NextNode(p) \in AllNodes
       /\ worker[p] \in [Devices -> WorkerState]
  /\ probed \in [Procs -> [Devices -> 0 .. MaxFaults[batch]]]
  /\ signal \in [Procs -> 0 .. 3] /\ cancel \in [Procs -> BOOLEAN]
  /\ faults \in 0 .. MaxFaults[batch]

\* While a batch runs, every device whose worker has not ended is claimed
\* whole, disk and partitions, by that process: no worker ever writes beside
\* another process, another program, or a sibling that could not be locked.
WholeBatchLocked ==
  \A p \in Procs : cmd[p].pc = "running" =>
    \A d \in Targets(p) : worker[p][d].at \notin Over => \A n \in Nodes(d) : holder[n] = p

\* The drive a worker has in hand is the drive the operator was shown,
\* however long the prompt took, if the drive has a serial to tell.
WrittenIsConfirmed ==
  \A p \in Procs : cmd[p].pc = "running" =>
    \A d \in Targets(p) \ Serialless : worker[p][d].at \notin Over => drive[d] = probed[p][d]

\* A worker has the drive that was confirmed, all of it, and to itself.
WorkerOwnsItsDrive == WholeBatchLocked /\ WrittenIsConfirmed

\* A certificate is issued only over a drive on which every window holds this
\* run's pattern, whoever raised the cancel flag meanwhile; a drive that
\* loses writes and is not read back is the one exception.
CertifiedWhole ==
  [][\A p \in Procs : \A d \in Devices \ (Flaky \ Verified) :
       worker'[p][d].cert /\ ~worker[p][d].cert
         => \A w \in 1 .. Windows : media[d][w] = p]_vars

\* Exit 0 of a real run means a certificate and a Completed journal for every
\* target; a batch refused, dry or stopped before arming has journaled and
\* certified nothing, and a failed one has a device that failed.
ExitMatchesCertificates ==
  \A p \in Procs :
    /\ cmd[p].exit = "ok" => \A d \in Targets(p) : worker[p][d].cert /\ worker[p][d].last = "Completed"
    /\ cmd[p].exit \in {"dry", "refused", "interrupted", "aborted"}
         => \A d \in Devices : worker[p][d] = Idle
    /\ cmd[p].exit = "failed" => \E d \in Targets(p) : worker[p][d].at = "error"

\* A journal that ends in Interrupted was cut short by a signal it counts, or
\* by a drive of the same batch that reached its critical temperature, and
\* never without either; THERMAL_CRITICAL is said of no cooler sibling.
ShutdownHasCause ==
  \A p \in Procs, d \in Devices :
    /\ worker[p][d].last = "Interrupted"
         => worker[p][d].signals > 0 \/ \E e \in Targets(p) : worker[p][e].hot
    /\ worker[p][d].last = "THERMAL_CRITICAL" => worker[p][d].hot

\* What a batch reports is what happened: its exit code and the last record of
\* every journal.
ReportsAreTrue == ExitMatchesCertificates /\ ShutdownHasCause

\* Past the prompt a batch always ends: two commands that name the same
\* drives in opposite orders do not wait for each other's locks, and a batch
\* whose flag is raised does not run on.
BatchSettles == \A p \in Procs : cmd[p].pc = "prearm" ~> cmd[p].pc = "exited"
=============================================================================
