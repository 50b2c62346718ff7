# discCleaner (`dc`): a TLA+ verification of the sanitization pipeline

`dc` erases storage devices and leaves evidence behind: a hash-chained journal
(DCJ1) of what it did and a certificate that says what was verified.  The
promise is that the evidence never says more than the device holds, whatever
kills, outages, signals, I/O errors and resumed runs come between.  These
modules model the parts of the program that promise rests on, from one device's
run and its journal through batches, firmware purges, the mesh of witnesses and
the dashboard to the rig that erases a dead drive.  TLC checks them on small
instances; every safety property of every model is proved with TLAPS as well,
for all values of the constants.  Liveness is checked by TLC only.

## Inventory of the system

Rust, about 95 000 lines in `src/crates/*/src`.  The parts that carry the
program's own control logic come first.

| Part | State it keeps | Operations | Hard behaviour | What makes it correct |
|---|---|---|---|---|
| Sanitization pipeline, `dc-cli/src/execute.rs` | FSM, pass and window counters, verdict | `execute_device_inner`: arm, passes, flush, verify, certify | cancel at any instruction, kill, outage, EIO, thermal trip | journal leads media; flushed means durable; certificate is truthful |
| Resume, `dc-cli/src/lib.rs` `cmd_resume` | frontier rebuilt from the journal | scan, arm, append `Resumed`, rest of the passes | repeated crashes; index arithmetic; early `Flushed` | passes in order; frontier on device; no window skipped |
| FSM, `dc-core/src/fsm.rs` | one state | `begin_pass`, `begin_flush`, `begin_verify`, `certify` | permits must not be reusable | nothing read back before a flush |
| Journal, `dc-core/src/journal.rs` | file of chained records, torn tail | `append`, `read_and_verify_chain`, `open_for_resume` | torn writes, zero tails, two resumes | acknowledged records are never lost |
| I/O engines, `dc-io` | `GLOBAL_CANCEL`, window loop | `write_pass`, `zero_pass`, `read_verify`, `flush` | fast-path fallback, short writes | windows counted are windows written |
| Verifier, `dc-verify` | windows checked, mismatches | `verify_window`, `finalize` | sampling | a sampled mismatch is always reported |
| Thermal pacer, `dc-hw/src/thermal.rs` | aborted flag | `pace` | trips while the loop ends | drains or completes, never hangs |
| Guardian, `dc-probe/src/guardian.rs` | locks held | `evaluate`, `arm_and_lock` | partial arming, identity drift | no write without the exclusive lock |
| Batch runs, `dc-cli/src/execute.rs` | one thread per device | spawn, join, shared cancel | one device cancels all | each device's evidence stands alone |
| Mesh, `dc-mesh` | views, votes, gossip, shares | propose, vote, commit, rogue reports | faulty nodes, reordering, loss | quorums agree; threshold certificate |
| Orchestrator effects, `dc-core/src/orchestrator.rs` | pure state machine | event to effects | order of effects | no effect out of phase |
| Purge drivers, `dc-cli/src/purge.rs`, `dc-nvme`, `dc-ata`, `dc-scsi`, `dc-mmc`, `dc-opal` | device protocol state | sanitize, poll, security erase | timeouts, power loss while frozen | completion is read from the device |
| Dashboard, `dc-cli/src/serve.rs`, `dc-web` | job table, connections, event channels | HTTP and SSE handlers, watchers, poller | concurrent clients, a cancel beside an engine's end, a restart | the table says what became of every engine; no request waits for ever |
| Remote, `dc-iscsi`, `dc-nvme/fabrics.rs` | login and session state | login, commands | lost responses | sequence numbers |
| Cloud, `dc-cloud` | lifecycle stage | attach, wipe, verify, detach | API retries | detach only after verify |
| Resurrect, `dc-resurrect` | rig, controller core, SRAM, NAND | scan, triage, download, jump, walk, read back, prove | lossy wires; a kernel that runs on without the rig | the proof accounts for every block truthfully |
| CXL, FPGA, bare metal, photon, vault, TPM | device or frame state | one each | hardware polling, lost frames | see PROJECT.json |

Not candidates for modelling: cryptography and arithmetic (`dc-pq`, `dc-zk`,
`dc-vdf`, `dc-fhe`), analog signal models (`dc-sonar`, `dc-wear`,
`dc-remanence`, `dc-optix`), rendering (`dc-report`, `dc-tui`), the test kit.
Their entries in PROJECT.json give the reason.

How the parts meet: the CLI compiles and seals a plan, the Guardian locks the
device, the FSM hands a permit to an engine for each phase, the engine writes
and reads windows and samples `GLOBAL_CANCEL`, which the signal handler and the
thermal callback set, and the pipeline appends a journal record around each
phase.  After a crash only the journal and the media are left; `dc resume`
rebuilds the rest from the journal, and `dc cert --journal` rebuilds the
certificate.

## Plan

Done: `WipeRun`, which implements `Sanitization`; `Journal`, which implements
`AppendLog`; `BatchRun`, several
devices and several commands; `PurgeRun`, the firmware ladders; `MeshWitness`
and `MeshConsensus`; `Dashboard`; `Resurrect`.  Each has a module of proofs
named after it.

| Module | Composes or extends | Stands for |
|---|---|---|
| `WipeRun` | FSM, engine, verifier, pacer, journal as a log; implements `Sanitization` | one device, from arming to certificate, with resume |
| `Journal` | implements `AppendLog` | the DCJ1 file write by write; why `WipeRun` may treat an append as atomic and durable |
| `BatchRun` | Guardian's locks, one abridged `WipeRun` per worker | `dc execute` over several drives, several commands at once |
| `PurgeRun` | command, ladder, drive, fabric session | `dc purge` |
| `MeshWitness` | discovery, gossip, rogue ledger | a member until it is ready |
| `MeshConsensus` | consensus, rogue ledger, FROST session | a member from ready to certified |
| `Dashboard` | connections, job table, watchers, engines, broker | `dc serve` and the `dc execute` children it starts |
| `Resurrect` | rig, wire, core, SRAM, NAND | the erasure of a drive through its debug ports |

Left, in this order: the cloud lifecycle with its rollback; the CXL mailbox; the
fleet rollout.

## Runs

| Run | Instance | Question |
|---|---|---|
| `wipe_crash` | `MCWipeRun`: 2 passes, 3 windows, the second pass by BLKZEROOUT; a kill, an outage, a dropped write, a signal, a thermal trip, 2 resumes | is the journal ahead of the media and in order, is flushed data durable, is the run a `Sanitization` of its device |
| `wipe_retry` | `MCWipeRun`: 1 pass, sampling stride 2; 2 I/O errors, a refusal of one of the guards, a signal, an outage, 5 resumes | what certificates and RangeCommits stand for, does the victory lap deliver, does retrying make progress |
| `journal_crash` | `MCJournal`: sealed, 3 records; a kill, a full disk, an outage, 2 resumes | is the file an append-only log, are torn tails cut at a record boundary and kept |
| `batch` | `MCBatchRun`: 2 commands, 2 drives, 3 target lists | who holds which drive, what certificates, exit codes and journals say, do batches end |
| `purge` | `MCPurgeRun`: every request on every family | what a purge has done wherever it stops, and that it stops |
| `mesh_witness` | `MCMeshWitness`: 4 members, up to two drives, 6 fleets | what a member is ready to certify, and that it becomes ready |
| `mesh_equivocator` | `MCMeshConsensus`: 4 members, one Byzantine, who may sign empty blocks and name rogues nobody ruled; 2 views | do decisions of a view, convictions and certificates agree |
| `dashboard` | `MCDashboard`: 2 connections, 2 engines, a restart | is the job table true, does every request get its answer |
| `resurrect` | `MCResurrect`: 2 dies of 2 blocks of 4 pages, 12 boards | do only whole images run, is the proof true, does the mission settle |
| `resume_certifies_mismatch`, `stale_resume`, `mesh_fork` | as small as the disagreement needs | what a document says and the code does not do; see *Disagreements* |

Deadlock is not checked: every one of these systems stops of its own accord, in
a final state or in one where only a bounded outside event is left.  What would
be a harmful stop is stated as a liveness property of the run.

## WipeRun

**What it models.**  `execute_device_inner`, `cmd_resume`, `cmd_cert --journal`,
the `SyncEngine` they drive, the `FsmOrchestrator` and the environment.

| Model | Code |
|---|---|
| `media`, `cache`, `volatile` | the device's durable content, what a read returns, windows not yet fsynced (the device is opened buffered, `guardian.rs:269`) |
| `journal` | complete records of the DCJ1 file; `Log` is `JournalWriter::append`, which fsyncs before it returns |
| `certs` | certificates in the output directory |
| `pc`, `cmd`, `off`, `win`, `from` | program point, command, loop variables |
| `fsm` | `FsmOrchestrator::state` |
| `idx`, `last`, `committed`, `reached` | locals of the record scan in `cmd_resume` |
| `checked`, `bad` | the `StreamVerifier` report |
| `cancel`, `aborted` | `GLOBAL_CANCEL`, `ThermalPacer::aborted` |
| `budget` | not code: how often each outside event may still happen |

One action stands for the code between two visible effects: one window of an
engine loop, one journal append, one flush, one record of the scan.  A journal
append and the assignments after it up to the next effect are one action.  A
window's content is a level: 0 is old data, `2p+2` the pattern of pass p,
`2p+1` a mixture a torn write left; patterns are compared only where the
read-back compares them.

**Bounds.**  `MaxEvents` bounds outside events only; the program itself is not
bounded.  Two passes are enough to have a pass boundary and a last pass, the
two cases the resume code tells apart; two or three windows give a first, a
middle and a last window for the loop and for sampling; two resumes let a
frontier rebuilt by one resume be rebuilt again by the next.

Between `Completed` and the certificate execute may still end fail-closed: the
last look of the acoustic guard, a TPM quote that the policy asks for and the
chip does not give, the vault, the signature and the write of the file
(`execute.rs:1300-1443`; in a resume `lib.rs:2703`, 2715).  `CertificateWithheld`
is all of these, and `GuardRefuses` the guard's earlier questions, before the first
write and behind the windows of pass 0.  So `VictoryLap` does not say that a
verified run delivers its certificate: it does, or it is killed or loses power,
or one of these ends it, and then its journal is completed and
`dc cert --journal` builds the certificate from that.

**Fairness.**  `WF_vars(Running)`: the process's own steps are straight-line
sequential code with no lock or wait, so an enabled step is eventually taken.
Events have no fairness.  `RetrySpec` adds weak fairness of starting a command
while no process runs; it is the assumption that an operator retries, named so
in the property that uses it.  `RetryReachesFlush` stops at the first pass's
flush, and its run has one pass: a journal that a resume refuses because a later
pass is missing behind a `Flushed` record is the first entry under *Disagreements*,
pipeline and journal.  What `wipe_crash` shows of that case is that a skipped
pass is attested by nothing.

`CommitBacked` and `CertificateErased` are one property, `ClaimsAreBacked`: what
the run leaves behind claims no window it has not written.  Where a property
holds only short of an outage or a drive that loses writes, its statement says
so (`NoOutage`, `NoDrops`): a RangeCommit leads the media, so an outage can take
its windows back, and so can the eviction of a page whose write the drive has
dropped (`CommitBacked`).  `SkipVerify = TRUE` (`VerifyLevel::None`) is
covered by the theorems, not by a run.

`Sanitization` is what a certificate's reader relies on, in the terms of the
device: windows take on a pass for good and only behind the attested passes
before it; a pass is attested when the whole device durably holds it; the device
is judged once, behind its last pass, and nothing reaches its media afterwards;
every certificate repeats the judgement.  `ImplementsSanitization` maps `erased`
to the media, `attested` and `verdicts` to the records of the journal.  Two
faults excuse it, and only what is said after them: a device that drops writes
(`lossy`), and a run resumed that has seen an outage (`doubtful`), whose
RangeCommits may count windows the outage took back.  What was attested before
stays true.

## WipeRunProofs

`CoreInv` is inductive without bounds: types, the grammar of the journal
(`JournalInv`), what the running process knows at each program point
(`ProcessInv`) and `WriteAhead`.  `PassesInOrder` alone is not inductive,
because `cmd_resume` adds `last_pass_idx` twice; the invariant that closes the
gap is `Scanning`: a resume that has met no `Flushed` record is still at pass
0, and one that has met one skips the loop.  `EraseInv` adds that clean pages
equal the media, that the permits of the FSM imply nothing is in flight, and
that a verdict stays true of the media once it is in the journal
(`DeviceAtRest`).  `ProgressInv` adds what makes flushed data stay and claims
stay backed:

- `CacheLeads` and the order of the levels: a write of pass p only raises a
  window's level, because the loop stands past every pass it has flushed
  (`FlushedBehind`) and nothing older is ever written again.
- `RangesWritten`: a RangeCommit is logged only behind the whole window loop, so
  it stands for every window, whatever share it reports.  `ScanCounts` and
  `ResumeMarked`: a resume skips windows only on the word of a RangeCommit of
  the pass it goes on with.
- `LoopWrites`: what the pass under way has behind it.  After an outage only a
  run that began at window 0 knows this, which is why `CommitBacked` and
  `CertificateErased` are stated short of one.
- `PlanFlushed`: no read-back before the last pass was flushed.

The only assumption is `PlanAssumption`, the types of the constants.  Proved:
`TypeCorrect`, `JournalLeadsMedia`, `PassesStayInOrder`, `ReadBackDurable`,
`CertificatesAreTruthful`, `VerifiedOnce`, `FlushedStaysDurable`,
`ClaimsStayBacked`, and `RunSanitizes`, the refinement.  Its step needs one more
fact, `FlushesInOrder`: with it and `WriteAhead`, content of a pass in the cache
means that all passes before it are on record as flushed, before a flush or an
outage can bring it to the media.  Every step is an `Attest` (`AppendFlushed`), a
`Judge` (`AppendVerify`), a `Certify` (`WriteCertificate`, `dc cert --journal`) or
an `Overwrite` that may change nothing.

## Journal and AppendLog

**What they model.**  `JournalWriter` and `JournalReader` of
`dc-core/src/journal.rs`, and the order in which `cmd_resume` reads the chain
(no lock), arms the device (`O_EXCL` and `flock`), saves the tail, cuts it off and appends.

| Model | Code |
|---|---|
| `file`, `durable` | the bytes behind the magic as a reader sees them, and as the last `sync_data` left them; one cell per `write_all` |
| `saved` | `.tailsave` |
| `acked` | records whose `append` returned `Ok` (not a variable of the code) |
| `head`, `cur`, `part` | `prev_hash`, the record of the append in progress, its next write |
| `seen` | `JournalChainSummary` as `cmd_resume` holds it across the lock |
| `holder`, `phase` | who has the device, and where each process stands |
| `Verified`, `Verdict` | what `read_and_verify_chain` returns |

A hash or signature cell carries the chain it covers, so a cell fits only
behind the records it was computed over (no collisions).  A stopped write
leaves a `Piece`; an outage keeps everything synced, and of the rest a prefix
in which each cell is written or still zero.  The directory entry of a journal
with its magic is taken to survive an outage.  The flock on the journal is not
modelled: `open_for_resume` releases it when it reopens the file for append,
and the device lock already excludes the other writer.

`AppendLog` is what a writer relies on: records become readable in order, an
acknowledged record is never lost, a crash takes back a suffix of what was not
acknowledged.  `ImplementsLog` maps its `log` to `Verified(file)`.

**Bounds.**  A kill, a full disk and an outage let the recovery of one be hit by
another; three records give the Header, which the reader treats apart, and a record on either
side of a crash.  Resumes are bounded because each may grow the file when it
overlaps another.  There is no fairness and no liveness here.

The run starts one process at a time (`Overlap = FALSE`), which is what the
device lock gives a resume that was not started too early; the resume that was
is `stale_resume`.

## JournalProofs

For any processes, any number of records, of kills, of outages and of full disks,
sealed or not.  The hypothesis of every theorem is `Overlap = FALSE`: no resume
starts while the run it resumes is still ending.  The device lock gives that to
every resume but the one of `stale_resume`, which reads the chain before it has
the lock; without it `ResumeKeepsChain` is false, as that run shows.

`Verified(f)` is defined as the reader finds it, by trying; a proof has to know
which chain it finds.  `Reads(f, c)` says that f begins with the cells of the
records of c, slot after slot, and `VerifiedPrefix` that whatever reads off a
file is a prefix of `Verified(f)`: a cell fits one chain only.  The invariant:

- `Control`: one process at a time, who holds the device, what an empty file is.
- `WriterAtEnd`: an open file is the writer's chain and the writes of the append
  under way; so the next record goes where the reader will look for it.
- `SeenIsSo`: what a resume has read is still what the file says when it cuts
  and appends.  This is the conjunct `Overlap = FALSE` is for.
- `AckedReads` and `DurableBehind`: the acknowledged records read off the file
  and off its durable part, and what reads off the durable part reads off the
  file.  `SurvivorsRead` carries both through an outage.
- `TailFits`: short of an outage the tail is one record, begun and not finished;
  `CutKept`: what is about to be cut off is in `.tailsave`.

Proved: `TypeCorrect`, `TornTails`, `ResumeKeeps`, `TailsSaved`, and
`KeepsTheLog`, the refinement: the initial state maps to the empty log and each
step to a `Publish`, an `Acknowledge`, a `Lose` or a stutter of `AppendLog`.

## BatchRun

**What it models.**  `cmd_execute` and the worker closure of
`dc-cli/src/execute.rs`, the signal handler, and `arm_and_lock` of
`dc-probe/src/guardian.rs`, in several processes over the same drives.

| Model | Code |
|---|---|
| `cmd` | the main thread: probe and `evaluate` target by target, the gate, one prompt for all, the last look at the signals, arming, spawn and join, exit code |
| `probed` | the identity each target had when the operator was asked |
| `holder` | `O_EXCL` and flock per block node, disk and partitions; a refusal drops the handles of everything armed so far |
| `worker` | one thread per device: create the journal, one pass window by window, read-back, certificate; `last` is the last record of its journal |
| `signal`, `cancel` | the stores of the handler one by one, and `GLOBAL_CANCEL`, which a worker's pacer raises as well |
| `drive`, `media` | which drive is at a node, and what its windows hold |

What `WipeRun` says of one worker is not repeated: a worker here has one pass
and keeps the last record of its journal.  The refusal ladder of `evaluate` is
one nondeterministic refusal.  A drive that is swapped while it is held open
fails with EIO.  A worker's panic is caught by its join (`panic = "abort"` is
set for `profile.ghost` only).  Two things of the kernel are left out: a
partition that vanishes between the scan and its open, and the rule that a
whole disk and its partitions exclude each other.

**Instance.**  Two commands over the same drives in opposite orders, one fault;
one command alone, two faults; a command that names a drive twice, beside
another.  One drive has a partition, may lose a write and is read back, the
other has no serial and is not.  Two drives and two windows are the least in
which one worker is cancelled half way by the other.

**Fairness.**  Weak, for each main thread and each worker: they wait for nobody
but the operator, who owes nothing, and each other's end.  So `BatchSettles`
starts behind the prompt.

## BatchRunProofs

For any number of commands, drives, partitions, windows and faults, and any lists
of targets; the assumption beyond types is that no command is called `none`,
`other` or `old`, the values `holder` and `media` use for nobody, another
program and old data.  `WorkerOwnsItsDrive` is not inductive: what a worker holds was
locked before it was spawned, node by node, by a main thread that could still
be refused.  `Armed` follows that loop (every target before the current one whole,
and of that one the nodes before the next); `Owns` takes over at the spawn;
`Written` says what is behind a worker's window, `Recorded` and `ExitTrue` what
its record and the exit code rest on, and `Caused` who raised the flag.  The
invariant is stated command by command; a step keeps the others' because it
leaves alone what they hold (`SoundStays`).  Proved: `TypeCorrect`, `OwnDrives`,
`TrueReports`, `WholeCertificates`.

## PurgeRun

**What it models.**  `dc-cli/src/purge.rs` with the ladders of `dc-nvme`,
`dc-ata` and `dc-scsi` (`purge.rs` each), the drive they command and the fabric
session around an NVMe-oF target.

| Model | Code |
|---|---|
| `run` | the command line: family, mechanism, fabric, dry run, `--cold-unfreeze` |
| `drive` | what it attests, frozen, password, hidden areas, sanitize state, a pending unit attention, what it holds |
| `pc`, `mech`, `polls`, `ladder` | the next step; the rung, the polls spent and the outcome of the ladder |
| `journal`, `lock`, `session`, `port` | records; the claim on the node; the fabric session; `power/control` of the ATA port |
| `disclosed` | the password lifeline was printed and journalled |

On ATA and SCSI a rejected command has changed nothing, a command that faulted
may have started, and only a rejection takes the next rung.  On NVMe the code
knows neither: the ioctl layer takes every EIO for a rejection
(`dc-nvme/src/transport.rs:20`), also one behind which the command has started,
and a status of the controller, which the ioctl returns as a positive number, for
success (`linux_admin.rs:149`).  So `IssueSanitize` and `IssueFormat` may take the
next rung from a drive that is already erasing, and may go on as if a denied
command ran (`drive.denied`).  The sanitize log may still tell of an earlier run's
success (`stale`), which the code cannot tell from its own; the drive sanitizes at
its own pace, or never ends; it may be reset at any poll.  The read-back of a
crypto format samples one window in 64 (`dc-cli/src/purge.rs:1380`): a drive with
its data elsewhere is `sparse`.  MMC, UFS and Opal are single commands without
state of their own and are left out.

What `EvidenceIsReal` says is bounded by that.  `SummaryIsTerminal`: a sanitize
the ladder reports as done was started by this run and ended well, and a security
erase has zeroed the drive, in every run that met none of three deceits
(`Undeceived`): a denial taken for success, the unit attention of a reset taken for
the end of a SCSI sanitize, and a drive that returns its sense as data where the
code looks for none.  For these nothing is claimed, because nothing holds.
`AssemblesOnEvidence` needs no exception: whatever was denied or started by an
EIO, a certificate of the crypto format is assembled only behind zeros in every
sampled window; of the others it says nothing.  `LadderWalksDown` is stated for
ATA and SCSI; on NVMe it is false.

**Instance.**  Every request on every family, every set of attested mechanisms,
frozen or locked, with hidden areas, two polls: one that finds the sanitize
running and one at the budget.

**Fairness.**  Weak on the steps after the node is locked (`Armed`): every
command has a timeout and every poll loop a budget.  Neither the operator nor
the drive owes anything.

## PurgeRunProofs

For any set of families and any poll budget.  `EvidenceIsReal` needs to know
that the evidence belongs to the rung the ladder stands on.  On ATA and SCSI
`NoneOvertakes` (a sanitize goes on in the drive only where the ladder stands on
one) and `Untouched` (a rung is only issued to a drive that took none before) say
so; on NVMe, where neither holds, `Polled`: the status loop waits for a
sanitize of this run, on whichever rung it was started, unless a denial was taken
for its start.
`ErasureHasAuthority` needs `Consented` and `UnderLock`, where the prompts and
the lock lie before the first command.  Proved: `TypeCorrect`, `RealEvidence`,
`AuthorizedErasure`, and of the steps `LadderOnlyDown` and
`RefusalsRecoverable`.

## MeshWitness and MeshConsensus

**What they model.**  A member of `dc-mesh` in two halves.  `MeshWitness`:
`discovery.rs`, `gossip.rs`, and the witness deadlines, accusations and
readiness of `mesh.rs` and `rogue.rs`.  `MeshConsensus`: `consensus.rs`,
isolations, `step_seal` and the FROST session of `threshold.rs`, from
readiness on.

| Model | Code |
|---|---|
| `frames` | every frame sent; it only grows, so a frame may arrive at any time, in any order, again |
| `Signed(f)` | `f` was sent, or its signer is Byzantine, who may have signed anything |
| `hello`, `peers`, `frozen` | `Discovery`: the membership is frozen by the HELLO that completes the fleet |
| `owners`, `pending` | `GossipStore`, and the challenges a witness awaits proofs for |
| `view`, `phase`, `proposal`, `seen_proposals`, `isolated`, `decided` | `Consensus` and the ledger |
| `seal_commit_sent`, `seal_share_sent`, `certificate` | the FROST rounds |

Votes, accusations and shares are tables that the code reads only against a
quorum; they are not state: the step that reaches a threshold is enabled when
enough frames were sent, and a table that `enter_view` clears is represented by
the view in the frame.  `electorate` is a history variable: the live set a
decision was taken in, which neither the block nor a later `isolated` need tell.
The evidence gate is the code's (`mesh.rs:493-536`): an empty block passes
unread, any other must have the roots of the evidence held and name every member
isolated here, and may name more (`PassesGate`); so members with different live
sets vote for one block, and blocks that name members nobody ruled are decided.
Discovery, spot proofs and readiness are checked for
one liar, one silent member, a dual-ported drive, a drive of the liar's beside an
honest one, whose report must not make up for the other in the count, deadlines that
pass early and
late boots; agreement for one member that signs whatever it likes.  Four
members are the smallest cluster with a fault bound of one; two views are what
a decision and the view after it need.  The wire format, signatures and FROST
arithmetic are abstracted to who signed what; key generation is left out.

`VerdictsAreTrue` joins `ReadyIsWitnessed` and `FailedProofsAreReal`, the two
ways a spot proof may lie.  `AgreementAcrossLiveSets` is agreement within one
view, also between members that have isolated different others; across views
agreement does not hold, which is the run `mesh_fork`.

Isolation shrinks a member's live set and with it its quorum, so two quorums of
one view need not meet in an honest member.  `QuorumsOverlap` is when they do:
the commits that both decisions took outnumber the two electorates together and
the Byzantine members of both.  Of four members with one faulty they overlap
unless an honest member was cut off.  In a larger cluster they may not although
nobody honest was: of seven members with two faulty, one of them isolated, 5 of
the seven and 3 of the six that are left may share only the other faulty one,
and 3 and 3 of the six share nobody at all.  The code checks no such condition, and
`decision_quorum` does not ask for n = 3f+1: of five or six members any two quorums
of 3 may meet in one member or in none.  Where `QuorumsOverlap` is false nothing is
claimed.

**Fairness.**  Weak on `Progress` of `MeshWitness`: members keep ticking and a
frame that was sent and not lost arrives.  `EventuallyReady` assumes that no
deadline passes early, as the code's deadlines do when the segment is fast
enough; without that no member need ever be ready.  `MeshConsensus` is checked
for safety only.

## MeshWitnessProofs

For any members, drives and fleets.  `FramesAreTrue`: every frame says what its
sender knew, and what was so is so still.  `NoFalseAccusation` follows from it
for every fleet: nobody who answers from wiped media is accused of a failed
proof.  `TrueVerdicts` needs `WholeFleet`, that the declared fleet size is no
less than the number of members; with a smaller one, or with the silence window
in its place, an epoch may freeze before all members are known, and the members
need not agree on it.  Readiness compares two
counts, reports and drives expected; that the reports counted are those of the
drives expected is the lemma `ReadyCoversThen`, a pigeonhole argument over
`FiniteSetTheorems`: a report names a drive of its reporter, and no two name one
serial.  Also proved: `TypeCorrect`.

## MeshConsensusProofs

For every membership, fault set, hash of the views, evidence and bound.
`IInv` adds to the types that what a member holds belongs to its view, whichever
rogues it names (`MemberFits`), that a commit's sender is still bound to it while it stays
in the view (`CommitsFit`), one commit per member and view, one share per
member, and that the frames behind a decision, an isolation or a certificate
stay sent (`Backed`).  `AgreementInView` is not inductive alone, because the
votes that made the first decision are gone from its member when the second is
made; `Backed` keeps them.  On top, from quorum intersection (`QuorumsMeet`
arguments over `FiniteSetTheorems`): `DecisionsAgreeInView` with N = 3f+1,
`IsolationIsHonest` with at most f Byzantine members, `CertificatesAgree` with
2 * Threshold > N + |Byzantine|, and `LiveSetRestartsView`.

`DecisionsAgreeAcrossLiveSets` is `AgreementAcrossLiveSets` for every
membership and whatever blocks a Byzantine member signs; nothing rests on the
rogues a block names.  `Backed` gives each decision its commits, all from its electorate,
and `QuorumsOverlap` makes two of them share an honest sender.

## Dashboard

**What it models.**  `dc-cli/src/serve.rs` with `server.rs` and `sse.rs` of
`dc-web`: connection threads, the job table, the watcher of each job, the
`dc execute` child, the event broker and the poller; a dashboard that is
restarted while its children run on.

| Model | Code |
|---|---|
| `conn`, `live` | where each connection thread is; the count of slots |
| `jobs`, `child` | the mutex of the job table and of each job's child |
| `job`, `watcher`, `engine` | the record a client reads; the thread in `wait()`; the process |
| `killed` | history: engines that were sent SIGKILL before they ended |
| `subscribed`, `queue`, `poller` | the broker's senders, the bounded channels, the poller |

Critical sections that take no further lock are one step; the job table and the
child are locked by steps of their own, since a cancel waits for the child
while it holds the table.  `kill()` is not waited for: a cancel marks the job
`Cancelled` in its next step, and `Dies` ends the engine and gives up its drive at
any later time; until then it runs on and may even finish.  The child is never
taken out of its record, so the branch "job already finished"
(`serve.rs:432-434`) is dead: a cancel of a job that has ended overwrites
`Completed` with `Cancelled`, over a drive that is erased and certified.  So
`TableTellsTruth` lets `Cancelled` say only that the engine has ended or is being
killed; what it ended with is told by the exit code, which stands once the watcher
has written it.  `EndIsReported` excepts a job whose watcher thread could not be
spawned: the code ignores that (`serve.rs:419`), and such a job reads `Running`,
with its engine or a zombie, until it is cancelled.

The child's stdout and stderr are pipes nobody reads,
and its prompt blocks in `read_line` across ^C (`SA_RESTART`).  HTTP parsing,
authentication, the inventory's contents and certificate summaries are data.  A
refresh without a subscriber changes nothing and is no step.

**Instance.**  Two connections, two slots, two engines, one drive to erase and
one that is protected, a channel of one frame, three requests, one fault
(a thread or a child that cannot be created, or a restart).  Two requests for
one drive can pass the check together, and a cancel can meet the engine's end.

**Fairness.**  Weak for each connection, watcher, engine and the poller; nothing
is owed by clients or by whoever sits at the terminal.  `RequestsAnswered` is
therefore conditional on no engine waiting at its prompt for good.

## DashboardProofs

For any number of connections, drives, engines and requests, with at least one
drive (`DashboardAssumption`; a request names one).  `ReportedExitIsTheEngines`
and `NoOrphanEngine` are not inductive, since the watcher reaps, locks and
records in three steps, and a cancel kills and marks in two beside it.  `EndsFirst`
says that a watcher about to write an end has seen the engine end, and a cancel
has seen it end or sent it the signal (`Doomed`, which is stable); `Started` that a
job enters the table behind its engine; `HoldsItsDrive` that an erasing engine
has its drive open exclusively, from which no two erase one.  `Counted` bounds
the open connections by the slots counted: a slot may be lost, never gained.
Proved: `TypeCorrect`, `TrueTable`, `EnginesFound`.

## Resurrect

**What it models.**  `dc-resurrect`: `pipeline.rs` on the host, `uart_brom.rs`
and `dp.rs` for the way into the SRAM, the erase kernel that
`payload/fragments.rs` emits, `bitbang.rs` for the pins, `attest.rs` for the
proof, and of the simulated bench (`sim/`, `nand.rs`) what the rig can observe.

| Model | Code |
|---|---|
| `board`, `nand` | the bench: scenario, dies with another READ-ID, room in the SRAM; per block its marker, the erases it refuses, pages an erase leaves, pages with data |
| `rig` | the host: where `run` stands, the class of the failure, the transfer, patience, records read back, outcome |
| `link` | heartbeats nobody has read |
| `core`, `sram` | what the controller runs; the image and the mailbox |
| `walk` | the loop registers of the kernel, or the loop variables of `run_erase` |
| `expect` | EXPECT_ID of the kernel: the ID word the probe read, own or junk |
| `stalled`, `glitches` | history: blocks whose ready line timed out, and dies whose ID was misread (`IdOf`); the faults so far |

A glitch is a fault of the wire, of the ready line, of the debug port or of the
file system.  The code has an answer to most; to two it has none.  The probe does
not look at what its waits came to, so the ID word and the ONFI page may each be
junk (`sram.probe`), and the host checks the page only (`ReadGeometry`): with a
junk ID and a good page every good die is passed over, and the proof is complete
all the same.  Nor does the kernel look at the wait after RESET before its one
READ ID of a die (`fragments.rs:286-306`), so a good die may be recorded as
`die-id-fail` without a second try (`Garbles`).  A "die" leaf therefore claims only
that no block of the die was touched; `LeafIsTrue` asks for a reason (`Unfit`) among
these.  The core is hardware that runs beside the rig,
although the simulator advances it only in `service()`; the model interleaves
the two freely.  A block that reports success and keeps a page, and a die that
answers with another ID, are hardware the simulator does not have; the read-back
and the ID check exist for them.  The pins select the die by one cell of the
boundary register, so `NumDies` is at most two.

Left out: an ONFI page with the right signature and garbled numbers
(`from_onfi_param_page`, `nand.rs:126-145`, checks the signature and that the fields are
not zero, not the CRC), the bits on the wires, the instruction set, the budget of instructions
(a fault like the bus fault that is modelled), the Merkle tree, geometry beyond
24 bits of row address and 16 bits of block number.

**Instance.**  Each of the four scenarios with a board of awkward blocks (one
that refuses twice, one marked, one that refuses always, one that keeps a page
no sample reads), one with an odd die and a block that keeps a sampled page, and
one whose SRAM is a record short; three glitches, two chunks, three NAKs of one
chunk, one silent poll.  Three glitches exhaust the NAKs, and stall a block three
times; the code's limits (4 NAKs, 2000 and 4000 polls) differ only in number.
The run visits 281,641 states.

**Fairness.**  Weak for the rig and for the core: neither waits for the other.

## ResurrectProofs

For every bench, geometry, patience and number of faults, from `Sizes` and
`Bench`, the types of the constants and boards on which no block has been
erased yet.  `Typed` gives the records field by field, which
`TypeOK` does not repeat.  `OnlyWholeImagesRun` is not inductive: that a running
core has its whole image depends on how far the rig was when it let it go.
`Whole` says it: while the rig sends, the SRAM holds as many chunks as were
acknowledged (`Downloaded`); the core runs only while the rig waits for it or has
given up (`WaitedFor`); the rig waits only for the image it loaded
(`ReleasedOn`); and what a core has said last, it says parked (`DoneIsLast`,
`ParkedFirst`), so a DONE of the probe is never taken for the kernel's.  Proved:
`TypesHold`, `ImagesAreWhole`, `TypeCorrect`, `WholeImages`.

### The ledger

`TruthfulProofs` states `ProofIsTruthful` for every bench, geometry, verify mode
and number of faults.  The code itself only counts leaves (`complete()`), so the
argument has to come from the walk.  `Books` is the invariant, on top of `Typed`
and `Whole`:

- `Ledger(R)`: a block behind the walk has exactly one leaf in `R`, and a true
  one; a block the walk has not left has none.  It holds of the kernel's mailbox
  while the kernel is the image of the core, and of the rig's own records while
  the rig walks the pins.
- `Fresh`: a block nobody has come to erase holds what it held.  A skipped leaf,
  or the one leaf of a die passed over, would not be true without it.
- `AtErase`: refusals left and tries made add up to at most two, unless the block
  always refuses; so three misses without a stall are a block that never erases.
- `AtVerify`: a block being read back took the erase, and a count of zero means
  that no page below the current one holds data (`NoneBetween`: the stride
  passes over no sampled page).  The count stays below `Wrap`, so the unsigned
  wrap of the pins' count can only hide data behind a stall.
- `Unwalked`: until the kernel is released or the pins are taken the walk stands
    at its start and nothing is recorded, so `expect` may still change, and `done` means
  that the walk is over.

`LedgerStays` and `LedgerGrows` say that a step which stays on its block, or notes
one true leaf about what it leaves behind, keeps the ledger; `KernelKeeps` and
`PinsKeep` show that every step of the two walks is one of these; `RigMoves` covers
all other steps of the rig.  At the summary every block is behind the walk, so the
ledger is the proof.  Proved: `BooksInOrder`, `TruthfulProofs`.

## Only model-checked

All liveness: `VictoryLap` and `RetryReachesFlush` of `WipeRun`, `BatchSettles`,
`PurgeEnds`, `EventuallyReady`, `RequestsAnswered` and `EndIsReported` of
`Dashboard`, `MissionSettles`.  They rest on fairness, and the proof system
reasons neither about fairness nor about `ENABLED`.  The runs under
*Disagreements* are counterexamples and need no proof.

## Disagreements

Three have a run with `expect: violation`.

- `resume_certifies_mismatch`: `cmd_resume` certifies a device whose read-back
  found mismatches, which `dc execute` refuses.
- `stale_resume`: a resume that starts while the run it resumes is still
  appending holds a stale chain head and a stale tail length; it cuts into a
  record acknowledged since, and the journal is refused from then on.
- `mesh_fork`: nothing of a decision is carried into the next view, so one
  equivocating member of four brings two honest ones to different decisions.

Others were met while modelling; the models contain the behaviour, and where a
property above would meet it, its statement says so.

Pipeline and journal:
- A journal with any `Flushed` record cannot be resumed (`dc-cli/src/lib.rs:2617`;
  `docs/ARCHITECTURE.md:99-100` says it can).
- A `RangeCommit` leads the media (`execute.rs:1092`; `t3_crash_recovery.rs:142`).
- The read-back is buffered, so a dropped write is certified
  (`guardian.rs:269`; `discCleaner.md:280`).
- `JOURNAL_ZERO_TAIL` is unreachable: a zero length prefix is answered with
  `ZERO_LEN_RECORD` first (`journal.rs:387`; `discCleaner.md:695`).
- A read-back that was cancelled is journalled as a signal with
  `signals_received` 0 whatever cancelled it (`execute.rs:1198`; lines 994-996).

Mesh:
- One crashed member stalls the consensus of four (`mesh.rs:1085`;
  `consensus.rs:32-33`).
- Quorums need not meet in an honest member: `decision_quorum` is applied to any
  number of members and to live sets that isolations shrink (`dc-mesh/src/lib.rs:140`;
  `consensus.rs:32-33`).
- `HELLO_ACK` is never sent (`discovery.rs:117`; lines 6-7).
- An honest member whose block changed with its evidence can be accused of
  equivocation (`rogue.rs:11`).

Purge:
- No purge can be certified: `assemble_purge_certificate` arms a fresh FSM and
  calls `begin_verify`, which accepts only `Flushing` (`purge.rs:869`,
  `fsm.rs:133`; `purge.rs:29-30`).
- A transport fault inside the ATA security erase leaves the password
  undisclosed (`dc-ata/src/purge.rs:665`; `dc-cli/src/purge.rs:27-28`), and a bad
  PREPARE status reports "drive disarmed" whatever the repair came to
  (`dc-ata/src/purge.rs:645-650`).
- "`Ok` only when a terminal, evidence-backed completion state was observed"
  (`dc-nvme/src/purge.rs:87-93`): a positive status of the ioctl is taken for success
  (`linux_admin.rs:149`), and the log of an earlier sanitize for this one's.
- "Only a controller REJECTION walks the ladder down" is kept by SCSI and ATA; on
  NVMe every EIO does (`transport.rs:20`).
- A unit attention is read as the end of a SCSI sanitize
  (`dc-scsi/src/purge.rs:466`; 325-327).
- A dry run with `--cold-unfreeze` cycles the port's power before the dry-run
  test, and a fabric session is left open on early errors (`README.md:238`).

Dashboard:
- A finished job can be cancelled, and then no longer reads `Completed`
  (`serve.rs:424-430`; `operator-dashboard.md:65`, "Cancel a running job").
- A cancel waits for the engine's end with the job table locked
  (`serve.rs:424-430`; `operator-dashboard.md:65`).
- A device whose job has ended still "already has an active job"
  (`serve.rs:327`).
- Only `device.updated` is ever published, though the document names `job.*`.
- A consumer dropped by the broker spins on keep-alives
  (`server.rs:162-171`; `sse.rs:8`); a thread that cannot be spawned keeps its
  slot (`server.rs:59`).

Resurrect:
- A good die whose ID was misread once is left as it was, in a proof that is
  complete (`fragments.rs:286-306`, `pipeline.rs:466`).
- With verification off the kernel writes the block's number where the record
  has the count of nonzero bytes (`fragments.rs:103`, 113; `bitbang.rs:234`).
- The pins record a marker that could not be read as a bad block
  (`bitbang.rs:316-317`), and two pages that could not be read cancel out in the
  count (`bitbang.rs:293`, 341), where the kernel records a failure.
- Erased blocks that counted residue make a complete proof, and only counts are
  compared (`attest.rs:237-239`).
- One damaged progress heartbeat ends the mission while the kernel runs on.

## Not modelled

Of the modelled code: HPA/DCO arithmetic, the audit log, token signing of
certificates, PDF output, the text of messages, throughput figures, stream
hashes, bad-block lists and time.  In `WipeRun` an append is atomic.  Of the
journal: size caps, records that do not parse, the fault-injection hooks.

Whole components: codecs, certificates and keys, `dc-pq`, `dc-zk`, `dc-vdf`,
`dc-fhe` are pure conversions and arithmetic; the analog models are floating
point; plan, pattern and strategy are pure functions whose result is the
constants of `WipeRun`; the photon bridge's fountain code is linear algebra over
random seeds, in which a lost frame changes only how many more are needed; the
orchestrator's effect machine is driven by no binary; reports, terminal UI, test
kit and the repository's own formal harness do not run with the system.  Cloud
lifecycle, CXL mailbox and fleet rollout can be modelled and are next in the
plan.
