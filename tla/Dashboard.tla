------------------------------ MODULE Dashboard ------------------------------
(***************************************************************************)
(* `dc serve`: the operator dashboard, dc-cli/src/serve.rs, with the       *)
(* connection threads of dc-web/src/server.rs and the event broker of      *)
(* dc-web/src/sse.rs.                                                      *)
(*                                                                         *)
(* Every HTTP connection is a thread; every job is a `dc execute` child    *)
(* with a watcher thread that waits for it.  They share one mutex over the *)
(* job table and, per job, one over the child and one over its snapshot.   *)
(* The snapshot, device and certificate mutexes are held only for accesses *)
(* that take no further lock, so a critical section of theirs is part of   *)
(* one step here; the job table and the children are locked by steps of    *)
(* their own.  The table lives in memory: a restarted dashboard knows      *)
(* nothing of the engines that still run.                                  *)
(***************************************************************************)
EXTENDS Naturals

CONSTANTS Conns,           \* connection threads
          Drives,          \* the drives of the inventory
          Protected,       \* those that hold the running system
          StdinIsTty,      \* the dashboard was started from a terminal
          MaxConnections,  \* MAX_CONNECTIONS
          ChannelBound,    \* CHANNEL_BOUND
          MaxJobs,         \* bound: engines ever started
          MaxRequests,     \* bound: requests that start, cancel, list or subscribe
          MaxFaults        \* bound: restarts, threads and children not created

ASSUME DashboardAssumption ==
  /\ Drives # {} /\ Protected \subseteq Drives
  /\ StdinIsTty \in BOOLEAN
  /\ {MaxConnections, ChannelBound, MaxJobs} \subseteq Nat \ {0}
  /\ {MaxRequests, MaxFaults} \subseteq Nat

VARIABLES
  conn,        \* where each connection thread is, and in which request
  live,        \* the server's count of connections
  jobs,        \* who holds the mutex of the job table
  child,       \* who holds the mutex of each job's child
  job,         \* the record of each job
  watcher,     \* the watcher thread of each job; "gone" with its dashboard
  engine,      \* the `dc execute` process of each job
  holder,      \* the engine that has each drive open O_EXCL, or 0
  killed,      \* engines that were sent SIGKILL before they ended
  subscribed,  \* connections whose sender the broker still has
  queue,       \* frames waiting in each connection's channel
  poller,      \* the poller thread
  requests, faults

streams == <<subscribed, queue>>
locks   == <<jobs, child>>
engines == <<engine, holder, killed>>
vars    == <<conn, live, locks, job, watcher, engines, streams, poller, requests, faults>>

Jobs       == 1 .. MaxJobs
JobStates  == {"none", "Running", "Completed", "Failed", "Cancelled"}
ExitCodes  == {"none", "0", "code", "signal"}
Requests   == {"table", "lookup", "check", "spawn", "insert", "cancel", "child", "mark"}
Settled(j) == job[j].state \notin {"none", "Running"}
Running(j) == engine[j].at \notin {"none", "ended"}

Closed   == [at |-> "closed", drive |-> CHOOSE d \in Drives : TRUE, serial |-> FALSE, job |-> 0]
NoJob    == [state |-> "none", exit |-> "none"]
NoEngine == [at |-> "none", drive |-> Closed.drive, exit |-> "none"]

\* cmd_serve binds, spawns the poller, and starts with an empty table.
Starts ==
  /\ conn = [c \in Conns |-> Closed] /\ live = 0
  /\ jobs = "free" /\ child = [j \in Jobs |-> "free"]
  /\ job = [j \in Jobs |-> NoJob] /\ watcher = [j \in Jobs |-> "none"]
  /\ subscribed = {} /\ queue = [c \in Conns |-> 0] /\ poller = "sleep"

Init ==
  /\ Starts
  /\ engine = [j \in Jobs |-> NoEngine] /\ holder = [d \in Drives |-> 0] /\ killed = {}
  /\ requests = 0 /\ faults = 0

Fault == faults < MaxFaults /\ faults' = faults + 1

-----------------------------------------------------------------------------
(* Connections *)

At(c, at)      == conn[c].at = at
Goto(c, at)    == conn' = [conn EXCEPT ![c].at = at]
Answer(c)      == conn' = [conn EXCEPT ![c] = [Closed EXCEPT !.at = "reading"]]
Ask(c, asked)  == /\ requests < MaxRequests /\ requests' = requests + 1
                  /\ conn' = [conn EXCEPT ![c] = asked]

\* At the limit the connection is shed, which changes nothing here.
HasRoomForOneMore == live <= MaxConnections
HasRoom           == live < MaxConnections

\* Accept: the slot is counted, then the thread is spawned; a thread that
\* cannot be spawned keeps its slot for good.
Accept(c) ==
  /\ HasRoom /\ At(c, "closed")
  /\ live' = live + 1
  /\ \/ Goto(c, "reading") /\ UNCHANGED faults
     \/ Fault /\ UNCHANGED conn
  /\ UNCHANGED <<locks, job, watcher, engines, streams, poller, requests>>

\* The client closes, idles, or sends what is no request: the thread ends,
\* and with it its guard and its receiver.
Leave(c) ==
  /\ conn[c].at \in {"reading", "stream"}
  /\ conn' = [conn EXCEPT ![c] = Closed] /\ live' = live - 1
  /\ queue' = [queue EXCEPT ![c] = 0]
  /\ UNCHANGED <<locks, job, watcher, engines, subscribed, poller, requests, faults>>

\* A request that is authorised.  Those that take no lock but a leaf (the
\* shell, system, certificates) are answered within the step.
Request(c) ==
  /\ At(c, "reading")
  /\ \/ Ask(c, [conn[c] EXCEPT !.at = "table"])
     \/ \E d \in Drives, serial \in BOOLEAN :
          Ask(c, [conn[c] EXCEPT !.at = "lookup", !.drive = d, !.serial = serial])
     \/ \E j \in Jobs : Ask(c, [conn[c] EXCEPT !.at = "cancel", !.job = j])
  /\ UNCHANGED <<live, locks, job, watcher, engines, streams, poller, faults>>

\* devices() and jobs() hold the table for one pass over it.
ReadTable(c) ==
  /\ At(c, "table") /\ jobs = "free"
  /\ Answer(c)
  /\ UNCHANGED <<live, locks, job, watcher, engines, streams, poller, requests, faults>>

-----------------------------------------------------------------------------
(* POST /api/v1/jobs *)

\* The phrase ERASE, the device, its protection, the profile.
Lookup(c) ==
  /\ At(c, "lookup")
  /\ \/ Answer(c)
     \/ conn[c].drive \notin Protected /\ Goto(c, "check")
  /\ UNCHANGED <<live, locks, job, watcher, engines, streams, poller, requests, faults>>

\* "device already has an active job": of whatever state, and only the jobs
\* inserted by now.
HasJob(d) == \E j \in Jobs : job[j].state # "none" /\ engine[j].drive = d

CheckFree(c) ==
  /\ At(c, "check") /\ jobs = "free"
  /\ IF HasJob(conn[c].drive) THEN Answer(c) ELSE Goto(c, "spawn")
  /\ UNCHANGED <<live, locks, job, watcher, engines, streams, poller, requests, faults>>

\* The engine is started before its job is in the table.
SpawnEngine(c) ==
  /\ At(c, "spawn")
  /\ \/ Answer(c) /\ Fault /\ UNCHANGED engine
     \/ \E j \in Jobs :
          /\ engine[j].at = "none" /\ \A i \in 1 .. j - 1 : engine[i].at # "none"
          /\ engine' = [engine EXCEPT ![j].drive = conn[c].drive,
                            ![j].at = IF conn[c].serial THEN "confirmed" ELSE "unconfirmed"]
          /\ conn' = [conn EXCEPT ![c].at = "insert", ![c].serial = FALSE, ![c].job = j]
          /\ UNCHANGED faults
     \/ (\A j \in Jobs : engine[j].at # "none") /\ Answer(c) /\ UNCHANGED <<engine, faults>>
  /\ UNCHANGED <<live, locks, job, watcher, holder, killed, streams, poller, requests>>

\* Into the table, then the watcher; nobody waits for the engine if its
\* thread cannot be spawned.
InsertsIfStillFree(c) == ~HasJob(conn[c].drive)
Inserts(c)            == TRUE

InsertJob(c) ==
  /\ At(c, "insert") /\ jobs = "free"
  /\ job' = IF Inserts(c) THEN [job EXCEPT ![conn[c].job] = [state |-> "Running", exit |-> "none"]]
            ELSE job
  /\ \/ watcher' = [watcher EXCEPT ![conn[c].job] = "start"] /\ UNCHANGED faults
     \/ watcher' = [watcher EXCEPT ![conn[c].job] = "lost"] /\ Fault
  /\ Answer(c)
  /\ UNCHANGED <<live, locks, engines, streams, poller, requests>>

-----------------------------------------------------------------------------
(* POST /api/v1/jobs/{id}/cancel *)

\* The table stays locked to the end of the request.
CancelLooksUp(c) ==
  /\ At(c, "cancel") /\ jobs = "free"
  /\ IF job[conn[c].job].state = "none" THEN Answer(c) /\ UNCHANGED jobs
     ELSE Goto(c, "child") /\ jobs' = c
  /\ UNCHANGED <<live, child, job, watcher, engines, streams, poller, requests, faults>>

\* SIGKILL to an engine that runs.  The child is never taken out of the record,
\* so that a finished job is cancelled like any other: its engine takes no signal.
Signalled(j) == IF Running(j) THEN killed \cup {j} ELSE killed

\* Mutant: the child is not waited for, and not killed if it is locked.
CancelTriesLock(c) ==
  /\ At(c, "child")
  /\ killed' = IF child[conn[c].job] = "free" THEN Signalled(conn[c].job) ELSE killed
  /\ Goto(c, "mark")
  /\ UNCHANGED <<live, locks, job, watcher, engine, holder, streams, poller, requests, faults>>

\* The child's mutex is free before the watcher has it, or after the end.
CancelKills(c) ==
  /\ At(c, "child") /\ child[conn[c].job] = "free"
  /\ killed' = Signalled(conn[c].job)
  /\ Goto(c, "mark")
  /\ UNCHANGED <<live, locks, job, watcher, engine, holder, streams, poller, requests, faults>>

\* Nobody waits for the signal to take effect.
CancelMarks(c) ==
  /\ At(c, "mark")
  /\ job' = [job EXCEPT ![conn[c].job].state = "Cancelled"]
  /\ jobs' = "free" /\ Answer(c)
  /\ UNCHANGED <<live, child, watcher, engines, streams, poller, requests, faults>>

-----------------------------------------------------------------------------
(* The watcher of a job *)

\* It keeps the child's mutex for as long as the engine runs.
WatcherLocks(j) ==
  /\ watcher[j] = "start" /\ child[j] = "free"
  /\ watcher' = [watcher EXCEPT ![j] = "wait"] /\ child' = [child EXCEPT ![j] = "watcher"]
  /\ UNCHANGED <<conn, live, jobs, job, engines, streams, poller, requests, faults>>

\* wait() returns when the engine has ended.
ReapsUnderTable(j) == engine[j].at = "ended" /\ jobs = "free"
Reaps(j)           == engine[j].at = "ended"

WatcherReaps(j) ==
  /\ watcher[j] = "wait" /\ Reaps(j)
  /\ watcher' = [watcher EXCEPT ![j] = "record"] /\ child' = [child EXCEPT ![j] = "free"]
  /\ UNCHANGED <<conn, live, jobs, job, engines, streams, poller, requests, faults>>

\* No code, no 0: an engine that a signal ended has failed.
OutcomeOfCodes(exit)   == CASE exit = "0" -> "Completed" [] exit = "code" -> "Failed"
                            [] OTHER -> "Running"
Outcome(exit)          == IF exit = "0" THEN "Completed" ELSE "Failed"

WatcherRecords(j) ==
  /\ watcher[j] = "record"
  /\ job' = [job EXCEPT ![j] = [state |-> Outcome(engine[j].exit), exit |-> engine[j].exit]]
  /\ watcher' = [watcher EXCEPT ![j] = "done"]
  /\ UNCHANGED <<conn, live, locks, engines, streams, poller, requests, faults>>

-----------------------------------------------------------------------------
(* The engines *)

EngineBecomes(j, at) == engine' = [engine EXCEPT ![j].at = at]
ReleasedBy(j)        == [d \in Drives |-> IF holder[d] = j THEN 0 ELSE holder[d]]
Exits(j, code) ==
  /\ engine' = [engine EXCEPT ![j].at = "ended", ![j].exit = code]
  /\ holder' = ReleasedBy(j)

\* Without a confirmation in the request the engine asks on the terminal the
\* dashboard was started from, and refuses if there is none; it refuses for
\* reasons of Guardian's, too.
Precheck(j) ==
  /\ \/ engine[j].at \in {"confirmed", "unconfirmed"} /\ Exits(j, "code")
     \/ engine[j].at = "confirmed" /\ EngineBecomes(j, "arm") /\ UNCHANGED holder
     \/ engine[j].at = "unconfirmed" /\ StdinIsTty /\ EngineBecomes(j, "prompt") /\ UNCHANGED holder
  /\ UNCHANGED <<conn, live, locks, job, watcher, killed, streams, poller, requests, faults>>

\* Whoever sits at that terminal, if anybody does, types the token or not.
OperatorTypes(j) ==
  /\ engine[j].at = "prompt"
  /\ \/ EngineBecomes(j, "arm") /\ UNCHANGED holder
     \/ Exits(j, "code")
  /\ UNCHANGED <<conn, live, locks, job, watcher, killed, streams, poller, requests, faults>>

\* O_EXCL: one of two engines on a drive is turned away.
Opens(j)       == holder[engine[j].drive] = 0

Arm(j) ==
  /\ engine[j].at = "arm"
  /\ IF Opens(j) THEN EngineBecomes(j, "erase") /\ holder' = [holder EXCEPT ![engine[j].drive] = j]
     ELSE Exits(j, "code")
  /\ UNCHANGED <<conn, live, locks, job, watcher, killed, streams, poller, requests, faults>>

\* The erasure succeeds with a certificate, or fails.
Erase(j) ==
  /\ engine[j].at = "erase"
  /\ Exits(j, "0") \/ Exits(j, "code")
  /\ UNCHANGED <<conn, live, locks, job, watcher, killed, streams, poller, requests, faults>>

\* The signal reaches an engine at any later time; until then it runs on.
Dies(j) ==
  /\ Running(j) /\ j \in killed
  /\ Exits(j, "signal")
  /\ UNCHANGED <<conn, live, locks, job, watcher, killed, streams, poller, requests, faults>>

-----------------------------------------------------------------------------
(* Events *)

\* The head, then the subscription; the client may stop reading later on.
Subscribe(c) ==
  /\ At(c, "reading")
  /\ Ask(c, [conn[c] EXCEPT !.at = "stream"])
  /\ subscribed' = subscribed \cup {c}
  /\ UNCHANGED <<live, locks, job, watcher, engines, queue, poller, faults>>

\* One frame is written.
Pump(c) ==
  /\ At(c, "stream") /\ queue[c] > 0
  /\ queue' = [queue EXCEPT ![c] = @ - 1]
  /\ UNCHANGED <<conn, live, locks, job, watcher, engines, subscribed, poller, requests, faults>>

\* Ten seconds have passed: the devices are scanned.  Without a subscriber
\* nothing follows from it.
Refresh ==
  /\ poller = "sleep" /\ subscribed # {}
  /\ poller' = "publish"
  /\ UNCHANGED <<conn, live, locks, job, watcher, engines, streams, requests, faults>>

\* try_send: who has no room, or has gone, is dropped from the topic, and
\* nobody is waited for.
TakesOneMore(c) == At(c, "stream") /\ queue[c] <= ChannelBound
Takes(c)        == At(c, "stream") /\ queue[c] < ChannelBound
Publish ==
  /\ poller = "publish"
  /\ subscribed' = {c \in subscribed : Takes(c)}
  /\ queue' = [c \in Conns |-> IF c \in subscribed /\ Takes(c) THEN queue[c] + 1 ELSE queue[c]]
  /\ poller' = "sleep"
  /\ UNCHANGED <<conn, live, locks, job, watcher, engines, requests, faults>>

-----------------------------------------------------------------------------
\* The dashboard dies and is started again; its engines run on.
Restart ==
  /\ Fault
  /\ conn' = [c \in Conns |-> Closed] /\ live' = 0
  /\ jobs' = "free" /\ child' = [j \in Jobs |-> "free"]
  /\ job' = [j \in Jobs |-> NoJob]
  /\ watcher' = [j \in Jobs |-> IF engine[j].at = "none" THEN "none" ELSE "gone"]
  /\ subscribed' = {} /\ queue' = [c \in Conns |-> 0] /\ poller' = "sleep"
  /\ UNCHANGED <<engines, requests>>

Serve(c) == \/ ReadTable(c) \/ Lookup(c) \/ CheckFree(c) \/ SpawnEngine(c) \/ InsertJob(c)
            \/ CancelLooksUp(c) \/ CancelKills(c) \/ CancelMarks(c)
Watch(j) == WatcherLocks(j) \/ WatcherReaps(j) \/ WatcherRecords(j)
Run(j)   == Precheck(j) \/ Arm(j) \/ Erase(j) \/ Dies(j)
Poll     == Refresh \/ Publish

Next ==
  \/ \E c \in Conns : Accept(c) \/ Leave(c) \/ Request(c) \/ Serve(c) \/ Subscribe(c) \/ Pump(c)
  \/ \E j \in Jobs : Watch(j) \/ Run(j) \/ OperatorTypes(j)
  \/ Poll
  \/ Restart

Spec == Init /\ [][Next]_vars

\* The threads and the engines run on; nothing is owed by the clients or by
\* whoever sits at the terminal.
LiveSpec ==
  /\ Spec
  /\ \A c \in Conns : WF_vars(Serve(c))
  /\ \A j \in Jobs : WF_vars(Watch(j)) /\ WF_vars(Run(j))
  /\ WF_vars(Poll)

-----------------------------------------------------------------------------
(* Properties *)

\* Every variable ranges over what its declaration allows: no channel passes
\* its bound and the count of connections stays within its limit.
TypeOK ==
  /\ conn \in [Conns -> [at : {"closed", "reading", "stream"} \cup Requests,
                         drive : Drives, serial : BOOLEAN, job : 0 .. MaxJobs]]
  /\ live \in 0 .. MaxConnections
  /\ jobs \in Conns \cup {"free"} /\ child \in [Jobs -> {"free", "watcher"}]
  /\ job \in [Jobs -> [state : JobStates, exit : ExitCodes]]
  /\ watcher \in [Jobs -> {"none", "start", "wait", "record", "done", "lost", "gone"}]
  /\ engine \in [Jobs -> [at : {"none", "confirmed", "unconfirmed", "prompt", "arm", "erase", "ended"},
                          drive : Drives, exit : ExitCodes]]
  /\ holder \in [Drives -> 0 .. MaxJobs] /\ killed \subseteq Jobs
  /\ subscribed \subseteq Conns /\ queue \in [Conns -> 0 .. ChannelBound]
  /\ poller \in {"sleep", "publish"}
  /\ requests \in 0 .. MaxRequests /\ faults \in 0 .. MaxFaults

\* A job that is no longer shown as running has an engine that has ended or has
\* a SIGKILL on its way, in whatever order the cancel and the watcher came to it;
\* one shown as Completed or Failed has ended.
SettledIsDown ==
  \A j \in Jobs : Settled(j) =>
    ~Running(j) \/ (job[j].state = "Cancelled" /\ j \in killed)

\* What the table says of an engine's end is what happened: Completed only
\* after exit 0, Failed only after another; and once the watcher has recorded the
\* exit code it stands, whatever a cancel made of the state.
ReportedExitIsTheEngines ==
  \A j \in Jobs :
    /\ job[j].exit # "none" => job[j].exit = engine[j].exit
    /\ watcher[j] = "done" => job[j].exit = engine[j].exit
    /\ job[j].state = "Completed" => engine[j].exit = "0"
    /\ job[j].state = "Failed" => engine[j].exit \in {"code", "signal"}

\* What the table says of a job that is over can be relied on: Completed and
\* Failed tell how its engine ended; Cancelled tells that it ended before the
\* cancel or is being killed, no more, and which of them the exit code tells.
TableTellsTruth == SettledIsDown /\ ReportedExitIsTheEngines

\* Until the dashboard restarts, an engine that runs is in the table or about
\* to be put there by the connection that started it, even when two requests
\* for one drive passed the check together: it can be listed and cancelled.
NoOrphanEngine ==
  \A j \in Jobs : Running(j) =>
    \/ job[j].state # "none" \/ watcher[j] = "gone"
    \/ \E c \in Conns : At(c, "insert") /\ conn[c].job = j

\* No two engines erase one drive, whatever the table let through: two
\* requests that raced, or one from before the dashboard's restart.
OneEraserPerDrive ==
  \A i, j \in Jobs : engine[i].at = "erase" /\ engine[j].at = "erase"
                       /\ engine[i].drive = engine[j].drive => i = j

\* Every engine can be found, and no two share a drive.
EnginesAccountedFor == NoOrphanEngine /\ OneEraserPerDrive

\* Every request is answered as long as no engine waits at its prompt for
\* good: the table, the child and the snapshot are never waited for in a
\* circle, and a cancel waits for the engine's end at the latest.
SomeEngineAsks == \E j \in Jobs : engine[j].at = "prompt"
Busy(c)        == conn[c].at \in Requests
RequestsAnswered == <>[]SomeEngineAsks \/ \A c \in Conns : Busy(c) ~> ~Busy(c)

\* The end of an engine reaches the table, except where its watcher could not
\* be started or the table was lost.
EndIsReported ==
  \A j \in Jobs :
    engine[j].at = "ended" /\ job[j].state = "Running" /\ watcher[j] # "lost"
      ~> job[j].state # "Running"

=============================================================================
