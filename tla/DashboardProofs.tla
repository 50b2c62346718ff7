-------------------------- MODULE DashboardProofs --------------------------
(***************************************************************************)
(* Proofs about Dashboard for any number of connections, drives, engines   *)
(* and requests: Completed and Failed in the job table tell how the engine *)
(* ended, Cancelled that it has ended or has its SIGKILL; every engine     *)
(* that runs can be found, and no two of them erase one drive.             *)
(***************************************************************************)
EXTENDS Dashboard, FiniteSetTheorems, TLAPS

----------------------------------------------------------------------------
(* The inductive invariant *)

Open == {c \in Conns : conn[c].at # "closed"}

\* Every open connection has been counted; a slot may be lost, never gained.
Counted == IsFiniteSet(Open) /\ Cardinality(Open) <= live

\* A request that names a job names one there can be.
Named == \A c \in Conns : conn[c].at \in {"insert", "cancel", "child", "mark"} => conn[c].job \in Jobs

\* A job enters the table behind its engine, and a cancel works on such a job.
Started ==
  /\ \A j \in Jobs : job[j].state # "none" => engine[j].at # "none"
  /\ \A c \in Conns : conn[c].at = "insert" => engine[conn[c].job].at # "none"
  /\ \A c \in Conns : conn[c].at \in {"child", "mark"} => job[conn[c].job].state # "none"

\* The engine has ended, or the signal that ends it has been sent.
Doomed(j) == engine[j].at = "ended" \/ j \in killed

\* Whoever is about to write an end into the table has seen to it.
EndsFirst ==
  /\ \A c \in Conns : conn[c].at = "mark" => Doomed(conn[c].job)
  /\ \A j \in Jobs : watcher[j] \in {"record", "done"} => engine[j].at = "ended"
  /\ \A j \in Jobs : job[j].state \in {"Completed", "Failed"} => engine[j].at = "ended"
  /\ \A j \in Jobs : job[j].state = "Cancelled" => Doomed(j)
  /\ \A j \in Jobs : job[j].exit # "none" => engine[j].at = "ended"
  /\ \A j \in Jobs : engine[j].at = "ended" => engine[j].exit \in {"0", "code", "signal"}

\* An engine that erases has its drive open O_EXCL.
HoldsItsDrive == \A j \in Jobs : engine[j].at = "erase" => holder[engine[j].drive] = j

IInv ==
  /\ TypeOK /\ Counted /\ Named /\ Started /\ EndsFirst
  /\ ReportedExitIsTheEngines /\ NoOrphanEngine /\ HoldsItsDrive

----------------------------------------------------------------------------
(* Types *)

Ats     == {"closed", "reading", "stream"} \cup Requests
ConnRec == [at : Ats, drive : Drives, serial : BOOLEAN, job : 0 .. MaxJobs]
JobRec  == [state : JobStates, exit : ExitCodes]
EngRec  == [at : {"none", "confirmed", "unconfirmed", "prompt", "arm", "erase", "ended"},
            drive : Drives, exit : ExitCodes]
Watches == {"none", "start", "wait", "record", "done", "lost", "gone"}

ConnTyped == conn \in [Conns -> ConnRec] /\ live \in 0 .. MaxConnections
LockTyped == jobs \in Conns \cup {"free"} /\ child \in [Jobs -> {"free", "watcher"}]
JobTyped  == job \in [Jobs -> JobRec] /\ watcher \in [Jobs -> Watches]
EngTyped  == /\ engine \in [Jobs -> EngRec] /\ holder \in [Drives -> 0 .. MaxJobs]
             /\ killed \subseteq Jobs
FeedTyped == /\ subscribed \subseteq Conns /\ queue \in [Conns -> 0 .. ChannelBound]
             /\ poller \in {"sleep", "publish"}
Bounded   == requests \in 0 .. MaxRequests /\ faults \in 0 .. MaxFaults

LEMMA TypedIs == TypeOK <=> ConnTyped /\ LockTyped /\ JobTyped /\ EngTyped /\ FeedTyped /\ Bounded
BY DEF TypeOK, ConnTyped, LockTyped, JobTyped, EngTyped, FeedTyped, Bounded,
       ConnRec, JobRec, EngRec, Watches, Ats

LEMMA TypedThen ==
  ConnTyped' /\ LockTyped' /\ JobTyped' /\ EngTyped' /\ FeedTyped' /\ Bounded' => TypeOK'
BY DEF TypeOK, ConnTyped, LockTyped, JobTyped, EngTyped, FeedTyped, Bounded,
       ConnRec, JobRec, EngRec, Watches, Ats

LEMMA Sizes ==
  /\ MaxConnections \in Nat \ {0} /\ ChannelBound \in Nat \ {0} /\ MaxJobs \in Nat \ {0}
  /\ MaxRequests \in Nat /\ MaxFaults \in Nat
BY DashboardAssumption

LEMMA ClosedTyped ==
  /\ Closed \in ConnRec /\ Closed.at = "closed"
  /\ [Closed EXCEPT !.at = "reading"] \in ConnRec /\ [Closed EXCEPT !.at = "reading"].at = "reading"
  /\ NoJob \in JobRec /\ NoEngine \in EngRec /\ NoEngine.at = "none"
<1>1. (CHOOSE d \in Drives : TRUE) \in Drives  BY DashboardAssumption
<1>2. 0 \in 0 .. MaxJobs  BY Sizes
<1>3. Closed \in ConnRec /\ Closed.at = "closed"
  BY <1>1, <1>2 DEF Closed, ConnRec, Ats
<1>4. [Closed EXCEPT !.at = "reading"] \in ConnRec /\ [Closed EXCEPT !.at = "reading"].at = "reading"
  BY <1>3 DEF ConnRec, Ats
<1>5. NoEngine \in EngRec /\ NoEngine.at = "none"
  BY <1>3 DEF NoEngine, EngRec, ExitCodes, ConnRec
<1> QED  BY <1>3, <1>4, <1>5 DEF NoJob, JobRec, JobStates, ExitCodes

LEMMA InitTyped == Init => TypeOK
<1> SUFFICES ASSUME Init PROVE TypeOK  OBVIOUS
<1>1. ConnTyped /\ FeedTyped  BY ClosedTyped, Sizes DEF Init, Starts, ConnTyped, FeedTyped
<1>2. LockTyped /\ JobTyped  BY ClosedTyped DEF Init, Starts, LockTyped, JobTyped, Watches
<1>3. EngTyped /\ Bounded  BY ClosedTyped, Sizes DEF Init, EngTyped, Bounded
<1> QED  BY <1>1, <1>2, <1>3, TypedIs

\* What becomes of the connections: one of them goes on, or all are closed.
LEMMA ConnGoes ==
  ASSUME ConnTyped, NEW c \in Conns, NEW at \in Ats, Goto(c, at)
  PROVE  /\ conn' \in [Conns -> ConnRec] /\ conn'[c] = [conn[c] EXCEPT !.at = at]
         /\ conn'[c].at = at /\ conn'[c].job = conn[c].job /\ conn'[c].drive = conn[c].drive
         /\ \A d \in Conns : d # c => conn'[d] = conn[d]
BY DEF ConnTyped, ConnRec, Goto

LEMMA ConnAnswered ==
  ASSUME ConnTyped, NEW c \in Conns, Answer(c)
  PROVE  /\ conn' \in [Conns -> ConnRec] /\ conn'[c].at = "reading"
         /\ \A d \in Conns : d # c => conn'[d] = conn[d]
BY ClosedTyped DEF ConnTyped, Answer

LEMMA ConnAsks ==
  ASSUME ConnTyped, Bounded, NEW c \in Conns, NEW asked \in ConnRec, Ask(c, asked)
  PROVE  /\ conn' \in [Conns -> ConnRec] /\ conn'[c] = asked
         /\ \A d \in Conns : d # c => conn'[d] = conn[d]
         /\ requests' \in 0 .. MaxRequests
BY Sizes DEF ConnTyped, Bounded, Ask

LEMMA FaultTyped ==
  ASSUME Bounded, Fault \/ UNCHANGED faults
  PROVE  faults' \in 0 .. MaxFaults
BY Sizes DEF Bounded, Fault

\* The step is that of one connection, which goes from one place to another.
Moves(c, from, to) ==
  /\ conn' \in [Conns -> ConnRec] /\ \A d \in Conns : d # c => conn'[d] = conn[d]
  /\ conn[c].at \in from /\ conn'[c].at \in to

LEMMA RequestMoves ==
  ASSUME TypeOK, NEW c \in Conns, Request(c)
  PROVE  /\ Moves(c, {"reading"}, {"table", "lookup", "cancel"})
         /\ conn'[c].at = "cancel" => conn'[c].job \in Jobs
         /\ requests' \in 0 .. MaxRequests
<1> USE TypedIs
<1>0. conn[c] \in ConnRec /\ conn[c].at = "reading"  BY DEF ConnTyped, Request, At
<1>1. ASSUME NEW r \in ConnRec, Ask(c, r), r.at \in {"table", "lookup", "cancel"},
             r.at = "cancel" => r.job \in Jobs
      PROVE  /\ Moves(c, {"reading"}, {"table", "lookup", "cancel"})
             /\ conn'[c].at = "cancel" => conn'[c].job \in Jobs
             /\ requests' \in 0 .. MaxRequests
  BY <1>0, <1>1, ConnAsks DEF Moves
<1>2. CASE Ask(c, [conn[c] EXCEPT !.at = "table"])
  <2>1. PICK r : r = [conn[c] EXCEPT !.at = "table"]  OBVIOUS
  <2>2. r \in ConnRec /\ r.at = "table"  BY <1>0, <2>1 DEF ConnRec, Ats, Requests
  <2> QED  BY <1>1, <1>2, <2>1, <2>2
<1>3. ASSUME NEW d \in Drives, NEW serial \in BOOLEAN,
             Ask(c, [conn[c] EXCEPT !.at = "lookup", !.drive = d, !.serial = serial])
      PROVE  /\ Moves(c, {"reading"}, {"table", "lookup", "cancel"})
             /\ conn'[c].at = "cancel" => conn'[c].job \in Jobs
             /\ requests' \in 0 .. MaxRequests
  <2>1. PICK r : r = [conn[c] EXCEPT !.at = "lookup", !.drive = d, !.serial = serial]  OBVIOUS
  <2>2. r \in ConnRec /\ r.at = "lookup"  BY <1>0, <2>1 DEF ConnRec, Ats, Requests
  <2> QED  BY <1>1, <1>3, <2>1, <2>2
<1>4. ASSUME NEW j \in Jobs, Ask(c, [conn[c] EXCEPT !.at = "cancel", !.job = j])
      PROVE  /\ Moves(c, {"reading"}, {"table", "lookup", "cancel"})
             /\ conn'[c].at = "cancel" => conn'[c].job \in Jobs
             /\ requests' \in 0 .. MaxRequests
  <2>1. PICK r : r = [conn[c] EXCEPT !.at = "cancel", !.job = j]  OBVIOUS
  <2>2. j \in 0 .. MaxJobs  BY Sizes DEF Jobs
  <2>3. r \in ConnRec /\ r.at = "cancel" /\ r.job = j
    BY <1>0, <2>1, <2>2 DEF ConnRec, Ats, Requests
  <2> QED  BY <1>1, <1>4, <2>1, <2>3
<1> QED  BY <1>2, <1>3, <1>4 DEF Request

LEMMA SubscribeMoves ==
  ASSUME TypeOK, NEW c \in Conns, Subscribe(c)
  PROVE  Moves(c, {"reading"}, {"stream"}) /\ requests' \in 0 .. MaxRequests
<1>1. PICK r : r = [conn[c] EXCEPT !.at = "stream"]  OBVIOUS
<1>2. r \in ConnRec /\ r.at = "stream" /\ conn[c].at = "reading"
  BY <1>1, TypedIs DEF Subscribe, At, ConnTyped, ConnRec, Ats
<1>3. Ask(c, r)  BY <1>1 DEF Subscribe
<1> QED  BY <1>2, <1>3, ConnAsks, TypedIs DEF Moves

\* The first engine that has not been started yet.
LEMMA SpawnMoves ==
  ASSUME TypeOK, NEW c \in Conns, NEW j \in Jobs, engine[j].at = "none", conn[c].at = "spawn",
         engine' = [engine EXCEPT ![j].drive = conn[c].drive,
                      ![j].at = IF conn[c].serial THEN "confirmed" ELSE "unconfirmed"],
         conn' = [conn EXCEPT ![c].at = "insert", ![c].serial = FALSE, ![c].job = j]
  PROVE  /\ Moves(c, {"spawn"}, {"insert"}) /\ conn'[c].job = j
         /\ engine' \in [Jobs -> EngRec] /\ engine'[j].at \in {"confirmed", "unconfirmed"}
         /\ \A i \in Jobs : i # j => engine'[i] = engine[i]
<1>0. conn \in [Conns -> ConnRec] /\ engine \in [Jobs -> EngRec]
  BY TypedIs DEF ConnTyped, EngTyped
<1>1. PICK r : r = [[[conn[c] EXCEPT !.at = "insert"] EXCEPT !.serial = FALSE] EXCEPT !.job = j]
  OBVIOUS
<1>2. conn'[c] = r /\ conn' = [conn EXCEPT ![c] = r]
  BY <1>0, <1>1
<1>3. j \in 0 .. MaxJobs  BY Sizes DEF Jobs
<1>4. r \in ConnRec /\ r.at = "insert" /\ r.job = j
  BY <1>0, <1>1, <1>3 DEF ConnRec, Ats, Requests
<1>5. PICK at \in {"confirmed", "unconfirmed"} :
        engine' = [engine EXCEPT ![j].drive = conn[c].drive, ![j].at = at]
  OBVIOUS
<1>6. PICK e : e = [[engine[j] EXCEPT !.drive = conn[c].drive] EXCEPT !.at = at]  OBVIOUS
<1>7. engine' = [engine EXCEPT ![j] = e]  BY <1>0, <1>5, <1>6
<1>8. e \in EngRec /\ e.at = at
  BY <1>0, <1>5, <1>6 DEF ConnRec, EngRec
<1>9. Moves(c, {"spawn"}, {"insert"}) /\ conn'[c].job = j
  BY <1>0, <1>2, <1>4 DEF Moves
<1> QED  BY <1>0, <1>7, <1>8, <1>9

----------------------------------------------------------------------------
(* Connections are counted *)

\* A connection that stays open leaves the count alone.
LEMMA StaysOpen ==
  ASSUME ConnTyped, Counted, live' = live, NEW c \in Conns, NEW from, NEW to,
         Moves(c, from, to), "closed" \notin from, "closed" \notin to
  PROVE  ConnTyped' /\ Counted'
<1>1. \A d \in Conns : conn'[d].at # "closed" <=> conn[d].at # "closed"  BY DEF Moves
<1>2. Open' = Open  BY <1>1 DEF Open
<1> QED  BY <1>2 DEF ConnTyped, Counted, Moves

LEMMA SameCount ==
  ASSUME ConnTyped, Counted, UNCHANGED <<conn, live>>
  PROVE  ConnTyped' /\ Counted'
BY DEF ConnTyped, Counted, Open

LEMMA AcceptCounts ==
  ASSUME ConnTyped, Counted, NEW c \in Conns, Accept(c)
  PROVE  ConnTyped' /\ Counted'
<1>1. live' \in 0 .. MaxConnections /\ live' = live + 1 /\ live \in Nat
  BY Sizes DEF Accept, HasRoom, ConnTyped
<1>2. IsFiniteSet(Open) /\ Cardinality(Open) \in Nat /\ Cardinality(Open) <= live
  BY FS_CardinalityType DEF Counted
<1>3. CASE UNCHANGED conn
  <2>1. Open' = Open  BY <1>3 DEF Open
  <2> QED  BY <1>1, <1>2, <1>3, <2>1 DEF ConnTyped, Counted
<1>4. CASE Goto(c, "reading")
  <2>1. /\ conn' \in [Conns -> ConnRec] /\ conn'[c].at = "reading" /\ conn[c].at = "closed"
        /\ \A d \in Conns : d # c => conn'[d] = conn[d]
    BY <1>4, ConnGoes DEF Ats, Accept, At
  <2>2. Open' = Open \cup {c} /\ c \notin Open  BY <2>1 DEF Open
  <2>3. IsFiniteSet(Open \cup {c}) /\ Cardinality(Open \cup {c}) = Cardinality(Open) + 1
    BY <1>2, <2>2, FS_AddElement
  <2>4. Cardinality(Open') <= live'  BY <1>1, <1>2, <2>2, <2>3
  <2> QED  BY <1>1, <2>1, <2>2, <2>3, <2>4 DEF ConnTyped, Counted
<1> QED  BY <1>3, <1>4 DEF Accept

\* There is a slot to give back: the connection was counted.
LEMMA LeaveCounts ==
  ASSUME ConnTyped, Counted, NEW c \in Conns, Leave(c)
  PROVE  ConnTyped' /\ Counted'
<1>1. /\ conn[c].at # "closed" /\ live' = live - 1 /\ live \in 0 .. MaxConnections
      /\ conn' = [conn EXCEPT ![c] = Closed]
  BY DEF Leave, ConnTyped
<1>2. /\ conn' \in [Conns -> ConnRec] /\ conn'[c].at = "closed"
      /\ \A d \in Conns : d # c => conn'[d] = conn[d]
  BY <1>1, ClosedTyped DEF ConnTyped
<1>3. c \in Open /\ Open' = Open \ {c}  BY <1>1, <1>2 DEF Open
<1>4. IsFiniteSet(Open) /\ Cardinality(Open) \in Nat /\ Cardinality(Open) <= live
  BY FS_CardinalityType DEF Counted
<1>5. IsFiniteSet(Open \ {c}) /\ Cardinality(Open \ {c}) = Cardinality(Open) - 1
  BY <1>3, <1>4, FS_RemoveElement
<1>6. Cardinality(Open) # 0  BY <1>3, <1>4, FS_EmptySet
<1>7. live' \in 0 .. MaxConnections /\ Cardinality(Open') <= live'
  BY <1>1, <1>3, <1>4, <1>5, <1>6, Sizes
<1> QED  BY <1>2, <1>3, <1>5, <1>7 DEF ConnTyped, Counted

LEMMA RestartCounts ==
  ASSUME Restart
  PROVE  ConnTyped' /\ Counted'
<1>1. conn' \in [Conns -> ConnRec] /\ live' = 0 /\ \A d \in Conns : conn'[d].at = "closed"
  BY ClosedTyped DEF Restart
<1>2. Open' = {}  BY <1>1 DEF Open
<1> QED  BY <1>1, <1>2, FS_EmptySet, Sizes DEF ConnTyped, Counted

----------------------------------------------------------------------------
(* Steps of the connections *)

Core == Named /\ Started /\ EndsFirst /\ ReportedExitIsTheEngines /\ NoOrphanEngine /\ HoldsItsDrive

LEMMA IInvIs == IInv <=> TypeOK /\ Counted /\ Core
BY DEF IInv, Core

LEMMA IInvThen == TypeOK' /\ Counted' /\ Core' => IInv'
BY DEF IInv, Core

\* A step that touches neither connections nor jobs nor engines.
LEMMA CoreUnchanged ==
  ASSUME Core, UNCHANGED <<conn, job, watcher, engines>>
  PROVE  Core'
BY DEF Core, Named, Started, EndsFirst, ReportedExitIsTheEngines, NoOrphanEngine, HoldsItsDrive,
       engines, Doomed, Running, At

\* A connection goes on; what it claims of its job by being where it is now
\* has to be so.
LEMMA CoreMoves ==
  ASSUME Core, UNCHANGED <<job, watcher, engines>>, NEW c \in Conns, NEW from, NEW to,
         Moves(c, from, to), "insert" \notin from, to \cap {"insert", "mark"} = {},
         conn'[c].at \in {"cancel", "child"} => conn'[c].job \in Jobs,
         conn'[c].at = "child" => job[conn'[c].job].state # "none"
  PROVE  Core'
<1> USE DEF engines, Doomed, Running, At
<1>1. \A d \in Conns : d # c => conn'[d] = conn[d]  BY DEF Moves
<1>2. conn[c].at # "insert" /\ conn'[c].at # "insert" /\ conn'[c].at # "mark"  BY DEF Moves
<1>3. Named'  BY <1>1, <1>2 DEF Core, Named
<1>4. Started'  BY <1>1, <1>2 DEF Core, Started
<1>5. EndsFirst'  BY <1>1, <1>2 DEF Core, EndsFirst
<1>6. ReportedExitIsTheEngines' /\ HoldsItsDrive'
  BY DEF Core, ReportedExitIsTheEngines, HoldsItsDrive
<1>7. NoOrphanEngine'  BY <1>1, <1>2 DEF Core, NoOrphanEngine
<1> QED  BY <1>3, <1>4, <1>5, <1>6, <1>7 DEF Core

LEMMA AnswerMoves ==
  ASSUME ConnTyped, NEW c \in Conns, Answer(c)
  PROVE  Moves(c, {conn[c].at}, {"reading"})
BY ConnAnswered DEF Moves

LEMMA GotoMoves ==
  ASSUME ConnTyped, NEW c \in Conns, NEW at \in Ats, Goto(c, at)
  PROVE  Moves(c, {conn[c].at}, {at}) /\ conn'[c].job = conn[c].job
BY ConnGoes DEF Moves

LEMMA AcceptKeeps == ASSUME IInv, NEW c \in Conns, Accept(c) PROVE IInv'
<1> USE IInvIs, IInvThen, TypedIs, TypedThen
<1>1. ConnTyped' /\ Counted'  BY AcceptCounts
<1>2. faults' \in 0 .. MaxFaults  BY FaultTyped DEF Accept
<1>3. TypeOK'
  BY <1>1, <1>2 DEF Accept, LockTyped, JobTyped, EngTyped, FeedTyped, Bounded, locks, engines, streams
<1>4. CASE UNCHANGED conn
  <2>1. Core'  BY <1>4, CoreUnchanged DEF Accept
  <2> QED  BY <1>1, <1>3, <2>1
<1>5. CASE Goto(c, "reading")
  <2>1. Moves(c, {"closed"}, {"reading"})  BY <1>5, GotoMoves DEF Accept, At, Ats
  <2>2. conn'[c].at = "reading"  BY <2>1 DEF Moves
  <2>3. Core'  BY <2>1, <2>2, CoreMoves DEF Accept
  <2> QED  BY <1>1, <1>3, <2>3
<1> QED  BY <1>4, <1>5 DEF Accept

LEMMA LeaveKeeps == ASSUME IInv, NEW c \in Conns, Leave(c) PROVE IInv'
<1> USE IInvIs, IInvThen, TypedIs, TypedThen
<1>1. ConnTyped' /\ Counted'  BY LeaveCounts
<1>2. TypeOK'
  BY <1>1, Sizes DEF Leave, LockTyped, JobTyped, EngTyped, FeedTyped, Bounded, locks, engines
<1>3. Moves(c, {"reading", "stream"}, {"closed"}) /\ conn'[c].at = "closed"
  BY ClosedTyped DEF Leave, ConnTyped, Moves
<1>4. Core'  BY <1>3, CoreMoves DEF Leave
<1> QED  BY <1>1, <1>2, <1>4

LEMMA RequestKeeps == ASSUME IInv, NEW c \in Conns, Request(c) PROVE IInv'
<1> USE IInvIs, IInvThen, TypedIs, TypedThen
<1>1. /\ Moves(c, {"reading"}, {"table", "lookup", "cancel"})
      /\ conn'[c].at = "cancel" => conn'[c].job \in Jobs
      /\ requests' \in 0 .. MaxRequests
  BY RequestMoves
<1>2. ConnTyped' /\ Counted'  BY <1>1, StaysOpen DEF Request
<1>3. TypeOK'
  BY <1>1, <1>2 DEF Request, LockTyped, JobTyped, EngTyped, FeedTyped, Bounded, locks, engines, streams
<1>4. conn'[c].at # "child"  BY <1>1 DEF Moves
<1>5. Core'  BY <1>1, <1>4, CoreMoves DEF Request
<1> QED  BY <1>2, <1>3, <1>5

LEMMA SubscribeKeeps == ASSUME IInv, NEW c \in Conns, Subscribe(c) PROVE IInv'
<1> USE IInvIs, IInvThen, TypedIs, TypedThen
<1>1. Moves(c, {"reading"}, {"stream"}) /\ requests' \in 0 .. MaxRequests  BY SubscribeMoves
<1>2. ConnTyped' /\ Counted'  BY <1>1, StaysOpen DEF Subscribe
<1>3. TypeOK'
  BY <1>1, <1>2 DEF Subscribe, LockTyped, JobTyped, EngTyped, FeedTyped, Bounded, locks, engines
<1>4. conn'[c].at = "stream"  BY <1>1 DEF Moves
<1>5. Core'  BY <1>1, <1>4, CoreMoves DEF Subscribe
<1> QED  BY <1>2, <1>3, <1>5

\* The answer to a request that changes nothing but its connection.
LEMMA AnswerKeeps ==
  ASSUME IInv, NEW c \in Conns, Answer(c), conn[c].at \in Requests \ {"insert"}, Fault \/ UNCHANGED faults,
         UNCHANGED <<live, locks, job, watcher, engines, streams, poller, requests>>
  PROVE  IInv'
<1> USE IInvIs, IInvThen, TypedIs, TypedThen
<1>1. Moves(c, {conn[c].at}, {"reading"}) /\ conn'[c].at = "reading"  BY AnswerMoves DEF Moves
<1>2. ConnTyped' /\ Counted'  BY <1>1, StaysOpen DEF Requests
<1>3. faults' \in 0 .. MaxFaults  BY FaultTyped
<1>4. TypeOK'
  BY <1>2, <1>3 DEF LockTyped, JobTyped, EngTyped, FeedTyped, Bounded, locks, engines, streams
<1>5. Core'  BY <1>1, CoreMoves
<1> QED  BY <1>2, <1>4, <1>5

\* A request goes on to its next lock.
LEMMA GotoKeeps ==
  ASSUME IInv, NEW c \in Conns, NEW at \in {"check", "spawn", "child"}, Goto(c, at),
         conn[c].at \in Requests \ {"insert"}, jobs' \in Conns \cup {"free"},
         at = "child" => conn[c].job \in Jobs /\ job[conn[c].job].state # "none",
         UNCHANGED <<live, child, job, watcher, engines, streams, poller, requests, faults>>
  PROVE  IInv'
<1> USE IInvIs, IInvThen, TypedIs, TypedThen
<1>1. /\ Moves(c, {conn[c].at}, {at}) /\ conn'[c].at = at
      /\ conn'[c].job = conn[c].job
  BY GotoMoves DEF Moves, Ats, Requests
<1>2. ConnTyped' /\ Counted'  BY <1>1, StaysOpen DEF Requests
<1>3. TypeOK'
  BY <1>2 DEF LockTyped, JobTyped, EngTyped, FeedTyped, Bounded, engines, streams
<1>4. Core'  BY <1>1, CoreMoves
<1> QED  BY <1>2, <1>3, <1>4

LEMMA LookupsKeep ==
  ASSUME IInv, NEW c \in Conns, ReadTable(c) \/ Lookup(c) \/ CheckFree(c) \/ CancelLooksUp(c)
  PROVE  IInv'
<1> USE DEF At, Requests, locks
<1>0. LockTyped /\ Named  BY IInvIs, TypedIs DEF Core
<1>1. CASE ReadTable(c)  BY <1>1, AnswerKeeps DEF ReadTable
<1>2. CASE Lookup(c)
  <2>1. CASE Answer(c)  BY <1>2, <2>1, AnswerKeeps DEF Lookup
  <2>2. CASE Goto(c, "check")  BY <1>0, <1>2, <2>2, GotoKeeps DEF Lookup, LockTyped
  <2> QED  BY <1>2, <2>1, <2>2 DEF Lookup
<1>3. CASE CheckFree(c)
  <2>1. CASE Answer(c)  BY <1>3, <2>1, AnswerKeeps DEF CheckFree
  <2>2. CASE Goto(c, "spawn")  BY <1>0, <1>3, <2>2, GotoKeeps DEF CheckFree, LockTyped
  <2> QED  BY <1>3, <2>1, <2>2 DEF CheckFree
<1>4. CASE CancelLooksUp(c)
  <2>1. CASE job[conn[c].job].state = "none"
    BY <1>4, <2>1, AnswerKeeps DEF CancelLooksUp
  <2>2. CASE job[conn[c].job].state # "none"
    <3>1. conn[c].job \in Jobs  BY <1>0, <1>4 DEF Named, CancelLooksUp
    <3> QED  BY <1>4, <2>2, <3>1, GotoKeeps DEF CancelLooksUp
  <2> QED  BY <2>1, <2>2
<1> QED  BY <1>1, <1>2, <1>3, <1>4

----------------------------------------------------------------------------
(* Steps that start a job *)

\* No engine of that number has run before: nothing has been said of it.
LEMMA SpawnKeeps == ASSUME IInv, NEW c \in Conns, SpawnEngine(c) PROVE IInv'
<1> USE IInvIs, IInvThen, TypedIs, TypedThen DEF At, Requests
<1>1. CASE Answer(c) /\ UNCHANGED engine  BY <1>1, AnswerKeeps DEF SpawnEngine, engines
<1>2. ASSUME NEW j \in Jobs, engine[j].at = "none",
             engine' = [engine EXCEPT ![j].drive = conn[c].drive,
                          ![j].at = IF conn[c].serial THEN "confirmed" ELSE "unconfirmed"],
             conn' = [conn EXCEPT ![c].at = "insert", ![c].serial = FALSE, ![c].job = j],
             UNCHANGED faults
      PROVE  IInv'
  <2>a. conn[c].at = "spawn"  BY DEF SpawnEngine
  <2>b. /\ Moves(c, {"spawn"}, {"insert"}) /\ conn'[c].job = j
        /\ engine' \in [Jobs -> EngRec] /\ engine'[j].at \in {"confirmed", "unconfirmed"}
        /\ \A i \in Jobs : i # j => engine'[i] = engine[i]
    BY <1>2, <2>a, SpawnMoves
  <2>1. /\ Moves(c, {"spawn"}, {"insert"}) /\ conn'[c].job = j /\ conn'[c].at = "insert"
        /\ conn[c].at = "spawn"
        /\ engine' \in [Jobs -> EngRec] /\ engine'[j].at \in {"confirmed", "unconfirmed"}
        /\ \A i \in Jobs : i # j => engine'[i] = engine[i]
    BY <2>a, <2>b DEF Moves
  <2>2. ConnTyped' /\ Counted'  BY <2>1, StaysOpen DEF SpawnEngine
  <2>3. TypeOK'
    BY <1>2, <2>1, <2>2 DEF SpawnEngine, LockTyped, JobTyped, EngTyped, FeedTyped, Bounded, locks, streams
  <2>4. \A d \in Conns : d # c => conn'[d] = conn[d]  BY <2>1 DEF Moves
  <2>5. /\ UNCHANGED <<job, watcher, holder, killed>>
        /\ job[j].state = "none" /\ job[j].exit = "none" /\ watcher[j] \notin {"record", "done"}
    BY <1>2 DEF SpawnEngine, Core, Started, EndsFirst
  <2>6. Named'  BY <2>1, <2>4 DEF Core, Named
  <2>7. Started'
    <3>1. \A i \in Jobs : engine[i].at # "none" => engine'[i].at # "none"  BY <1>2, <2>1
    <3>2. \A d \in Conns : d # c /\ conn[d].at = "insert" => conn[d].job \in Jobs
      BY DEF Core, Named
    <3> QED  BY <2>1, <2>4, <2>5, <3>1, <3>2 DEF Core, Started
  <2>8. EndsFirst'
    <3>1. \A i \in Jobs : engine[i].at = "ended" => i # j /\ engine'[i] = engine[i]  BY <1>2, <2>1
    <3>2. \A i \in Jobs : engine'[i].at = "ended" => engine'[i] = engine[i]  BY <2>1
    <3>3. \A d \in Conns : conn'[d].at = "mark" => d # c /\ conn[d].job \in Jobs
      BY <2>1, <2>4 DEF Core, Named
    <3> QED  BY <2>4, <2>5, <3>1, <3>2, <3>3 DEF Core, EndsFirst, Doomed
  <2>9. ReportedExitIsTheEngines'
    BY <2>1, <2>5 DEF Core, ReportedExitIsTheEngines
  <2>10. NoOrphanEngine'
    <3>1. \A i \in Jobs : i # j /\ Running(i)' => Running(i)  BY <2>1 DEF Running
    <3>2. \A d \in Conns : conn[d].at = "insert" => d # c  BY <2>1
    <3> QED  BY <2>1, <2>4, <2>5, <3>1, <3>2 DEF Core, NoOrphanEngine
  <2>11. HoldsItsDrive'  BY <2>1, <2>5 DEF Core, HoldsItsDrive
  <2> QED  BY <2>2, <2>3, <2>6, <2>7, <2>8, <2>9, <2>10, <2>11 DEF Core
<1> QED  BY <1>1, <1>2 DEF SpawnEngine

\* The engine may have ended meanwhile, but nobody has waited for it yet.
LEMMA InsertKeeps == ASSUME IInv, NEW c \in Conns, InsertJob(c) PROVE IInv'
<1> USE IInvIs, IInvThen, TypedIs, TypedThen DEF At, Requests
<1>1. PICK j \in Jobs : j = conn[c].job  BY DEF Core, Named, InsertJob
<1>2. PICK w \in {"start", "lost"} : watcher' = [watcher EXCEPT ![j] = w]  BY <1>1 DEF InsertJob
<1>3. PICK r : r = [state |-> "Running", exit |-> "none"]  OBVIOUS
<1>4. r \in JobRec /\ r.state = "Running" /\ r.exit = "none"  BY <1>3 DEF JobRec, JobStates, ExitCodes
<1>5. job' = [job EXCEPT ![j] = r]  BY <1>1, <1>3 DEF InsertJob, Inserts
<1>6. Moves(c, {"insert"}, {"reading"}) /\ conn'[c].at = "reading" /\ conn[c].at = "insert"
  BY AnswerMoves DEF InsertJob, Moves
<1>7. ConnTyped' /\ Counted'  BY <1>6, StaysOpen DEF InsertJob
<1>8. faults' \in 0 .. MaxFaults  BY FaultTyped DEF InsertJob
<1>9. JobTyped'  BY <1>2, <1>4, <1>5 DEF JobTyped, Watches
<1>10. TypeOK'
  BY <1>7, <1>8, <1>9 DEF InsertJob, LockTyped, EngTyped, FeedTyped, Bounded, locks, engines, streams
<1>11. \A d \in Conns : d # c => conn'[d] = conn[d]  BY <1>6 DEF Moves
<1>12. /\ UNCHANGED <<engine, holder, killed>> /\ engine[j].at # "none"
       /\ job'[j] = r /\ \A i \in Jobs : i # j => job'[i] = job[i] /\ watcher'[i] = watcher[i]
       /\ watcher'[j] = w
  BY <1>1, <1>2, <1>5, <1>6 DEF InsertJob, engines, JobTyped, Core, Started
<1>13. Named'  BY <1>6, <1>11 DEF Core, Named
<1>14. Started'
  <2>1. \A i \in Jobs : job[i].state # "none" => job'[i].state # "none"  BY <1>4, <1>12
  <2>2. \A d \in Conns : conn'[d].at \in {"insert", "child", "mark"} =>
          conn'[d] = conn[d] /\ conn[d].job \in Jobs
    BY <1>6, <1>11 DEF Core, Named
  <2> QED  BY <1>12, <2>1, <2>2 DEF Core, Started
<1>15. EndsFirst'
  <2>1. \A d \in Conns : conn'[d].at = "mark" => conn'[d] = conn[d]  BY <1>6, <1>11
  <2> QED  BY <1>2, <1>4, <1>12, <2>1 DEF Core, EndsFirst, Doomed
<1>16. ReportedExitIsTheEngines'  BY <1>4, <1>12 DEF Core, ReportedExitIsTheEngines
<1>17. NoOrphanEngine'
  <2>1. \A d \in Conns : conn[d].at = "insert" /\ conn[d].job # j => conn'[d] = conn[d]
    BY <1>1, <1>11
  <2> QED  BY <1>4, <1>12, <2>1 DEF Core, NoOrphanEngine, Running
<1>18. HoldsItsDrive'  BY <1>12 DEF Core, HoldsItsDrive
<1> QED  BY <1>7, <1>10, <1>13, <1>14, <1>15, <1>16, <1>17, <1>18 DEF Core

----------------------------------------------------------------------------
(* Steps of the engines *)

\* An engine that runs goes on: to another of its stages, to the erasure with
\* its drive open, or to its end, which nothing undoes.
EngineRuns(j) ==
  /\ Running(j) /\ EngTyped' /\ UNCHANGED killed
  /\ \A i \in Jobs : i # j => engine'[i] = engine[i]
  /\ engine'[j].drive = engine[j].drive /\ engine'[j].at # "none"
  /\ engine'[j].at = "ended" => engine'[j].exit \in {"0", "code", "signal"}
  /\ \/ engine'[j].at # "erase" /\ \A d \in Drives : holder[d] # j => holder'[d] = holder[d]
     \/ /\ engine'[j].at = "erase" /\ holder[engine[j].drive] = 0 /\ holder'[engine[j].drive] = j
        /\ \A d \in Drives : d # engine[j].drive => holder'[d] = holder[d]

LEMMA RunsTo ==
  ASSUME EngTyped, NEW j \in Jobs, NEW at \in {"prompt", "arm", "erase"}, EngineBecomes(j, at)
  PROVE  /\ engine' \in [Jobs -> EngRec] /\ engine'[j].at = at /\ engine'[j].drive = engine[j].drive
         /\ \A i \in Jobs : i # j => engine'[i] = engine[i]
<1>1. PICK e : e = [engine[j] EXCEPT !.at = at]  OBVIOUS
<1>2. e \in EngRec /\ e.at = at /\ e.drive = engine[j].drive
  BY <1>1 DEF EngTyped, EngRec
<1>3. engine' = [engine EXCEPT ![j] = e]  BY <1>1 DEF EngTyped, EngineBecomes
<1> QED  BY <1>2, <1>3 DEF EngTyped

LEMMA ExitsRuns ==
  ASSUME EngTyped, NEW j \in Jobs, NEW code \in {"0", "code", "signal"}, Running(j), Exits(j, code),
         UNCHANGED killed
  PROVE  EngineRuns(j) /\ engine'[j].at = "ended" /\ engine'[j].exit = code
<1>1. PICK e : e = [[engine[j] EXCEPT !.at = "ended"] EXCEPT !.exit = code]  OBVIOUS
<1>2. e \in EngRec /\ e.at = "ended" /\ e.exit = code /\ e.drive = engine[j].drive
  BY <1>1 DEF EngTyped, EngRec, ExitCodes
<1>3. engine' = [engine EXCEPT ![j] = e]  BY <1>1 DEF EngTyped, Exits
<1>4. engine' \in [Jobs -> EngRec] /\ engine'[j] = e /\ \A i \in Jobs : i # j => engine'[i] = engine[i]
  BY <1>2, <1>3 DEF EngTyped
<1>5. holder' \in [Drives -> 0 .. MaxJobs] /\ \A d \in Drives : holder[d] # j => holder'[d] = holder[d]
  BY Sizes DEF Exits, ReleasedBy, EngTyped
<1> QED  BY <1>2, <1>4, <1>5 DEF EngineRuns, EngTyped

LEMMA BecomesRuns ==
  ASSUME EngTyped, NEW j \in Jobs, NEW at \in {"prompt", "arm"}, Running(j), EngineBecomes(j, at),
         UNCHANGED <<holder, killed>>
  PROVE  EngineRuns(j)
BY RunsTo DEF EngineRuns, EngTyped

LEMMA ArmRuns ==
  ASSUME EngTyped, NEW j \in Jobs, Arm(j)
  PROVE  EngineRuns(j)
<1>1. engine[j].at = "arm" /\ Running(j) /\ UNCHANGED killed  BY DEF Arm, Running
<1>2. CASE Opens(j)
  <2>1. EngineBecomes(j, "erase") /\ holder' = [holder EXCEPT ![engine[j].drive] = j]
    BY <1>2 DEF Arm
  <2>2. engine[j].drive \in Drives /\ j \in 0 .. MaxJobs  BY Sizes DEF EngTyped, EngRec, Jobs
  <2>3. /\ engine' \in [Jobs -> EngRec] /\ engine'[j].at = "erase"
        /\ engine'[j].drive = engine[j].drive
        /\ \A i \in Jobs : i # j => engine'[i] = engine[i]
    BY <2>1, RunsTo
  <2>4. /\ holder' \in [Drives -> 0 .. MaxJobs] /\ holder'[engine[j].drive] = j
        /\ \A d \in Drives : d # engine[j].drive => holder'[d] = holder[d]
    BY <2>1, <2>2 DEF EngTyped
  <2> QED  BY <1>1, <1>2, <2>3, <2>4 DEF EngineRuns, EngTyped, Opens
<1>3. CASE ~Opens(j)  BY <1>1, <1>3, ExitsRuns DEF Arm
<1> QED  BY <1>2, <1>3

LEMMA RunRuns ==
  ASSUME EngTyped, NEW j \in Jobs, Run(j) \/ OperatorTypes(j)
  PROVE  EngineRuns(j)
<1>1. CASE Precheck(j)
  <2>1. Running(j)  BY <1>1 DEF Precheck, Running
  <2> QED  BY <1>1, <2>1, ExitsRuns, BecomesRuns DEF Precheck
<1>2. CASE Erase(j)
  <2>1. Running(j)  BY <1>2 DEF Erase, Running
  <2> QED  BY <1>2, <2>1, ExitsRuns DEF Erase
<1>3. CASE OperatorTypes(j)
  <2>1. Running(j)  BY <1>3 DEF OperatorTypes, Running
  <2> QED  BY <1>3, <2>1, ExitsRuns, BecomesRuns DEF OperatorTypes
<1>4. CASE Dies(j)  BY <1>4, ExitsRuns DEF Dies
<1> QED  BY <1>1, <1>2, <1>3, <1>4, ArmRuns DEF Run

\* Whatever an engine does by itself, nothing was said yet that it could belie.
LEMMA CoreRuns ==
  ASSUME EngTyped, Core, NEW j \in Jobs, EngineRuns(j), UNCHANGED <<conn, job, watcher>>
  PROVE  Core'
<1>1. /\ Running(j) /\ UNCHANGED killed
      /\ engine'[j].at # "none" /\ engine'[j].drive = engine[j].drive
      /\ \A i \in Jobs : i # j => engine'[i] = engine[i]
      /\ engine'[j].at = "ended" => engine'[j].exit \in {"0", "code", "signal"}
  BY DEF EngineRuns
<1>2. \A i \in Jobs : engine[i].at = "ended" => engine'[i] = engine[i]  BY <1>1 DEF Running
<1>3. \A i \in Jobs : engine[i].at # "none" => engine'[i].at # "none"  BY <1>1
<1>4. \A c \in Conns : conn[c].at \in {"insert", "cancel", "child", "mark"} => conn[c].job \in Jobs
  BY DEF Core, Named
<1>5. Named'  BY DEF Core, Named
<1>6. Started'  BY <1>3, <1>4 DEF Core, Started
<1>7. EndsFirst'  BY <1>1, <1>2, <1>4 DEF Core, EndsFirst, Doomed
<1>8. ReportedExitIsTheEngines'
  <2>1. /\ job[j].exit = "none" /\ job[j].state \notin {"Completed", "Failed"}
        /\ watcher[j] # "done"
    BY <1>1 DEF Core, EndsFirst, Running
  <2> QED  BY <1>1, <2>1 DEF Core, ReportedExitIsTheEngines
<1>9. NoOrphanEngine'
  <2>1. \A i \in Jobs : Running(i)' => Running(i)  BY <1>1 DEF Running
  <2> QED  BY <2>1 DEF Core, NoOrphanEngine, At
<1>10. HoldsItsDrive'
  <2> SUFFICES ASSUME NEW i \in Jobs, engine'[i].at = "erase" PROVE holder'[engine'[i].drive] = i
    BY DEF HoldsItsDrive
  <2>0. \A k \in Jobs : engine[k].drive \in Drives /\ k # 0 BY Sizes DEF EngTyped, EngRec, Jobs
  <2>1. CASE i = j  BY <1>1, <2>1 DEF EngineRuns
  <2>2. CASE i # j
    <3>1. engine'[i] = engine[i] /\ holder[engine[i].drive] = i
      BY <1>1, <2>2 DEF Core, HoldsItsDrive
    <3> QED  BY <2>0, <2>2, <3>1 DEF EngineRuns
  <2> QED  BY <2>1, <2>2
<1> QED  BY <1>5, <1>6, <1>7, <1>8, <1>9, <1>10 DEF Core

LEMMA RunKeeps == ASSUME IInv, NEW j \in Jobs, Run(j) \/ OperatorTypes(j) PROVE IInv'
<1> USE IInvIs, IInvThen, TypedIs, TypedThen
<1>1. EngineRuns(j)  BY RunRuns
<1>2. UNCHANGED <<conn, live, locks, job, watcher, streams, poller, requests, faults>>
  BY DEF Run, Precheck, Arm, Erase, Dies, OperatorTypes
<1>3. ConnTyped' /\ Counted'  BY <1>2, SameCount
<1>4. TypeOK'
  BY <1>1, <1>2, <1>3 DEF EngineRuns, LockTyped, JobTyped, FeedTyped, Bounded, locks, streams
<1>5. Core'  BY <1>1, <1>2, CoreRuns
<1> QED  BY <1>3, <1>4, <1>5

----------------------------------------------------------------------------
(* Steps that write an end into the table *)

\* The engine had ended, or has been sent the signal, when the kill returns.
LEMMA CancelKillsKeeps == ASSUME IInv, NEW c \in Conns, CancelKills(c) PROVE IInv'
<1> USE IInvIs, IInvThen, TypedIs, TypedThen
<1>1. PICK j \in Jobs : j = conn[c].job  BY DEF Core, Named, CancelKills, At
<1>2. Moves(c, {"child"}, {"mark"}) /\ conn'[c].job = j /\ conn'[c].at = "mark" /\ conn[c].at = "child"
  BY <1>1, GotoMoves DEF CancelKills, At, Moves, Ats, Requests
<1>3. \A d \in Conns : d # c => conn'[d] = conn[d]  BY <1>2 DEF Moves
<1>4. ConnTyped' /\ Counted'  BY <1>2, StaysOpen DEF CancelKills
<1>5. /\ UNCHANGED <<live, locks, job, watcher, engine, holder, streams, poller, requests, faults>>
      /\ job[j].state # "none" /\ engine[j].at # "none"
  BY <1>1, <1>2 DEF CancelKills, Core, Started
<1>6. killed \subseteq killed' /\ killed' \subseteq Jobs /\ Doomed(j)'
  BY <1>1, <1>5 DEF CancelKills, Signalled, Running, Doomed, EngTyped
<1>7. TypeOK'
  BY <1>4, <1>5, <1>6 DEF LockTyped, JobTyped, EngTyped, FeedTyped, Bounded, locks, streams
<1>8. \A d \in Conns : conn[d].at \in {"insert", "cancel", "child", "mark"} => conn[d].job \in Jobs
  BY DEF Core, Named
<1>9. Named'  BY <1>2, <1>3, <1>8 DEF Named
<1>10. Started'  BY <1>2, <1>3, <1>5, <1>8 DEF Core, Started
<1>11. EndsFirst'
  <2>1. (\A d \in Conns : conn[d].at = "mark" => Doomed(conn[d].job))'
    BY <1>2, <1>3, <1>5, <1>6 DEF Core, EndsFirst, Doomed
  <2>2. (\A i \in Jobs : job[i].state = "Cancelled" => Doomed(i))'
    BY <1>5, <1>6 DEF Core, EndsFirst, Doomed
  <2> QED  BY <1>5, <2>1, <2>2 DEF Core, EndsFirst
<1>12. ReportedExitIsTheEngines' /\ HoldsItsDrive'
  BY <1>5 DEF Core, ReportedExitIsTheEngines, HoldsItsDrive
<1>13. NoOrphanEngine'
  <2>1. \A d \in Conns : conn[d].at = "insert" => conn'[d] = conn[d]  BY <1>2, <1>3
  <2> QED  BY <1>5, <2>1 DEF Core, NoOrphanEngine, Running, At
<1> QED  BY <1>4, <1>7, <1>9, <1>10, <1>11, <1>12, <1>13 DEF Core

\* The record changes, for a job whose engine has ended, or is cancelled.
LEMMA RecordKeeps ==
  ASSUME Core, JobTyped, NEW j \in Jobs, NEW r \in JobRec, job' = [job EXCEPT ![j] = r],
         UNCHANGED engines, r.state # "none", engine[j].at # "none",
         engine[j].at = "ended" \/ (r.state = "Cancelled" /\ r.exit = "none" /\ j \in killed),
         r.exit # "none" \/ watcher'[j] = "done" => r.exit = engine[j].exit,
         watcher'[j] = "done" => engine[j].at = "ended",
         r.state = "Completed" => engine[j].exit = "0",
         r.state = "Failed" => engine[j].exit \in {"code", "signal"},
         \A i \in Jobs : watcher'[i] = watcher[i] \/ (i = j /\ watcher'[i] = "done"),
         \A c \in Conns : conn'[c] = conn[c] \/ (conn'[c].at = "reading" /\ conn[c].at = "mark")
  PROVE  Core' /\ job' \in [Jobs -> JobRec]
<1>1. /\ job'[j] = r /\ (\A i \in Jobs : i # j => job'[i] = job[i]) /\ job' \in [Jobs -> JobRec]
      /\ UNCHANGED <<engine, holder, killed>>
  BY DEF JobTyped, engines
<1>2. \A i \in Jobs : job[i].state # "none" => job'[i].state # "none"  BY <1>1
<1>3. \A c \in Conns : conn'[c].at # "reading" => conn'[c] = conn[c]  OBVIOUS
<1>4. \A c \in Conns : conn[c].at \in {"insert", "cancel", "child", "mark"} => conn[c].job \in Jobs
  BY DEF Core, Named
<1>5. Named'  BY <1>3, <1>4 DEF Named
<1>6. Started'
  <2>1. \A i \in Jobs : job'[i].state # "none" => engine'[i].at # "none"
    BY <1>1 DEF Core, Started
  <2>2. \A c \in Conns : conn'[c].at = "insert" => engine'[conn'[c].job].at # "none"
    BY <1>1, <1>3 DEF Core, Started
  <2>3. \A c \in Conns : conn'[c].at \in {"child", "mark"} => job'[conn'[c].job].state # "none"
    BY <1>2, <1>3, <1>4 DEF Core, Started
  <2> QED  BY <2>1, <2>2, <2>3 DEF Started
<1>7. EndsFirst'
  <2>1. (\A c \in Conns : conn[c].at = "mark" => Doomed(conn[c].job))'
    BY <1>1, <1>3 DEF Core, EndsFirst, Doomed
  <2>2. \A i \in Jobs : watcher'[i] \in {"record", "done"} => engine'[i].at = "ended"
    BY <1>1 DEF Core, EndsFirst
  <2>3. \A i \in Jobs : job'[i].state \in {"Completed", "Failed"} \/ job'[i].exit # "none"
          => engine'[i].at = "ended"
    BY <1>1 DEF Core, EndsFirst
  <2>4. (\A i \in Jobs : job[i].state = "Cancelled" => Doomed(i))'
    BY <1>1 DEF Core, EndsFirst, Doomed
  <2>5. \A i \in Jobs : engine'[i].at = "ended" => engine'[i].exit \in {"0", "code", "signal"}
    BY <1>1 DEF Core, EndsFirst
  <2> QED  BY <2>1, <2>2, <2>3, <2>4, <2>5 DEF EndsFirst
<1>8. ReportedExitIsTheEngines'  BY <1>1 DEF Core, ReportedExitIsTheEngines
<1>9. NoOrphanEngine'
  <2>1. \A i \in Jobs : watcher[i] = "gone" /\ i # j => watcher'[i] = "gone"  OBVIOUS
  <2>2. \A c \in Conns : conn[c].at = "insert" => conn'[c] = conn[c]  OBVIOUS
  <2> QED  BY <1>1, <1>2, <2>1, <2>2 DEF Core, NoOrphanEngine, Running, At
<1>10. HoldsItsDrive'  BY <1>1 DEF Core, HoldsItsDrive
<1> QED  BY <1>1, <1>5, <1>6, <1>7, <1>8, <1>9, <1>10 DEF Core

LEMMA CancelMarksKeeps == ASSUME IInv, NEW c \in Conns, CancelMarks(c) PROVE IInv'
<1> USE IInvIs, IInvThen, TypedIs, TypedThen
<1>1. PICK j \in Jobs : j = conn[c].job  BY DEF Core, Named, CancelMarks, At
<1>2. Moves(c, {"mark"}, {"reading"}) /\ conn'[c].at = "reading" /\ conn[c].at = "mark"
  BY AnswerMoves DEF CancelMarks, At, Moves
<1>3. ConnTyped' /\ Counted'  BY <1>2, StaysOpen DEF CancelMarks
<1>4. PICK r : r = [job[j] EXCEPT !.state = "Cancelled"]  OBVIOUS
<1>5. r \in JobRec /\ r.state = "Cancelled" /\ r.exit = job[j].exit
  BY <1>4 DEF JobTyped, JobRec, JobStates
<1>6. job' = [job EXCEPT ![j] = r]  BY <1>1, <1>4 DEF CancelMarks, JobTyped
<1>7. /\ engine[j].at # "none"
      /\ engine[j].at = "ended" \/ (r.exit = "none" /\ j \in killed)
      /\ watcher[j] = "done" => engine[j].at = "ended" /\ r.exit = engine[j].exit
  BY <1>1, <1>2, <1>5 DEF Core, Started, EndsFirst, Doomed, ReportedExitIsTheEngines
<1>8. \A d \in Conns : conn'[d] = conn[d] \/ (conn'[d].at = "reading" /\ conn[d].at = "mark")
  BY <1>2 DEF Moves
<1>9. r.exit # "none" => r.exit = engine[j].exit  BY <1>5 DEF Core, ReportedExitIsTheEngines
<1>10. Core' /\ job' \in [Jobs -> JobRec]
  BY <1>5, <1>6, <1>7, <1>8, <1>9, RecordKeeps DEF CancelMarks
<1>11. TypeOK'
  BY <1>3, <1>10 DEF CancelMarks, LockTyped, JobTyped, EngTyped, FeedTyped, Bounded, engines, streams
<1> QED  BY <1>3, <1>10, <1>11

LEMMA WatcherLocksKeeps == ASSUME IInv, NEW j \in Jobs, WatcherLocks(j) PROVE IInv'
<1> USE IInvIs, IInvThen, TypedIs, TypedThen
<1>1. ConnTyped' /\ Counted'  BY SameCount DEF WatcherLocks
<1>2. TypeOK'
  BY <1>1 DEF WatcherLocks, LockTyped, JobTyped, EngTyped, FeedTyped, Bounded, Watches, engines, streams
<1>3. UNCHANGED <<conn, job, engine, holder, killed>>
      /\ \A i \in Jobs : watcher'[i] = watcher[i] \/ (watcher[i] = "start" /\ watcher'[i] = "wait")
  BY DEF WatcherLocks, engines, JobTyped
<1>4. Core'
  BY <1>3 DEF Core, Named, Started, EndsFirst, ReportedExitIsTheEngines, NoOrphanEngine, HoldsItsDrive,
              Doomed, Running, At
<1> QED  BY <1>1, <1>2, <1>4

LEMMA WatcherReapsKeeps == ASSUME IInv, NEW j \in Jobs, WatcherReaps(j) PROVE IInv'
<1> USE IInvIs, IInvThen, TypedIs, TypedThen
<1>1. ConnTyped' /\ Counted'  BY SameCount DEF WatcherReaps
<1>2. TypeOK'
  BY <1>1 DEF WatcherReaps, LockTyped, JobTyped, EngTyped, FeedTyped, Bounded, Watches, engines, streams
<1>3. UNCHANGED <<conn, job, engine, holder, killed>> /\ engine[j].at = "ended"
      /\ \A i \in Jobs : watcher'[i] = watcher[i] \/ (i = j /\ watcher[i] = "wait" /\ watcher'[i] = "record")
  BY DEF WatcherReaps, Reaps, engines, JobTyped
<1>4. Core'
  BY <1>3 DEF Core, Named, Started, EndsFirst, ReportedExitIsTheEngines, NoOrphanEngine, HoldsItsDrive,
              Doomed, Running, At
<1> QED  BY <1>1, <1>2, <1>4

LEMMA WatcherRecordsKeeps == ASSUME IInv, NEW j \in Jobs, WatcherRecords(j) PROVE IInv'
<1> USE IInvIs, IInvThen, TypedIs, TypedThen
<1>1. ConnTyped' /\ Counted'  BY SameCount DEF WatcherRecords
<1>2. PICK r : r = [state |-> Outcome(engine[j].exit), exit |-> engine[j].exit]  OBVIOUS
<1>3. engine[j].at = "ended" /\ engine[j].exit \in {"0", "code", "signal"}
  BY DEF WatcherRecords, Core, EndsFirst
<1>4. /\ r \in JobRec /\ r.exit = engine[j].exit /\ r.state # "none"
      /\ r.state = "Completed" => engine[j].exit = "0"
      /\ r.state = "Failed" => engine[j].exit \in {"code", "signal"}
  BY <1>2, <1>3 DEF Outcome, JobRec, JobStates, ExitCodes
<1>5. job' = [job EXCEPT ![j] = r] /\ watcher' = [watcher EXCEPT ![j] = "done"]
  BY <1>2 DEF WatcherRecords
<1>6. \A i \in Jobs : watcher'[i] = watcher[i] \/ (i = j /\ watcher'[i] = "done")
  BY <1>5 DEF JobTyped
<1>7. Core' /\ job' \in [Jobs -> JobRec]
  BY <1>3, <1>4, <1>5, <1>6, RecordKeeps DEF WatcherRecords
<1>8. TypeOK'
  BY <1>1, <1>5, <1>7 DEF WatcherRecords, LockTyped, JobTyped, EngTyped, FeedTyped, Bounded, Watches,
                          locks, engines, streams
<1> QED  BY <1>1, <1>7, <1>8

----------------------------------------------------------------------------
(* Events and restarts *)

\* A sender that takes a frame has room for it.
LEMMA FeedKeeps == ASSUME IInv, Poll \/ \E c \in Conns : Pump(c) PROVE IInv'
<1> USE IInvIs, IInvThen, TypedIs, TypedThen
<1>1. UNCHANGED <<conn, live, locks, job, watcher, engines, requests, faults>>
  BY DEF Poll, Refresh, Publish, Pump
<1>2. ConnTyped' /\ Counted' /\ Core'  BY <1>1, SameCount, CoreUnchanged
<1>3. FeedTyped'
  <2>1. CASE Refresh  BY <2>1 DEF Refresh, FeedTyped, streams
  <2>2. CASE Publish
    <3>1. \A c \in Conns : (IF c \in subscribed /\ Takes(c) THEN queue[c] + 1 ELSE queue[c]) \in 0 .. ChannelBound
      BY Sizes DEF FeedTyped, Takes
    <3> QED  BY <2>2, <3>1 DEF Publish, FeedTyped
  <2>3. ASSUME NEW c \in Conns, Pump(c) PROVE FeedTyped'  BY <2>3, Sizes DEF Pump, FeedTyped
  <2> QED  BY <2>1, <2>2, <2>3 DEF Poll
<1>4. TypeOK'  BY <1>1, <1>2, <1>3 DEF LockTyped, JobTyped, EngTyped, Bounded, locks, engines
<1> QED  BY <1>2, <1>4

\* The new dashboard knows of no engine, and claims nothing of any.
LEMMA RestartKeeps == ASSUME IInv, Restart PROVE IInv'
<1> USE IInvIs, IInvThen, TypedIs, TypedThen
<1>1. ConnTyped' /\ Counted'  BY RestartCounts
<1>2. \A c \in Conns : conn'[c].at = "closed"  BY ClosedTyped DEF Restart
<1>3. /\ \A j \in Jobs : job'[j].state = "none" /\ job'[j].exit = "none"
      /\ \A j \in Jobs : watcher'[j] = IF engine[j].at = "none" THEN "none" ELSE "gone"
      /\ UNCHANGED engine /\ UNCHANGED holder
  BY DEF Restart, NoJob, engines
<1>4. faults' \in 0 .. MaxFaults  BY FaultTyped DEF Restart
<1>5. LockTyped' /\ FeedTyped'  BY Sizes DEF Restart, LockTyped, FeedTyped
<1>6. JobTyped' /\ EngTyped'  BY ClosedTyped DEF Restart, JobTyped, Watches, EngTyped, engines
<1>7. TypeOK'  BY <1>1, <1>4, <1>5, <1>6 DEF Restart, Bounded
<1>8. Named'  BY <1>2 DEF Named
<1>9. Started'  BY <1>2, <1>3 DEF Started
<1>10. EndsFirst'  BY <1>2, <1>3 DEF Core, EndsFirst, Doomed
<1>11. ReportedExitIsTheEngines'  BY <1>3 DEF ReportedExitIsTheEngines
<1>12. NoOrphanEngine'  BY <1>3 DEF NoOrphanEngine, Running
<1>13. HoldsItsDrive'  BY <1>3 DEF Core, HoldsItsDrive
<1> QED  BY <1>1, <1>7, <1>8, <1>9, <1>10, <1>11, <1>12, <1>13 DEF Core

----------------------------------------------------------------------------
(* The invariant, and what follows from it *)

LEMMA InitIInv == Init => IInv
<1> SUFFICES ASSUME Init PROVE IInv  OBVIOUS
<1>1. TypeOK  BY InitTyped
<1>2. \A c \in Conns : conn[c].at = "closed"  BY ClosedTyped DEF Init, Starts
<1>3. /\ \A j \in Jobs : job[j].state = "none" /\ job[j].exit = "none" /\ watcher[j] = "none"
      /\ \A j \in Jobs : engine[j].at = "none"
  BY ClosedTyped DEF Init, Starts, NoJob
<1>4. Open = {}  BY <1>2 DEF Open
<1>5. Counted  BY <1>4, FS_EmptySet DEF Counted, Init, Starts
<1>6. Core
  BY <1>2, <1>3 DEF Core, Named, Started, EndsFirst, ReportedExitIsTheEngines, NoOrphanEngine,
                    HoldsItsDrive, Doomed, Running
<1> QED  BY <1>1, <1>5, <1>6, IInvIs

LEMMA StutterKeeps == ASSUME IInv, UNCHANGED vars PROVE IInv'
<1> USE IInvIs, IInvThen, TypedIs, TypedThen DEF vars
<1>1. ConnTyped' /\ Counted' /\ Core'  BY SameCount, CoreUnchanged
<1>2. TypeOK'
  BY <1>1 DEF LockTyped, JobTyped, EngTyped, FeedTyped, Bounded, locks, engines, streams
<1> QED  BY <1>1, <1>2

LEMMA IInvKept == IInv /\ [Next]_vars => IInv'
<1> SUFFICES ASSUME IInv, [Next]_vars PROVE IInv'  OBVIOUS
<1>1. ASSUME NEW c \in Conns, Accept(c) \/ Leave(c) \/ Request(c) \/ Subscribe(c) \/ Pump(c) PROVE IInv'
  BY <1>1, AcceptKeeps, LeaveKeeps, RequestKeeps, SubscribeKeeps, FeedKeeps
<1>2. ASSUME NEW c \in Conns, Serve(c) PROVE IInv'
  BY <1>2, LookupsKeep, SpawnKeeps, InsertKeeps, CancelKillsKeeps, CancelMarksKeeps DEF Serve
<1>3. ASSUME NEW j \in Jobs, Watch(j) \/ Run(j) \/ OperatorTypes(j) PROVE IInv'
  BY <1>3, WatcherLocksKeeps, WatcherReapsKeeps, WatcherRecordsKeeps, RunKeeps DEF Watch
<1> QED  BY <1>1, <1>2, <1>3, FeedKeeps, RestartKeeps, StutterKeeps DEF Next

\* Whoever erases holds the drive, and a drive has one holder.
LEMMA HoldersDiffer == HoldsItsDrive => OneEraserPerDrive
BY DEF HoldsItsDrive, OneEraserPerDrive

\* What is settled in the table was written behind its engine's end.
LEMMA SettledBehindEnd == TypeOK /\ EndsFirst => SettledIsDown
BY DEF TypeOK, JobStates, EndsFirst, Doomed, SettledIsDown, Settled, Running

\* The inductive invariant of the dashboard: who is counted, which job every
\* request works on, what each writer of the table has seen to before, and
\* who has which drive open; through every race of requests, cancels,
\* watchers and engines, and through restarts.
THEOREM TableInOrder == Spec => []IInv
<1> QED  BY InitIInv, IInvKept, PTL DEF Spec

\* The server's slots, the channels' bound and the records' types: the count
\* that accept_loop takes and the connection guard gives back never passes
\* MAX_CONNECTIONS nor runs below zero, and no channel passes CHANNEL_BOUND.
THEOREM TypeCorrect == Spec => []TypeOK
<1>1. IInv => TypeOK  BY DEF IInv
<1> QED  BY TableInOrder, <1>1, PTL

\* What jobs() serves of a job: Completed and Failed say how its engine ended and
\* a recorded exit code is the engine's and stays, in whatever order the cancel
\* and the watcher thread came to its snapshot; Cancelled says that the engine had
\* ended or has been sent SIGKILL, not which.
THEOREM TrueTable == Spec => []TableTellsTruth
<1>1. IInv => TableTellsTruth  BY SettledBehindEnd DEF IInv, TableTellsTruth
<1> QED  BY TableInOrder, <1>1, PTL

\* An engine that start_job spawned can be listed and cancelled until the
\* dashboard restarts, and O_EXCL lets no two of them erase one drive,
\* although two requests can pass the check of the table together.
THEOREM EnginesFound == Spec => []EnginesAccountedFor
<1>1. IInv => EnginesAccountedFor  BY HoldersDiffer DEF IInv, EnginesAccountedFor
<1> QED  BY TableInOrder, <1>1, PTL
=============================================================================
