-------------------------- MODULE DeploymentProofs --------------------------
(* Theorems about the host side of deployments, for any number of commits, *)
(* attempts, jobs and kills.                                               *)
EXTENDS Deployment, TLAPS

USE DeploymentAssumption

(* The names a job, an application and its directories have.               *)
LEMMA Names ==
  /\ \A j \in Jobs : j.app \in Apps /\ j.sha \in 2..MaxSha /\ j.sha \in Commits
  /\ \A a \in Apps : Members(a) \in SUBSET {"node_modules", "build"} /\ Other(a) \in Apps /\ Other(a) # a
  /\ \A a \in Apps : Directories(a) \subseteq AnyDirectories
  /\ 1 \in Commits \/ MaxSha < 1
  /\ Commits \subseteq 0..MaxSha /\ 0 \in 0..MaxSha
  BY DEF Jobs, Apps, Members, Other, AnyDirectories, Directories, Commits

(* A live or set-aside directory of a well-typed state is known.           *)
LEMMA DirectoryTypes ==
  ASSUME TypeOK
  PROVE  /\ \A a \in Apps : \A m \in Members(a) : live[a][m] \in 0..MaxSha
         /\ \A j \in Jobs : \A m \in Members(j.app) : backup[j][m] \in 0..MaxSha
  BY Names DEF TypeOK, Directories

(* What pm2 starts is a commit.                                            *)
LEMMA StartTypes ==
  ASSUME TypeOK, NEW a \in Apps, Start(a)
  PROVE  run' \in [Apps -> 0..MaxSha] /\ schema' \in Commits
<1>1. head[a] \in Commits /\ run \in [Apps -> 0..MaxSha] /\ schema \in Commits
  BY DEF TypeOK
<1>. QED
  BY <1>1, Names DEF Start

LEMMA TypeInit == Init => TypeOK
<1>. SUFFICES ASSUME Init PROVE TypeOK
  OBVIOUS
<1>1. 1 \in Commits
  BY DEF Commits
<1>2. \A a \in Apps : live[a] \in Directories(a)
  BY <1>1, Names DEF Init, Directories
<1>3. \A j \in Jobs : backup[j] \in Directories(j.app)
  BY Names DEF Init, Directories
<1>4. live \in [Apps -> AnyDirectories] /\ backup \in [Jobs -> AnyDirectories]
  BY <1>2, <1>3, Names DEF Init
<1>. QED
  BY <1>1, <1>2, <1>3, <1>4, Names DEF Init, TypeOK, EachJob
(* A step of the worker, a verdict or not, writes a phase and a status.    *)
LEMMA WorkerTypes ==
  ASSUME TypeOK, NEW j \in Jobs,
         NEW pc \in Holding, EndsOr(j, pc) \/ Ends(j, "failed")
  PROVE  /\ worker' \in [Jobs -> {"none", "waiting", "ended"} \cup Holding]
         /\ status' \in [Jobs -> Verdicts \cup {"none", "queued", "running"}]
         /\ active' \in [Apps -> Jobs \cup {None}]
<1>1. /\ worker \in [Jobs -> {"none", "waiting", "ended"} \cup Holding]
      /\ status \in [Jobs -> Verdicts \cup {"none", "queued", "running"}]
      /\ active \in [Apps -> Jobs \cup {None}]
  BY DEF TypeOK
<1>2. "failed" \in Verdicts
  BY DEF Verdicts
<1>. QED
  BY <1>1, <1>2 DEF EndsOr, Ends, Goes, files

(* What is captured of running applications is a snapshot.                 *)
LEMMA CaptureTypes ==
  ASSUME TypeOK, AllOnline
  PROVE  Snapshot \in Snapshots
<1>1. head \in [Apps -> Commits] /\ run \in [Apps -> 0..MaxSha] /\ schema \in Commits
  BY DEF TypeOK
<1>2. run \in [Apps -> Commits]
  BY <1>1 DEF AllOnline, Commits
<1>. QED
  BY <1>1, <1>2 DEF Snapshot, Snapshots

LEMMA TypeStep == TypeOK /\ (\A j \in Jobs : Captured(j)) /\ [Next]_vars => TypeOK'
<1>. SUFFICES ASSUME TypeOK, \A j \in Jobs : Captured(j), [Next]_vars PROVE TypeOK'
  OBVIOUS
<1>1. ASSUME NEW j \in Jobs, Create(j) PROVE TypeOK'
  BY <1>1, Names DEF TypeOK, Create, host, files
<1>2. ASSUME NEW j \in Jobs, Spawn(j) PROVE TypeOK'
  BY <1>2, Names DEF TypeOK, Spawn, host, files
<1>3. ASSUME NEW j \in Jobs, SeesSupervisorGone(j) PROVE TypeOK'
  BY <1>3, Names DEF TypeOK, SeesSupervisorGone, host, files
<1>4. ASSUME NEW j \in Jobs, RequesterMarks(j) PROVE TypeOK'
  BY <1>4, Names DEF TypeOK, RequesterMarks, Verdicts, host, files
<1>5. ASSUME NEW j \in Jobs, RequesterLeaves(j) PROVE TypeOK'
  BY <1>5, Names DEF TypeOK, RequesterLeaves, host, files
<1>6. ASSUME NEW j \in Jobs, SeesWorkerGone(j) PROVE TypeOK'
  BY <1>6, Names DEF TypeOK, SeesWorkerGone, host, files
<1>7. ASSUME NEW j \in Jobs, SupervisorMarks(j) PROVE TypeOK'
  BY <1>7, Names DEF TypeOK, SupervisorMarks, Verdicts, host, files
<1>8. ASSUME NEW j \in Jobs, Acquire(j) PROVE TypeOK'
  BY <1>8, Names DEF TypeOK, Acquire, Works, Goes, Holding, Early, Cutover, Rollback, host, files
<1>9. ASSUME NEW j \in Jobs, LockTimesOut(j) PROVE TypeOK'
  BY <1>9, Names DEF TypeOK, LockTimesOut, Works, Goes, host, files
<1>10. ASSUME NEW j \in Jobs, Capture(j) PROVE TypeOK'
  <2>1. before' \in [Jobs -> Snapshots \cup {None}]
    BY <1>10, CaptureTypes DEF TypeOK, Capture
  <2>2. CASE head[j.app] = j.sha
    BY <1>10, <2>1, <2>2 DEF TypeOK, Capture, Works, Ends, Goes, Verdicts, host
  <2>3. CASE head[j.app] # j.sha
    BY <1>10, <2>1, <2>3 DEF TypeOK, Capture, Works, Goes, host, files, Holding, Early
  <2>. QED
    BY <2>2, <2>3
<1>11. ASSUME NEW j \in Jobs, Stage(j) PROVE TypeOK'
  BY <1>11, Names DEF TypeOK, Stage, Works, Goes, Holding, Early, Cutover, Rollback, host, files
<1>12. ASSUME NEW j \in Jobs, Refuse(j) PROVE TypeOK'
  BY <1>12, Names DEF TypeOK, Refuse, Works, Goes, Ends, Verdicts, host, files
<1>13. ASSUME NEW j \in Jobs, Stop(j) PROVE TypeOK'
  BY <1>13, Names DEF TypeOK, Stop, Works, Goes, Advances, Holding, Early, Cutover, Rollback, host, files
<1>14. ASSUME NEW j \in Jobs, Merge(j) PROVE TypeOK'
  BY <1>14, Names DEF TypeOK, Merge, Works, Goes, Advances, Holding, Early, Cutover, Rollback, host, files
<1>15. ASSUME NEW j \in Jobs, SwapEnds(j) PROVE TypeOK'
  BY <1>15, Names DEF TypeOK, SwapEnds, Works, Goes, Holding, Early, Cutover, Rollback, host, files
<1>16. ASSUME NEW j \in Jobs, Restart(j) PROVE TypeOK'
  <2>1. run' \in [Apps -> 0..MaxSha] /\ schema' \in Commits
    BY <1>16, StartTypes, Names DEF Restart, TypeOK
  <2>2. worker' \in [Jobs -> {"none", "waiting", "ended"} \cup Holding]
    BY <1>16 DEF TypeOK, Restart, Goes, Advances, Holding, Cutover, Rollback
  <2>. QED
    BY <1>16, <2>1, <2>2 DEF Restart, Works, TypeOK, files
<1>17. ASSUME NEW j \in Jobs, Check(j) PROVE TypeOK'
  BY <1>17, Names DEF TypeOK, Check, Works, Goes, Ends, Verdicts, Holding, Early, Cutover, Rollback, host, files
<1>18. ASSUME NEW j \in Jobs, Halt(j) PROVE TypeOK'
  <2>1. run' \in [Apps -> 0..MaxSha]
    BY <1>18, Names DEF Halt, TypeOK
  <2>2. "schema" \in Holding
    BY DEF Holding, Rollback
  <2>3. EndsOr(j, "schema") \/ Ends(j, "failed")
    BY <1>18 DEF Halt
  <2>4. /\ worker' \in [Jobs -> {"none", "waiting", "ended"} \cup Holding]
      /\ status' \in [Jobs -> Verdicts \cup {"none", "queued", "running"}]
      /\ active' \in [Apps -> Jobs \cup {None}]
    BY <1>18, <2>2, <2>3, WorkerTypes
  <2>. QED
    BY <1>18, <2>1, <2>4 DEF Halt, Works, TypeOK
<1>19. ASSUME NEW j \in Jobs, CheckSchema(j) PROVE TypeOK'
  BY <1>19, Names DEF TypeOK, CheckSchema, Works, Goes, Ends, Verdicts, Holding, Early, Cutover, Rollback, host, files
<1>20. ASSUME NEW j \in Jobs, SwitchBack(j) PROVE TypeOK'
  <2>1. head' \in [Apps -> Commits]
    <3>1. before[j] \in Snapshots /\ head \in [Apps -> Commits]
      BY <1>20 DEF TypeOK, Captured, SwitchBack, Works, Rollback
    <3>. QED
      BY <1>20, <3>1, Names DEF SwitchBack, Snapshots
  <2>2. "unswap" \in Holding
    BY DEF Holding, Rollback
  <2>3. /\ worker' \in [Jobs -> {"none", "waiting", "ended"} \cup Holding]
      /\ status' \in [Jobs -> Verdicts \cup {"none", "queued", "running"}]
      /\ active' \in [Apps -> Jobs \cup {None}]
    BY <1>20, <2>2, WorkerTypes DEF SwitchBack
  <2>. QED
    BY <1>20, <2>1, <2>3 DEF SwitchBack, Works, TypeOK
<1>21. ASSUME NEW j \in Jobs, MoveBack(j) PROVE TypeOK'
  <2>1. Returned(j) \in Directories(j.app)
    BY DirectoryTypes, Names DEF Returned, Directories
  <2>2. [m \in Members(j.app) |-> 0] \in Directories(j.app)
    BY DEF Directories
  <2>3. "relaunch" \in Holding
    BY DEF Holding, Rollback
  <2>4. live' \in [Apps -> AnyDirectories] /\ \A a \in Apps : live'[a] \in Directories(a)
    BY <1>21, <2>1, Names DEF MoveBack, TypeOK
  <2>5. backup' \in [Jobs -> AnyDirectories] /\ \A k \in Jobs : backup'[k] \in Directories(k.app)
    BY <1>21, <2>2, Names DEF MoveBack, TypeOK
  <2>6. /\ worker' \in [Jobs -> {"none", "waiting", "ended"} \cup Holding]
      /\ status' \in [Jobs -> Verdicts \cup {"none", "queued", "running"}]
      /\ active' \in [Apps -> Jobs \cup {None}]
    BY <1>21, <2>3, WorkerTypes DEF MoveBack
  <2>. QED
    BY <1>21, <2>4, <2>5, <2>6 DEF MoveBack, Works, TypeOK
<1>22. ASSUME NEW j \in Jobs, Relaunch(j) PROVE TypeOK'
  <2>1. run' \in [Apps -> 0..MaxSha] /\ schema' \in Commits
    BY <1>22, StartTypes, Names DEF Relaunch, TypeOK
  <2>2. "recheck" \in Holding
    BY DEF Holding, Rollback
  <2>3. EndsOr(j, "recheck") \/ Ends(j, "failed")
    BY <1>22 DEF Relaunch
  <2>4. /\ worker' \in [Jobs -> {"none", "waiting", "ended"} \cup Holding]
      /\ status' \in [Jobs -> Verdicts \cup {"none", "queued", "running"}]
      /\ active' \in [Apps -> Jobs \cup {None}]
    BY <1>22, <2>2, <2>3, WorkerTypes
  <2>. QED
    BY <1>22, <2>1, <2>4 DEF Relaunch, Works, TypeOK
<1>23. ASSUME NEW j \in Jobs, Recheck(j) PROVE TypeOK'
  BY <1>23, Names DEF TypeOK, Recheck, Works, Goes, Ends, Verdicts, Holding, Early, Cutover, Rollback, host, files
<1>24. ASSUME NEW j \in Jobs, KillRequester(j) PROVE TypeOK'
  BY <1>24, Names DEF TypeOK, KillRequester, Kill, host, files, procs
<1>25. ASSUME NEW j \in Jobs, KillSupervisor(j) PROVE TypeOK'
  BY <1>25, Names DEF TypeOK, KillSupervisor, Kill, host, files
<1>26. ASSUME NEW j \in Jobs, KillWorker(j) PROVE TypeOK'
  BY <1>26, Names DEF TypeOK, KillWorker, Kill, host, files
<1>27. ASSUME NEW j \in Jobs, NEW m \in Members(j.app), MoveOut(j, m) PROVE TypeOK'
  <2>1. live'[j.app] \in Directories(j.app) /\ backup'[j] \in Directories(j.app)
    BY <1>27, DirectoryTypes, Names DEF MoveOut, TypeOK, Directories
  <2>2. live' = [live EXCEPT ![j.app] = live'[j.app]] /\ backup' = [backup EXCEPT ![j] = backup'[j]]
    BY <1>27, Names DEF MoveOut, TypeOK
  <2>3. live' \in [Apps -> AnyDirectories] /\ \A a \in Apps : live'[a] \in Directories(a)
    BY <2>1, <2>2, Names DEF TypeOK
  <2>4. backup' \in [Jobs -> AnyDirectories] /\ \A k \in Jobs : backup'[k] \in Directories(k.app)
    BY <2>1, <2>2, Names DEF TypeOK
  <2>. QED
    BY <1>27, <2>3, <2>4 DEF MoveOut, Works, TypeOK, files
<1>28. ASSUME NEW j \in Jobs, NEW m \in Members(j.app), MoveIn(j, m) PROVE TypeOK'
  <2>1. live'[j.app] \in Directories(j.app)
    BY <1>28, DirectoryTypes, Names DEF MoveIn, TypeOK, Directories, Commits
  <2>2. live' = [live EXCEPT ![j.app] = live'[j.app]]
    BY <1>28, Names DEF MoveIn, TypeOK
  <2>3. live' \in [Apps -> AnyDirectories] /\ \A a \in Apps : live'[a] \in Directories(a)
    BY <2>1, <2>2, Names DEF TypeOK
  <2>. QED
    BY <1>28, <2>3 DEF MoveIn, Works, TypeOK, files
<1>29. ASSUME NEW a \in Apps, Push(a) PROVE TypeOK'
  BY <1>29 DEF TypeOK, Push, host, files, procs, Commits
<1>30. ASSUME NEW a \in Apps, Repair(a) PROVE TypeOK'
  <2>1. run' \in [Apps -> 0..MaxSha] /\ schema' \in Commits
    BY <1>30, StartTypes DEF Repair
  <2>2. [m \in Members(a) |-> head[a]] \in Directories(a)
    BY Names DEF TypeOK, Directories
  <2>3. live' \in [Apps -> AnyDirectories] /\ \A b \in Apps : live'[b] \in Directories(b)
    BY <1>30, <2>2, Names DEF Repair, TypeOK
  <2>. QED
    BY <1>30, <2>1, <2>3 DEF Repair, TypeOK, files, procs
<1>31. ASSUME UNCHANGED vars PROVE TypeOK'
  BY <1>31 DEF TypeOK, vars, host, files, procs
<1>. QED
  BY <1>1, <1>2, <1>3, <1>4, <1>5, <1>6, <1>7, <1>8, <1>9, <1>10, <1>11, <1>12, <1>13,
     <1>14, <1>15, <1>16, <1>17, <1>18, <1>19, <1>20, <1>21, <1>22, <1>23, <1>24, <1>25,
     <1>26, <1>27, <1>28, <1>29, <1>30, <1>31 DEF Next, WorkerStep


(* A worker's step: its job, and what any step of a worker does not touch. *)
LEMMA WorkerWatched ==
  ASSUME TypeOK, WatchedOK, NEW j \in Jobs, worker[j] # "none", worker[j] # "ended",
         UNCHANGED <<requester, supervisor, kills>>,
         \E pc \in {"ended"} \cup Holding : worker' = [worker EXCEPT ![j] = pc],
         UNCHANGED status \/ \E v \in Verdicts \cup {"running"} : status' = [status EXCEPT ![j] = v]
  PROVE  WatchedOK'
<1>1. worker \in [Jobs -> {"none", "waiting", "ended"} \cup Holding] /\ supervisor[j] # "none"
      /\ status \in [Jobs -> Verdicts \cup {"none", "queued", "running"}]
  BY DEF TypeOK, WatchedOK, Watched
<1>2. supervisor[j] \notin {"marking", "done"}
  BY DEF WatchedOK, Watched
<1>3. "ended" \notin Holding /\ "none" \notin Holding
      /\ "none" \notin Verdicts
  BY DEF Holding, Early, Cutover, Rollback, Verdicts
<1>. SUFFICES ASSUME NEW k \in Jobs PROVE Watched(k)'
  BY DEF WatchedOK
<1>4. Watched(k)
  BY DEF WatchedOK
<1>5. CASE k = j
  BY <1>1, <1>2, <1>3, <1>4, <1>5 DEF Watched, Final
<1>6. CASE k # j
  <2>1. worker'[k] = worker[k] /\ status'[k] = status[k]
    BY <1>1, <1>6
  <2>. QED
    BY <2>1, <1>4 DEF Watched, Final
<1>. QED
  BY <1>5, <1>6

(* The steps of a worker are of that kind.                                 *)
LEMMA WorkerMoves ==
  ASSUME TypeOK, NEW j \in Jobs, WorkerStep(j)
  PROVE  /\ worker[j] # "none" /\ worker[j] # "ended"
         /\ UNCHANGED <<origin, requester, supervisor, kills>>
         /\ \E pc \in {"ended"} \cup Holding : worker' = [worker EXCEPT ![j] = pc]
         /\ UNCHANGED status \/ \E v \in Verdicts \cup {"running"} : status' = [status EXCEPT ![j] = v]
<1>0. {"ended", "verify", "halt"} \cup Cutover \cup Rollback \cup Early \subseteq {"ended"} \cup Holding
      /\ "ended" \notin Holding /\ "none" \notin Holding
  BY DEF Holding, Early, Cutover, Rollback
<1>1. CASE Acquire(j)
  BY <1>0, <1>1 DEF Acquire, Works, Goes, Ends, EndsOr, Advances, Verdicts, Holding, Early, Cutover, Rollback, files
<1>2. CASE LockTimesOut(j)
  BY <1>0, <1>2 DEF LockTimesOut, Works, Goes, Ends, EndsOr, Advances, Verdicts, Holding, Early, Cutover, Rollback, files
<1>3. CASE Capture(j)
  BY <1>0, <1>3 DEF Capture, Works, Goes, Ends, EndsOr, Advances, Verdicts, Holding, Early, Cutover, Rollback, files
<1>4. CASE Stage(j)
  BY <1>0, <1>4 DEF Stage, Works, Goes, Ends, EndsOr, Advances, Verdicts, Holding, Early, Cutover, Rollback, files
<1>5. CASE Refuse(j)
  BY <1>0, <1>5 DEF Refuse, Works, Goes, Ends, EndsOr, Advances, Verdicts, Holding, Early, Cutover, Rollback, files
<1>6. CASE Stop(j)
  BY <1>0, <1>6 DEF Stop, Works, Goes, Ends, EndsOr, Advances, Verdicts, Holding, Early, Cutover, Rollback, files
<1>7. CASE Merge(j)
  BY <1>0, <1>7 DEF Merge, Works, Goes, Ends, EndsOr, Advances, Verdicts, Holding, Early, Cutover, Rollback, files
<1>8. CASE SwapEnds(j)
  BY <1>0, <1>8 DEF SwapEnds, Works, Goes, Ends, EndsOr, Advances, Verdicts, Holding, Early, Cutover, Rollback, files
<1>9. CASE Restart(j)
  BY <1>0, <1>9 DEF Restart, Works, Goes, Ends, EndsOr, Advances, Verdicts, Holding, Early, Cutover, Rollback, files
<1>10. CASE Check(j)
  BY <1>0, <1>10 DEF Check, Works, Goes, Ends, EndsOr, Advances, Verdicts, Holding, Early, Cutover, Rollback, files
<1>11. CASE Halt(j)
  BY <1>0, <1>11 DEF Halt, Works, Goes, Ends, EndsOr, Advances, Verdicts, Holding, Early, Cutover, Rollback, files
<1>12. CASE CheckSchema(j)
  BY <1>0, <1>12 DEF CheckSchema, Works, Goes, Ends, EndsOr, Advances, Verdicts, Holding, Early, Cutover, Rollback, files
<1>13. CASE SwitchBack(j)
  BY <1>0, <1>13 DEF SwitchBack, Works, Goes, Ends, EndsOr, Advances, Verdicts, Holding, Early, Cutover, Rollback, files
<1>14. CASE MoveBack(j)
  BY <1>0, <1>14 DEF MoveBack, Works, Goes, Ends, EndsOr, Advances, Verdicts, Holding, Early, Cutover, Rollback, files
<1>15. CASE Relaunch(j)
  BY <1>0, <1>15 DEF Relaunch, Works, Goes, Ends, EndsOr, Advances, Verdicts, Holding, Early, Cutover, Rollback, files
<1>16. CASE Recheck(j)
  BY <1>0, <1>16 DEF Recheck, Works, Goes, Ends, EndsOr, Advances, Verdicts, Holding, Early, Cutover, Rollback, files
<1>17. CASE \E m \in Members(j.app) : MoveOut(j, m) \/ MoveIn(j, m)
  <2>1. worker \in [Jobs -> {"none", "waiting", "ended"} \cup Holding]
    BY DEF TypeOK
  <2>2. worker[j] = "swap" /\ UNCHANGED <<origin, requester, supervisor, kills, status, worker>>
    BY <1>17 DEF MoveOut, MoveIn, Works, files
  <2>3. worker' = [worker EXCEPT ![j] = "swap"]
    BY <2>1, <2>2
  <2>. QED
    BY <1>0, <2>2, <2>3 DEF Cutover
<1>. QED
  BY <1>1, <1>2, <1>3, <1>4, <1>5, <1>6, <1>7, <1>8, <1>9, <1>10, <1>11, <1>12, <1>13,
     <1>14, <1>15, <1>16, <1>17 DEF WorkerStep

(* Every step leaves somebody to end each job, or a process was killed.    *)
LEMMA WatchedStep == TypeOK /\ WatchedOK /\ [Next]_vars => WatchedOK'
<1>. SUFFICES ASSUME TypeOK, WatchedOK, [Next]_vars PROVE WatchedOK'
  OBVIOUS
<1>1. ASSUME NEW j \in Jobs, WorkerStep(j) PROVE WatchedOK'
  BY <1>1, WorkerMoves, WorkerWatched
<1>2. ASSUME NEW j \in Jobs, Create(j) PROVE WatchedOK'
  BY <1>2 DEF TypeOK, WatchedOK, Watched, Create, Final, Verdicts
<1>3. ASSUME NEW j \in Jobs, Spawn(j) PROVE WatchedOK'
  BY <1>3 DEF TypeOK, WatchedOK, Watched, Spawn, Final, Verdicts, files
<1>4. ASSUME NEW j \in Jobs, SeesSupervisorGone(j) PROVE WatchedOK'
  BY <1>4 DEF TypeOK, WatchedOK, Watched, SeesSupervisorGone, Final, Verdicts, files
<1>5. ASSUME NEW j \in Jobs, RequesterMarks(j) PROVE WatchedOK'
  BY <1>5 DEF TypeOK, WatchedOK, Watched, RequesterMarks, Final, Verdicts
<1>6. ASSUME NEW j \in Jobs, RequesterLeaves(j) PROVE WatchedOK'
  BY <1>6 DEF TypeOK, WatchedOK, Watched, RequesterLeaves, Final, Verdicts, files
<1>7. ASSUME NEW j \in Jobs, SeesWorkerGone(j) PROVE WatchedOK'
  BY <1>7 DEF TypeOK, WatchedOK, Watched, SeesWorkerGone, Final, Verdicts, files, Unfinished
<1>8. ASSUME NEW j \in Jobs, SupervisorMarks(j) PROVE WatchedOK'
  BY <1>8 DEF TypeOK, WatchedOK, Watched, SupervisorMarks, Final, Verdicts
<1>9. ASSUME NEW j \in Jobs, KillRequester(j) PROVE WatchedOK'
  BY <1>9 DEF TypeOK, WatchedOK, Watched, KillRequester, Final, Verdicts, Kill, files
<1>10. ASSUME NEW j \in Jobs, KillSupervisor(j) PROVE WatchedOK'
  BY <1>10 DEF TypeOK, WatchedOK, Watched, KillSupervisor, Final, Verdicts, Kill, files
<1>11. ASSUME NEW j \in Jobs, KillWorker(j) PROVE WatchedOK'
  BY <1>11 DEF TypeOK, WatchedOK, Watched, KillWorker, Final, Verdicts, Kill, files, Holding, Early, Cutover, Rollback
<1>12. ASSUME NEW a \in Apps, Push(a) \/ Repair(a) PROVE WatchedOK'
  BY <1>12 DEF WatchedOK, Watched, Push, Repair, Final, files, procs
<1>13. ASSUME UNCHANGED vars PROVE WatchedOK'
  BY <1>13 DEF WatchedOK, Watched, Final, vars, files, procs
<1>. QED
  BY <1>1, <1>2, <1>3, <1>4, <1>5, <1>6, <1>7, <1>8, <1>9, <1>10, <1>11, <1>12, <1>13 DEF Next

(* A job whose worker is not past the lock owes nothing to the host.       *)
LEMMA OthersPrepared ==
  ASSUME NEW k \in Jobs, Prepared(k), worker[k] \notin Holding,
         worker'[k] = worker[k], backup'[k] = backup[k]
  PROVE  Prepared(k)'
  BY DEF Prepared, Stopped, Captured, SetAside, Placed, PutBack, SameSchema, Holding, Early, Cutover, Rollback

(* Steps that only start, end or kill a process keep what it knows.        *)
LEMMA QuietPrepared ==
  ASSUME NEW k \in Jobs, Prepared(k), UNCHANGED <<host, before, backup>>,
         \/ worker'[k] = worker[k] \/ worker'[k] = "ended"
         \/ worker[k] = "none" /\ worker'[k] = "waiting"
         \/ worker[k] = "waiting" /\ worker'[k] = "verify"
  PROVE  Prepared(k)'
  BY DEF Prepared, Stopped, Captured, SetAside, Placed, PutBack, SameSchema, Holding, Early, Cutover, Rollback, host

(* The worker past the lock is alone there.                                *)
LEMMA PreparedFrame ==
  ASSUME OneWorker, \A k \in Jobs : Prepared(k), NEW j \in Jobs, worker[j] \in Holding, Prepared(j)',
         \A k \in Jobs \ {j} : worker'[k] = worker[k] /\ backup'[k] = backup[k]
  PROVE  \A k \in Jobs : Prepared(k)'
<1>. SUFFICES ASSUME NEW k \in Jobs, k # j PROVE Prepared(k)'
  OBVIOUS
<1>. QED
  BY OthersPrepared DEF OneWorker

(* The cutover and rollback steps, one by one: what the worker of j knows  *)
(* afterwards, and that whatever runs is whole and fits the schema.        *)
HostOK == RunningWhole /\ SchemaServed

LEMMA HostSame == HostOK /\ UNCHANGED host => HostOK'
  BY DEF HostOK, RunningWhole, SchemaServed, Whole, host

(* Starting a whole commit that the schema allows.                         *)
LEMMA StartFits ==
  ASSUME TypeOK, HostOK, NEW a \in Apps, Start(a), UNCHANGED <<head, live>>,
         Whole(a, head[a]), a = "backend" => head[a] >= schema
  PROVE  HostOK'
<1>1. /\ head \in [Apps -> Commits] /\ run \in [Apps -> 0..MaxSha] /\ schema \in Commits
      /\ worker \in [Jobs -> {"none", "waiting", "ended"} \cup Holding]
  BY DEF TypeOK
<1>2. /\ run'[a] = head[a] /\ \A b \in Apps \ {a} : run'[b] = run[b]
      /\ a # "backend" => UNCHANGED schema
      /\ UNCHANGED schema \/ (schema' = head[a])
  BY <1>1 DEF Start
<1>. QED
  BY <1>1, <1>2 DEF HostOK, RunningWhole, SchemaServed, Whole, Apps, Commits

LEMMA StageKnows ==
  ASSUME TypeOK, HostOK, NEW j \in Jobs, Prepared(j), Stage(j)
  PROVE  Prepared(j)'
<1>1. run[j.app] # 0 /\ Whole(j.app, run[j.app]) /\ head[j.app] <= j.sha /\ before[j] = Snapshot
  BY Names DEF HostOK, RunningWhole, Stage, AllOnline, VerifySource
<1>2. \A m \in Members(j.app) : live[j.app][m] = head[j.app] /\ backup[j][m] = 0
  BY <1>1 DEF Whole, Prepared, SetAside, Stage, Works, Early
<1>. QED
  BY <1>1, <1>2 DEF TypeOK, Prepared, Stopped, Captured, SetAside, Placed, PutBack, SameSchema, Stage, Works, Goes, Snapshot, host, Holding, Early, Cutover, Rollback

LEMMA CaptureKnows ==
  ASSUME TypeOK, HostOK, NEW j \in Jobs, Prepared(j), Capture(j)
  PROVE  Prepared(j)' /\ HostOK'
<1>1. /\ head \in [Apps -> Commits] /\ run \in [Apps -> 0..MaxSha] /\ schema \in Commits
      /\ worker \in [Jobs -> {"none", "waiting", "ended"} \cup Holding]
  BY DEF TypeOK
<1>2. HostOK'
  BY HostSame DEF Capture
<1>3. Snapshot \in Snapshots /\ Snapshot.schema <= Snapshot.head["backend"]
  <2>1. "backend" \in Apps /\ AllOnline
    BY DEF Apps, Capture
  <2>. QED
    BY <1>1, <2>1, CaptureTypes DEF HostOK, RunningWhole, SchemaServed, Whole, AllOnline, Snapshot
<1>4. before'[j] = Snapshot /\ backup' = backup /\ worker[j] = "verify"
  BY DEF TypeOK, Capture, Works
<1>5. worker'[j] \in {"stage", "ended"}
  BY <1>1 DEF Capture, Goes, Ends
<1>. QED
  BY <1>2, <1>3, <1>4, <1>5 DEF Prepared, Stopped, Captured, SetAside, Placed, PutBack, SameSchema, Holding, Early, Cutover, Rollback

LEMMA StopKnows ==
  ASSUME TypeOK, HostOK, NEW j \in Jobs, Prepared(j), Stop(j)
  PROVE  Prepared(j)' /\ HostOK'
<1>1. /\ head \in [Apps -> Commits] /\ run \in [Apps -> 0..MaxSha] /\ schema \in Commits
      /\ worker \in [Jobs -> {"none", "waiting", "ended"} \cup Holding]
  BY DEF TypeOK
<1>2. /\ worker[j] = "stop" /\ UNCHANGED <<head, live, schema, before, backup>>
      /\ worker'[j] = "halt" \/ (worker'[j] = "merge" /\ run'[j.app] = 0)
      /\ \A a \in Apps : run'[a] = run[a] \/ run'[a] = 0
  BY <1>1, Names DEF Stop, Works, Goes, Advances
<1>3. HostOK'
  BY <1>2 DEF HostOK, RunningWhole, SchemaServed, Whole, Apps
<1>. QED
  BY <1>2, <1>3 DEF Prepared, Stopped, Captured, SetAside, Placed, PutBack, SameSchema, Holding, Early, Cutover, Rollback

LEMMA MergeKnows ==
  ASSUME TypeOK, HostOK, NEW j \in Jobs, Prepared(j), Merge(j)
  PROVE  Prepared(j)' /\ HostOK'
<1>1. /\ head \in [Apps -> Commits] /\ run \in [Apps -> 0..MaxSha] /\ schema \in Commits
      /\ worker \in [Jobs -> {"none", "waiting", "ended"} \cup Holding]
  BY DEF TypeOK
<1>2. /\ worker[j] = "merge" /\ UNCHANGED <<live, run, schema, before, backup>> /\ run[j.app] = 0
      /\ worker'[j] = "halt" \/ (worker'[j] = "swap" /\ head'[j.app] = j.sha)
      /\ \A a \in Apps \ {j.app} : head'[a] = head[a]
  BY <1>1, Names DEF Merge, Works, Goes, Advances, Prepared, Stopped
<1>3. HostOK'
  BY <1>2 DEF HostOK, RunningWhole, SchemaServed, Whole
<1>. QED
  BY <1>2, <1>3 DEF Prepared, Stopped, Captured, SetAside, Placed, PutBack, SameSchema, Holding, Early, Cutover, Rollback

LEMMA SwapEndsKnows ==
  ASSUME TypeOK, HostOK, NEW j \in Jobs, Prepared(j), SwapEnds(j)
  PROVE  Prepared(j)' /\ HostOK'
  BY Names DEF TypeOK, Prepared, Stopped, Captured, SetAside, Placed, PutBack, SameSchema, HostOK, RunningWhole, SchemaServed, Whole, SwapEnds, Works, Goes, Ends, EndsOr, Advances, Start, host, Holding, Early, Cutover, Rollback

LEMMA RestartKnows ==
  ASSUME TypeOK, HostOK, NEW j \in Jobs, Prepared(j), Restart(j)
  PROVE  Prepared(j)' /\ HostOK'
<1>1. /\ head \in [Apps -> Commits] /\ run \in [Apps -> 0..MaxSha] /\ schema \in Commits
      /\ worker \in [Jobs -> {"none", "waiting", "ended"} \cup Holding]
  BY DEF TypeOK
<1>2. /\ worker[j] = "restart" /\ UNCHANGED <<head, live, before, backup>>
      /\ worker'[j] \in {"check", "halt"}
  BY <1>1, Names DEF Restart, Works, Goes, Advances
<1>3. Prepared(j)'
  BY <1>2 DEF Prepared, Stopped, Captured, SetAside, Placed, PutBack, SameSchema, Holding, Early, Cutover, Rollback
<1>4. /\ Whole(j.app, head[j.app]) /\ head[j.app] = j.sha /\ schema = before[j].schema
      /\ before[j] \in Snapshots /\ before[j].schema <= before[j].head["backend"]
      /\ before[j].head[j.app] <= j.sha
  BY <1>2 DEF Prepared, Stopped, Captured, SetAside, Placed, PutBack, SameSchema, Whole, Holding, Early, Cutover, Rollback
<1>5. j.app = "backend" => head[j.app] >= schema
  BY <1>4, Names DEF Snapshots, Commits
<1>6. UNCHANGED <<run, schema>> \/ Start(j.app)
  BY DEF Restart
<1>7. CASE UNCHANGED <<run, schema>>
  BY <1>2, <1>3, <1>7, HostSame DEF host
<1>8. CASE Start(j.app)
  BY <1>2, <1>3, <1>4, <1>5, <1>8, StartFits, Names
<1>. QED
  BY <1>6, <1>7, <1>8

LEMMA CheckKnows ==
  ASSUME TypeOK, HostOK, NEW j \in Jobs, Prepared(j), Check(j)
  PROVE  Prepared(j)' /\ HostOK'
  BY Names DEF TypeOK, Prepared, Stopped, Captured, SetAside, Placed, PutBack, SameSchema, HostOK, RunningWhole, SchemaServed, Whole, Check, Works, Goes, Ends, EndsOr, Advances, Start, host, Holding, Early, Cutover, Rollback

LEMMA HaltKnows ==
  ASSUME TypeOK, HostOK, NEW j \in Jobs, Prepared(j), Halt(j)
  PROVE  Prepared(j)' /\ HostOK'
<1>1. /\ head \in [Apps -> Commits] /\ run \in [Apps -> 0..MaxSha] /\ schema \in Commits
      /\ worker \in [Jobs -> {"none", "waiting", "ended"} \cup Holding]
  BY DEF TypeOK
<1>2. /\ worker[j] = "halt" /\ UNCHANGED <<head, live, schema, before, backup>>
      /\ worker'[j] = "ended" \/ (worker'[j] = "schema" /\ run'[j.app] = 0)
      /\ \A a \in Apps : run'[a] = run[a] \/ run'[a] = 0
  BY <1>1, Names DEF Halt, Halted, Works, Goes, Ends, EndsOr
<1>3. HostOK'
  BY <1>2 DEF HostOK, RunningWhole, SchemaServed, Whole, Apps
<1>. QED
  BY <1>2, <1>3 DEF Prepared, Stopped, Captured, SetAside, Placed, PutBack, SameSchema, Holding, Early, Cutover, Rollback

LEMMA CheckSchemaKnows ==
  ASSUME TypeOK, HostOK, NEW j \in Jobs, Prepared(j), CheckSchema(j)
  PROVE  Prepared(j)' /\ HostOK'
<1>1. /\ head \in [Apps -> Commits] /\ run \in [Apps -> 0..MaxSha] /\ schema \in Commits
      /\ worker \in [Jobs -> {"none", "waiting", "ended"} \cup Holding]
  BY DEF TypeOK
<1>2. /\ worker[j] = "schema" /\ UNCHANGED <<host, before, backup>>
      /\ worker'[j] = "ended" \/ (worker'[j] = "switch" /\ schema = before[j].schema)
  BY <1>1, Names DEF CheckSchema, Works, Goes, Ends, SchemaKept
<1>3. HostOK'
  BY <1>2, HostSame
<1>. QED
  BY <1>2, <1>3 DEF Prepared, Stopped, Captured, SetAside, Placed, PutBack, SameSchema, Holding, Early, Cutover, Rollback, host

LEMMA SwitchBackKnows ==
  ASSUME TypeOK, HostOK, NEW j \in Jobs, Prepared(j), SwitchBack(j)
  PROVE  Prepared(j)' /\ HostOK'
  BY Names DEF TypeOK, Prepared, Stopped, Captured, SetAside, Placed, PutBack, SameSchema, HostOK, RunningWhole, SchemaServed, Whole, SwitchBack, Works, Goes, Ends, EndsOr, Advances, Start, host, Holding, Early, Cutover, Rollback

LEMMA MoveBackKnows ==
  ASSUME TypeOK, HostOK, NEW j \in Jobs, Prepared(j), MoveBack(j)
  PROVE  Prepared(j)' /\ HostOK'
<1>1. /\ head \in [Apps -> Commits] /\ run \in [Apps -> 0..MaxSha] /\ schema \in Commits
      /\ worker \in [Jobs -> {"none", "waiting", "ended"} \cup Holding]
  BY DEF TypeOK
<1>2. /\ worker[j] = "unswap" /\ UNCHANGED <<head, run, schema, before>> /\ run[j.app] = 0
      /\ worker'[j] \in {"relaunch", "ended"}
      /\ head[j.app] = before[j].head[j.app]
  BY <1>1, Names DEF MoveBack, Works, Goes, Ends, EndsOr, Prepared, Stopped, PutBack
<1>3. /\ \A m \in Members(j.app) : live'[j.app][m] = Returned(j)[m] /\ backup'[j][m] = 0
      /\ \A a \in Apps \ {j.app} : live'[a] = live[a]
  BY Names DEF TypeOK, MoveBack
<1>4. \A m \in Members(j.app) : Returned(j)[m] = before[j].head[j.app]
  BY <1>2 DEF Prepared, SetAside, Returned, Rollback
<1>5. HostOK'
  BY <1>2, <1>3 DEF HostOK, RunningWhole, SchemaServed, Whole
<1>. QED
  BY <1>2, <1>3, <1>4, <1>5 DEF Prepared, Stopped, Captured, SetAside, Placed, PutBack, SameSchema, Holding, Early, Cutover, Rollback

LEMMA RelaunchKnows ==
  ASSUME TypeOK, HostOK, NEW j \in Jobs, Prepared(j), Relaunch(j)
  PROVE  Prepared(j)' /\ HostOK'
<1>1. /\ head \in [Apps -> Commits] /\ run \in [Apps -> 0..MaxSha] /\ schema \in Commits
      /\ worker \in [Jobs -> {"none", "waiting", "ended"} \cup Holding]
  BY DEF TypeOK
<1>2. /\ worker[j] = "relaunch" /\ UNCHANGED <<head, live, before, backup>>
      /\ worker'[j] \in {"recheck", "ended"}
  BY <1>1, Names DEF Relaunch, Works, Goes, Ends, EndsOr
<1>3. Prepared(j)'
  BY <1>2 DEF Prepared, Stopped, Captured, SetAside, Placed, PutBack, SameSchema, Holding, Early, Cutover, Rollback
<1>4. /\ Whole(j.app, head[j.app]) /\ head[j.app] = before[j].head[j.app] /\ schema = before[j].schema
      /\ before[j].schema <= before[j].head["backend"]
  BY <1>2 DEF Prepared, Stopped, Captured, SetAside, Placed, PutBack, SameSchema, Whole, Holding, Early, Cutover, Rollback
<1>5. j.app = "backend" => head[j.app] >= schema
  BY <1>1, <1>4, Names
<1>6. UNCHANGED <<run, schema>> \/ Start(j.app)
  BY DEF Relaunch
<1>7. CASE UNCHANGED <<run, schema>>
  BY <1>2, <1>3, <1>7, HostSame DEF host
<1>8. CASE Start(j.app)
  BY <1>2, <1>3, <1>4, <1>5, <1>8, StartFits, Names
<1>. QED
  BY <1>6, <1>7, <1>8

LEMMA RecheckKnows ==
  ASSUME TypeOK, HostOK, NEW j \in Jobs, Prepared(j), Recheck(j)
  PROVE  Prepared(j)' /\ HostOK'
  BY Names DEF TypeOK, Prepared, Stopped, Captured, SetAside, Placed, PutBack, SameSchema, HostOK, RunningWhole, SchemaServed, Whole, Recheck, Works, Goes, Ends, EndsOr, Advances, Start, host, Holding, Early, Cutover, Rollback

(* The two renames of a member.                                            *)
LEMMA MoveOutKnows ==
  ASSUME TypeOK, HostOK, NEW j \in Jobs, Prepared(j), NEW m \in Members(j.app), MoveOut(j, m)
  PROVE  Prepared(j)' /\ HostOK'
<1>1. /\ worker[j] = "swap" /\ UNCHANGED <<head, run, schema, worker, before>>
      /\ run[j.app] = 0 /\ backup[j][m] = 0 /\ live[j.app][m] # 0
  BY DEF MoveOut, Works, Prepared, Stopped
<1>2. /\ \A n \in Members(j.app) \ {m} : live'[j.app][n] = live[j.app][n] /\ backup'[j][n] = backup[j][n]
      /\ live'[j.app][m] = 0 /\ backup'[j][m] = live[j.app][m]
      /\ \A a \in Apps \ {j.app} : live'[a] = live[a]
  <2>1. /\ live \in [Apps -> AnyDirectories] /\ live[j.app] \in Directories(j.app)
        /\ backup \in [Jobs -> AnyDirectories] /\ backup[j] \in Directories(j.app)
    BY Names DEF TypeOK
  <2>. QED
    BY <2>1, Names DEF MoveOut, Directories
<1>3. HostOK'
  BY <1>1, <1>2 DEF HostOK, RunningWhole, SchemaServed, Whole
<1>. QED
  BY <1>1, <1>2, <1>3 DEF Prepared, Stopped, Captured, SetAside, Placed, PutBack, SameSchema, Holding, Early, Cutover, Rollback

LEMMA MoveInKnows ==
  ASSUME TypeOK, HostOK, NEW j \in Jobs, Prepared(j), NEW m \in Members(j.app), MoveIn(j, m)
  PROVE  Prepared(j)' /\ HostOK'
<1>1. /\ worker[j] = "swap" /\ UNCHANGED <<head, run, schema, worker, before, backup>>
      /\ run[j.app] = 0 /\ live[j.app][m] = 0
  BY DEF MoveIn, Works, Prepared, Stopped
<1>2. /\ \A n \in Members(j.app) \ {m} : live'[j.app][n] = live[j.app][n]
      /\ live'[j.app][m] = j.sha
      /\ \A a \in Apps \ {j.app} : live'[a] = live[a]
  <2>1. live \in [Apps -> AnyDirectories] /\ live[j.app] \in Directories(j.app)
    BY Names DEF TypeOK
  <2>. QED
    BY <2>1, Names DEF MoveIn, Directories
<1>3. HostOK'
  BY <1>1, <1>2 DEF HostOK, RunningWhole, SchemaServed, Whole
<1>4. backup[j][m] # 0
  <2>1. before[j].head[j.app] \in Commits
    BY <1>1, Names DEF Prepared, Captured, Snapshots, Cutover
  <2>. QED
    BY <1>1, <2>1 DEF Prepared, SetAside, Cutover, Commits
<1>. QED
  BY <1>1, <1>2, <1>3, <1>4 DEF Prepared, Stopped, Captured, SetAside, Placed, PutBack, SameSchema, Holding, Early, Cutover, Rollback

LEMMA RefuseKnows ==
  ASSUME TypeOK, HostOK, NEW j \in Jobs, Prepared(j), Refuse(j)
  PROVE  Prepared(j)' /\ HostOK'
<1>1. worker'[j] = "ended" /\ UNCHANGED <<host, before, backup>>
  BY DEF TypeOK, Refuse, Ends, Goes
<1>. QED
  BY <1>1, QuietPrepared, HostSame

(* What a worker past the lock does leaves the other jobs alone.           *)
LEMMA WorkerFrame ==
  ASSUME TypeOK, NEW j \in Jobs, WorkerStep(j), NEW k \in Jobs \ {j}
  PROVE  worker'[k] = worker[k] /\ backup'[k] = backup[k]
<1>1. worker'[k] = worker[k]
  BY WorkerMoves DEF TypeOK
<1>2. backup \in [Jobs -> AnyDirectories]
  BY DEF TypeOK
<1>3. CASE \E m \in Members(j.app) : MoveOut(j, m)
  BY <1>1, <1>2, <1>3 DEF MoveOut
<1>4. CASE MoveBack(j)
  BY <1>1, <1>2, <1>4 DEF MoveBack
<1>5. CASE UNCHANGED backup
  BY <1>1, <1>5
<1>. QED
  BY <1>3, <1>4, <1>5 DEF WorkerStep, Acquire, LockTimesOut, Capture, Stage, Refuse, Stop, Merge, SwapEnds, Restart, Check, Halt, CheckSchema, SwitchBack, Relaunch, Recheck, MoveIn

LEMMA WorkerPrepared ==
  ASSUME DeployInv, NEW j \in Jobs, WorkerStep(j)
  PROVE  (\A k \in Jobs : Prepared(k)') /\ HostOK' /\ OneWorker'
<1>1. TypeOK /\ OneWorker /\ HostOK /\ Prepared(j) /\ \A k \in Jobs : Prepared(k)
  BY DEF DeployInv, HostOK
<1>2. worker \in [Jobs -> {"none", "waiting", "ended"} \cup Holding]
  BY <1>1 DEF TypeOK
<1>3. CASE Acquire(j) \/ LockTimesOut(j)
  <2>1. /\ UNCHANGED <<host, before, backup>> /\ worker[j] = "waiting"
        /\ \A k \in Jobs \ {j} : worker'[k] = worker[k]
        /\ worker'[j] = "ended" \/ (worker'[j] = "verify" /\ LockFree(j))
    BY <1>2, <1>3 DEF Acquire, LockTimesOut, Works, Goes
  <2>2. \A k \in Jobs : Prepared(k)'
    <3>. SUFFICES ASSUME NEW k \in Jobs PROVE Prepared(k)'
      OBVIOUS
    <3>1. \/ worker'[k] = worker[k] \/ worker'[k] = "ended"
          \/ worker[k] = "waiting" /\ worker'[k] = "verify"
      BY <2>1
    <3>2. Prepared(k) /\ UNCHANGED <<host, before, backup>>
      BY <1>1, <2>1
    <3>. QED
      BY <3>1, <3>2, QuietPrepared
  <2>3. OneWorker'
    <3>1. "ended" \notin Holding
      BY DEF Holding, Early, Cutover, Rollback
    <3>2. CASE worker'[j] = "ended"
      BY <1>1, <2>1, <3>1, <3>2 DEF OneWorker
    <3>3. CASE LockFree(j)
      BY <1>1, <2>1, <3>3 DEF OneWorker, LockFree
    <3>. QED
      BY <2>1, <3>2, <3>3
  <2>. QED
    BY <1>1, <2>1, <2>2, <2>3, HostSame
<1>4. CASE ~(Acquire(j) \/ LockTimesOut(j))
  <2>1. worker[j] \in Holding
    BY <1>4 DEF WorkerStep, Capture, Stage, Refuse, Stop, Merge, SwapEnds, Restart, Check, Halt, CheckSchema, SwitchBack, MoveBack, Relaunch, Recheck, MoveIn, MoveOut, Works, Holding, Early, Cutover, Rollback
  <2>2. Prepared(j)' /\ HostOK'
    BY <1>1, <1>4, HostSame, CaptureKnows, StageKnows, RefuseKnows, StopKnows, MergeKnows, SwapEndsKnows, RestartKnows, CheckKnows, HaltKnows, CheckSchemaKnows, SwitchBackKnows, MoveBackKnows, RelaunchKnows, RecheckKnows, MoveInKnows, MoveOutKnows DEF WorkerStep, Stage
  <2>3. OneWorker'
    BY <1>1, <2>1, WorkerFrame DEF OneWorker
  <2>. QED
    BY <1>1, <2>1, <2>2, <2>3, WorkerFrame, PreparedFrame
<1>. QED
  BY <1>3, <1>4

(* A requester, a supervisor, a push or a kill does not touch the host.    *)
LEMMA QuietStep ==
  ASSUME DeployInv, UNCHANGED <<host, before, backup>>,
         \A k \in Jobs : \/ worker'[k] = worker[k] \/ worker'[k] = "ended"
                         \/ worker[k] = "none" /\ worker'[k] = "waiting"
  PROVE  (\A k \in Jobs : Prepared(k)') /\ HostOK' /\ OneWorker'
<1>1. HostOK'
  BY HostSame DEF DeployInv, HostOK
<1>2. \A k \in Jobs : Prepared(k)'
  <2>. SUFFICES ASSUME NEW k \in Jobs PROVE Prepared(k)'
    OBVIOUS
  <2>1. Prepared(k)
    BY DEF DeployInv
  <2>. QED
    BY <2>1, QuietPrepared
<1>3. OneWorker'
  <2>1. "ended" \notin Holding /\ "waiting" \notin Holding
    BY DEF Holding, Early, Cutover, Rollback
  <2>. QED
    BY <2>1 DEF DeployInv, OneWorker
<1>. QED
  BY <1>1, <1>2, <1>3

LEMMA RepairStep ==
  ASSUME DeployInv, NEW a \in Apps, Repair(a)
  PROVE  (\A k \in Jobs : Prepared(k)') /\ HostOK' /\ OneWorker'
<1>1. UNCHANGED <<head, worker, before, backup>> /\ \A k \in Jobs : worker[k] \notin Holding
  BY DEF Repair, procs
<1>2. \A k \in Jobs : Prepared(k)'
  BY <1>1, OthersPrepared DEF DeployInv
<1>3. OneWorker'
  BY <1>1 DEF OneWorker
<1>4. /\ head \in [Apps -> Commits] /\ run \in [Apps -> 0..MaxSha] /\ schema \in Commits
      /\ live \in [Apps -> AnyDirectories]
  BY DEF DeployInv, TypeOK
<1>5. /\ \A m \in Members(a) : live'[a][m] = head[a]
      /\ \A b \in Apps \ {a} : live'[b] = live[b] /\ run'[b] = run[b]
      /\ run'[a] = head[a]
      /\ a # "backend" => UNCHANGED schema
      /\ UNCHANGED schema \/ schema' = head[a]
      /\ a = "backend" => head[a] >= schema
  BY <1>4 DEF Repair, Start
<1>6. HostOK'
  BY <1>1, <1>4, <1>5 DEF DeployInv, HostOK, RunningWhole, SchemaServed, Whole, Apps, Commits
<1>. QED
  BY <1>2, <1>3, <1>6

LEMMA DeployInit == Init => DeployInv
<1>. SUFFICES ASSUME Init PROVE DeployInv
  OBVIOUS
<1>1. TypeOK
  BY TypeInit
<1>2. WatchedOK
  BY DEF Init, EachJob, WatchedOK, Watched
<1>3. OneWorker
  BY DEF Init, EachJob, OneWorker, Holding, Early, Cutover, Rollback
<1>4. RunningWhole /\ SchemaServed
  BY DEF Init, RunningWhole, SchemaServed, Whole, Apps
<1>5. \A j \in Jobs : Prepared(j)
  BY DEF Init, EachJob, Prepared, Stopped, Captured, SetAside, Placed, PutBack, SameSchema, Holding, Early, Cutover, Rollback
<1>. QED
  BY <1>1, <1>2, <1>3, <1>4, <1>5 DEF DeployInv

(* Every step keeps the invariant.                                         *)
LEMMA DeployStep == DeployInv /\ [Next]_vars => DeployInv'
<1>. SUFFICES ASSUME DeployInv, [Next]_vars PROVE DeployInv'
  OBVIOUS
<1>1. TypeOK' /\ WatchedOK'
  BY TypeStep, WatchedStep DEF DeployInv, Prepared
<1>2. worker \in [Jobs -> {"none", "waiting", "ended"} \cup Holding]
  BY DEF DeployInv, TypeOK
<1>3. (\A k \in Jobs : Prepared(k)') /\ HostOK' /\ OneWorker'
  <2>1. ASSUME NEW j \in Jobs, WorkerStep(j)
        PROVE  (\A k \in Jobs : Prepared(k)') /\ HostOK' /\ OneWorker'
    BY <2>1, WorkerPrepared
  <2>2. ASSUME NEW j \in Jobs, Spawn(j)
        PROVE  (\A k \in Jobs : Prepared(k)') /\ HostOK' /\ OneWorker'
    <3>1. worker[j] = "none"
      BY <2>2 DEF Spawn, DeployInv, WatchedOK, Watched
    <3>. QED
      BY <1>2, <2>2, <3>1, QuietStep DEF Spawn
  <2>3. ASSUME NEW j \in Jobs, KillWorker(j)
        PROVE  (\A k \in Jobs : Prepared(k)') /\ HostOK' /\ OneWorker'
    BY <1>2, <2>3, QuietStep DEF KillWorker, Kill
  <2>4. ASSUME NEW j \in Jobs,
               \/ Create(j) \/ SeesSupervisorGone(j) \/ RequesterMarks(j) \/ RequesterLeaves(j)
               \/ SeesWorkerGone(j) \/ SupervisorMarks(j) \/ KillRequester(j) \/ KillSupervisor(j)
        PROVE  (\A k \in Jobs : Prepared(k)') /\ HostOK' /\ OneWorker'
    <3>1. UNCHANGED <<host, before, backup, worker>>
      BY <2>4 DEF Create, SeesSupervisorGone, RequesterMarks, RequesterLeaves, SeesWorkerGone,
                  SupervisorMarks, KillRequester, KillSupervisor, Kill
    <3>. QED
      BY <3>1, QuietStep
  <2>5. ASSUME NEW a \in Apps, Push(a)
        PROVE  (\A k \in Jobs : Prepared(k)') /\ HostOK' /\ OneWorker'
    BY <2>5, QuietStep DEF Push, procs
  <2>6. ASSUME NEW a \in Apps, Repair(a)
        PROVE  (\A k \in Jobs : Prepared(k)') /\ HostOK' /\ OneWorker'
    BY <2>6, RepairStep
  <2>7. ASSUME UNCHANGED vars
        PROVE  (\A k \in Jobs : Prepared(k)') /\ HostOK' /\ OneWorker'
    BY <2>7, QuietStep DEF vars, procs
  <2>. QED
    BY <2>1, <2>2, <2>3, <2>4, <2>5, <2>6, <2>7 DEF Next
<1>. QED
  BY <1>1, <1>3 DEF DeployInv, HostOK

(* The inductive invariant of host-deploy.cjs: what the worker past the    *)
(* lock may rely on, and who is left to end a job.                         *)
THEOREM DeployInvariant == Spec => []DeployInv
  BY DeployInit, DeployStep, PTL DEF Spec

(* The variables have their types, whatever happens to the processes.      *)
THEOREM TypeCorrect == Spec => []TypeOK
  BY DeployInvariant, PTL DEF DeployInv

(* One worker at most is past deployment.lock.                             *)
THEOREM OneWorkerAlways == Spec => []OneWorker
  BY DeployInvariant, PTL DEF DeployInv

(* What runs is one whole commit, for any number of jobs, commits and      *)
(* kills: the cutover and the rollback of deploy() never start a mixture.  *)
THEOREM RunningWholeAlways == Spec => []RunningWhole
  BY DeployInvariant, PTL DEF DeployInv

(* The backend never runs code older than the live schema: the schema is   *)
(* compared before the rollback starts the previous code.                  *)
THEOREM SchemaServedAlways == Spec => []SchemaServed
  BY DeployInvariant, PTL DEF DeployInv

(* A job that could refuse others has somebody to end it, unless its       *)
(* requester or its supervisor was killed.                                 *)
THEOREM NoneStrandedAlways == Spec => []NoneStranded
<1>1. DeployInv => NoneStranded
  BY DEF DeployInv, TypeOK, WatchedOK, Watched, NoneStranded, Final, Verdicts
<1>. QED
  BY <1>1, DeployInvariant, PTL

(* Which steps of the worker write which verdict.                          *)
LEMMA WorkerVerdicts ==
  ASSUME TypeOK, NEW j \in Jobs, WorkerStep(j), status'[j] # status[j],
         status'[j] \in {"success", "restored", "manual"}
  PROVE  \/ status'[j] = "success" /\ (Capture(j) \/ Check(j))
         \/ status'[j] = "restored" /\ Recheck(j)
         \/ status'[j] = "manual" /\ CheckSchema(j)
<1>1. status \in [Jobs -> Verdicts \cup {"none", "queued", "running"}]
  BY DEF TypeOK
<1>2. CASE \/ Stage(j) \/ LockTimesOut(j) \/ Stop(j) \/ Merge(j) \/ SwapEnds(j) \/ Restart(j)
           \/ \E m \in Members(j.app) : MoveOut(j, m) \/ MoveIn(j, m)
  BY <1>2 DEF Stage, LockTimesOut, Stop, Merge, SwapEnds, Restart, MoveOut, MoveIn, files
<1>3. CASE Acquire(j) \/ Refuse(j) \/ Halt(j) \/ SwitchBack(j) \/ MoveBack(j) \/ Relaunch(j)
  BY <1>1, <1>3 DEF Acquire, Refuse, Halt, SwitchBack, MoveBack, Relaunch, Ends, EndsOr, files
<1>4. CASE Capture(j) \/ Check(j)
  BY <1>1, <1>4 DEF Capture, Check, Ends, files
<1>5. CASE Recheck(j)
  BY <1>1, <1>5 DEF Recheck, Ends
<1>6. CASE CheckSchema(j)
  BY <1>1, <1>6 DEF CheckSchema, Ends, files
<1>. QED
  BY <1>2, <1>3, <1>4, <1>5, <1>6 DEF WorkerStep

(* Nobody but a job's own worker writes any of them.                       *)
LEMMA OwnVerdicts ==
  ASSUME TypeOK, Next, NEW j \in Jobs, status'[j] # status[j],
         status'[j] \in {"success", "restored", "manual"}
  PROVE  WorkerStep(j)
<1>1. status \in [Jobs -> Verdicts \cup {"none", "queued", "running"}]
  BY DEF TypeOK
<1>2. ASSUME NEW k \in Jobs, WorkerStep(k) PROVE k = j
  BY <1>1, <1>2, WorkerMoves
<1>3. ASSUME NEW k \in Jobs,
             \/ Create(k) \/ Spawn(k) \/ SeesSupervisorGone(k) \/ RequesterMarks(k) \/ RequesterLeaves(k)
             \/ SeesWorkerGone(k) \/ SupervisorMarks(k) \/ KillRequester(k) \/ KillSupervisor(k)
             \/ KillWorker(k)
      PROVE  FALSE
  BY <1>1, <1>3 DEF Create, Spawn, SeesSupervisorGone, RequesterMarks, RequesterLeaves, SeesWorkerGone,
                  SupervisorMarks, KillRequester, KillSupervisor, KillWorker, Kill, files
<1>4. ASSUME NEW a \in Apps, Push(a) \/ Repair(a) PROVE FALSE
  BY <1>4 DEF Push, Repair, files
<1>. QED
  BY <1>2, <1>3, <1>4 DEF Next

(* A verdict of the worker is true of the host when it is written.         *)
LEMMA VerdictStep ==
  ASSUME DeployInv, [Next]_vars, NEW j \in Jobs
  PROVE  /\ Verdict(j, "success") => run'[j.app] = j.sha /\ Whole(j.app, j.sha)'
         /\ Verdict(j, "restored") =>
              LET c == before[j].head[j.app] IN run'[j.app] = c /\ Whole(j.app, c)'
         /\ Verdict(j, "manual") => run'[j.app] = 0
         /\ Verdict(j, "success") \/ Verdict(j, "restored") =>
              LET o == Other(j.app) IN run'[o] = before'[j].run[o]
<1>1. TypeOK /\ HostOK /\ Prepared(j)
  BY DEF DeployInv, HostOK
<1>2. /\ status \in [Jobs -> Verdicts \cup {"none", "queued", "running"}]
      /\ before \in [Jobs -> Snapshots \cup {None}]
  BY <1>1 DEF TypeOK
<1>3. ASSUME NEW v \in {"success", "restored", "manual"}, Verdict(j, v)
      PROVE  status'[j] # status[j] /\ status'[j] = v /\ WorkerStep(j)
  <2>1. status'[j] # status[j] /\ status'[j] = v
    BY <1>3 DEF Verdict
  <2>2. Next
    BY <2>1 DEF vars, files
  <2>. QED
    BY <1>1, <2>1, <2>2, OwnVerdicts
<1>4. ASSUME AllOnline, NEW c, head[j.app] = c
      PROVE  run[j.app] = c /\ Whole(j.app, c)
  BY <1>1, <1>4, Names DEF HostOK, RunningWhole, SchemaServed, Whole, AllOnline
<1>5. CASE Verdict(j, "success")
  <2>1. status'[j] # status[j] /\ status'[j] = "success" /\ (Capture(j) \/ Check(j))
    BY <1>1, <1>3, <1>5, WorkerVerdicts
  <2>2. /\ UNCHANGED host /\ AllOnline /\ head[j.app] = j.sha
        /\ run[Other(j.app)] = before'[j].run[Other(j.app)]
    <3>1. CASE Capture(j)
      BY <1>2, <2>1, <3>1 DEF Capture, Snapshot, files
    <3>2. CASE Check(j)
      BY <1>2, <2>1, <3>2 DEF Check, OtherAsBefore, files
    <3>. QED
      BY <2>1, <3>1, <3>2
  <2>3. run[j.app] = j.sha /\ Whole(j.app, j.sha)
    BY <1>4, <2>2
  <2>. QED
    BY <2>1, <2>2, <2>3 DEF Verdict, Whole, host
<1>6. CASE Verdict(j, "restored")
  <2>1. status'[j] # status[j] /\ status'[j] = "restored" /\ Recheck(j)
    BY <1>1, <1>3, <1>6, WorkerVerdicts
  <2>2. /\ UNCHANGED <<host, before>> /\ AllOnline /\ head[j.app] = before[j].head[j.app]
        /\ run[Other(j.app)] = before[j].run[Other(j.app)]
    BY <1>2, <2>1 DEF Recheck, OtherAsBefore, Ends
  <2>3. run[j.app] = before[j].head[j.app] /\ Whole(j.app, before[j].head[j.app])
    BY <1>4, <2>2
  <2>. QED
    BY <2>1, <2>2, <2>3 DEF Verdict, Whole, host
<1>7. CASE Verdict(j, "manual")
  <2>1. status'[j] = "manual" /\ CheckSchema(j)
    BY <1>1, <1>3, <1>7, WorkerVerdicts
  <2>2. run[j.app] = 0 /\ UNCHANGED host
    BY <1>1, <2>1 DEF CheckSchema, Works, Prepared, Stopped
  <2>. QED
    BY <2>1, <2>2 DEF Verdict, host
<1>. QED
  BY <1>5, <1>6, <1>7

(* The verdicts written by deploy() are true of the host, for any number of *)
(* jobs and kills.                                                         *)
THEOREM VerdictTrueAlways == Spec => VerdictTrue
<1>1. DeployInv /\ [Next]_vars =>
        [\A j \in Jobs :
           /\ Verdict(j, "success") => run'[j.app] = j.sha /\ Whole(j.app, j.sha)'
           /\ Verdict(j, "restored") =>
                LET c == before[j].head[j.app] IN run'[j.app] = c /\ Whole(j.app, c)'
           /\ Verdict(j, "manual") => run'[j.app] = 0
           /\ Verdict(j, "success") \/ Verdict(j, "restored") =>
                LET o == Other(j.app) IN run'[o] = before'[j].run[o]]_vars
  BY VerdictStep
<1>. QED
  BY <1>1, DeployInvariant, PTL DEF Spec, VerdictTrue
=============================================================================
