----------------------------- MODULE Deployment -----------------------------
(***************************************************************************)
(* The host side of automatic deployment (deploy/automation/               *)
(* host-deploy.cjs): a requester admits one job of an application, a       *)
(* detached supervisor waits for the job's worker, and the worker, under   *)
(* the lock that both applications share, swaps the live code or puts the  *)
(* previous code back.  Every one of these processes can be killed, and a  *)
(* command that reports a failure may have taken effect.                   *)
(*                                                                         *)
(* A commit is its place on the default branch.  A directory that npm      *)
(* built (node_modules, build) is known by the commit it was built for.    *)
(***************************************************************************)
EXTENDS Integers, FiniteSets

CONSTANTS
  None,
  MaxSha,      \* bound: commits on each default branch
  Attempts,    \* attempts of a CI run
  MaxJobs,     \* bound: jobs ever created
  MaxKills     \* bound: processes killed

ASSUME DeploymentAssumption ==
  /\ MaxSha \in Nat \ {0}
  /\ MaxJobs \in Nat /\ MaxKills \in Nat

VARIABLES
  origin,      \* the head of each default branch
  head,        \* the commit checked out
  live,        \* the commit each live directory was built for, 0: no directory
  run,         \* the commit the PM2 process was started with, 0: stopped
  schema,      \* the newest commit that changed the live database's schema
  status,      \* status.json of each job
  active,      \* active-<app>.json
  requester, supervisor, worker,  \* the processes of each job
  before,      \* what the worker captured
  backup,      \* the directories it moved aside
  kills

host == <<head, live, run, schema>>
procs == <<requester, supervisor, worker>>
files == <<status, active>>
vars == <<origin, host, files, procs, before, backup, kills>>

Apps == {"frontend", "backend"}
Other(a) == IF a = "frontend" THEN "backend" ELSE "frontend"
Members(a) == IF a = "frontend" THEN {"node_modules", "build"} ELSE {"node_modules"}
\* Commit 1 is deployed at the start.
Jobs == [app : Apps, sha : 2..MaxSha, attempt : Attempts]

Verdicts == {"success", "restored", "manual", "failed"}
Final(j) == status[j] \in Verdicts

Early == {"verify", "stage"}
Cutover == {"stop", "merge", "swap", "restart", "check"}
Rollback == {"halt", "schema", "switch", "unswap", "relaunch", "recheck"}
Holding == Early \cup Cutover \cup Rollback
-----------------------------------------------------------------------------
(* The checks of the requester and the worker.                             *)

\* The request is for the head of the default branch, a descendant of HEAD.
VerifySource(j) == origin[j.app] = j.sha /\ head[j.app] <= j.sha

\* Capture refuses a host on which one of the two processes is not online.
AllOnline == \A a \in Apps : run[a] # 0

\* Mutant of LockFree: one job of an application is enough to keep workers apart.
LockFreeIfActive(j) == active[j.app] = j

\* deployment.lock, which the worker inherits from flock and holds until it dies.
LockFree(j) == \A k \in Jobs : worker[k] \notin Holding

AdmissionFree(j) == \A k \in Jobs : k.app = j.app => requester[k] = "none"

\* deployment_already_active
NoOtherActive(j) == \A k \in Jobs \ {j} : active[j.app] = k => Final(k)

Snapshot == [head |-> head, run |-> run, schema |-> schema]
OtherAsBefore(j) ==
  LET o == Other(j.app) IN /\ head[o] = before[j].head[o]
                           /\ run[o] = before[j].run[o]

\* Mutant of SchemaKept: only a deployment of the frontend compares the schema.
SchemaKeptElsewhere(j) == j.app = "backend" \/ schema = before[j].schema

SchemaKept(j) == schema = before[j].schema

Whole(a, c) == head[a] = c /\ \A m \in Members(a) : live[a][m] = c

\* pm2 starts what is checked out; the backend may change the schema as it starts.
Start(a) ==
  /\ run' = [run EXCEPT ![a] = head[a]]
  /\ \/ UNCHANGED schema
     \/ a = "backend" /\ head[a] > schema /\ schema' = head[a]
-----------------------------------------------------------------------------
(* Admission: one requester of an application at a time.  A request for a  *)
(* job that exists only watches it, and is left out.                       *)

Created == Cardinality({j \in Jobs : status[j] # "none"})

Create(j) ==
  /\ AdmissionFree(j) /\ VerifySource(j) /\ NoOtherActive(j)
  /\ status[j] = "none" /\ Created < MaxJobs
  /\ status' = [status EXCEPT ![j] = "queued"]
  /\ active' = [active EXCEPT ![j.app] = j]
  /\ requester' = [requester EXCEPT ![j] = "spawning"]
  /\ UNCHANGED <<origin, host, supervisor, worker, before, backup, kills>>

Spawn(j) ==
  /\ requester[j] = "spawning"
  /\ \/ /\ requester' = [requester EXCEPT ![j] = "parent"]
        /\ supervisor' = [supervisor EXCEPT ![j] = "alive"]
        /\ worker' = [worker EXCEPT ![j] = "waiting"]
     \/ /\ requester' = [requester EXCEPT ![j] = "marking"]
        /\ UNCHANGED <<supervisor, worker>>
  /\ UNCHANGED <<origin, host, files, before, backup, kills>>

\* failedIfUnfinished of the requester that spawned the supervisor: it has read
\* the status, and writes it in a step of its own.
SeesSupervisorGone(j) ==
  /\ requester[j] = "parent" /\ supervisor[j] = "killed" /\ ~Final(j)
  /\ requester' = [requester EXCEPT ![j] = "marking"]
  /\ UNCHANGED <<origin, host, files, supervisor, worker, before, backup, kills>>

RequesterMarks(j) ==
  /\ requester[j] = "marking"
  /\ requester' = [requester EXCEPT ![j] = "none"]
  /\ status' = [status EXCEPT ![j] = "failed"]
  /\ UNCHANGED <<origin, host, active, supervisor, worker, before, backup, kills>>

\* The job has ended, the session is lost or its hour is over.
RequesterLeaves(j) ==
  /\ requester[j] = "parent"
  /\ requester' = [requester EXCEPT ![j] = "none"]
  /\ UNCHANGED <<origin, host, files, supervisor, worker, before, backup, kills>>
-----------------------------------------------------------------------------
(* The supervisor: waits for flock and the worker.                         *)

\* Mutant of Unfinished: a job that never left the queue.
UnfinishedQueued(j) == status[j] = "queued"

Unfinished(j) == ~Final(j)

SeesWorkerGone(j) ==
  /\ supervisor[j] = "alive" /\ worker[j] = "ended"
  /\ supervisor' = [supervisor EXCEPT ![j] = IF Unfinished(j) THEN "marking" ELSE "done"]
  /\ UNCHANGED <<origin, host, files, requester, worker, before, backup, kills>>

SupervisorMarks(j) ==
  /\ supervisor[j] = "marking"
  /\ supervisor' = [supervisor EXCEPT ![j] = "done"]
  /\ status' = [status EXCEPT ![j] = "failed"]
  /\ UNCHANGED <<origin, host, active, requester, worker, before, backup, kills>>
-----------------------------------------------------------------------------
(* The worker, up to the point where it touches the live application.      *)

Goes(j, pc) == worker' = [worker EXCEPT ![j] = pc]
Ends(j, verdict) ==
  /\ Goes(j, "ended")
  /\ status' = [status EXCEPT ![j] = verdict]
  /\ UNCHANGED active
Works(j, pc) == worker[j] = pc /\ UNCHANGED <<origin, requester, supervisor, kills>>

Acquire(j) ==
  /\ Works(j, "waiting") /\ LockFree(j)
  /\ Goes(j, "verify")
  /\ status' = [status EXCEPT ![j] = "running"]
  /\ UNCHANGED <<host, active, before, backup>>

\* flock --wait 1800 gives up: no worker was started.
LockTimesOut(j) ==
  /\ Works(j, "waiting") /\ Goes(j, "ended")
  /\ UNCHANGED <<host, files, before, backup>>

Capture(j) ==
  /\ Works(j, "verify") /\ VerifySource(j) /\ AllOnline
  /\ before' = [before EXCEPT ![j] = Snapshot]
  /\ IF head[j.app] = j.sha THEN Ends(j, "success")  \* already deployed and healthy
                            ELSE Goes(j, "stage") /\ UNCHANGED files
  /\ UNCHANGED <<host, backup>>

\* The archive, npm ci, the tests, the schema rehearsal and the build, and the
\* final preflight.
Stage(j) ==
  /\ Works(j, "stage") /\ VerifySource(j)
  /\ AllOnline /\ Snapshot = before[j]
  /\ Goes(j, "stop")
  /\ UNCHANGED <<host, files, before, backup>>

\* Any check or command before the cutover may fail.
Refuse(j) ==
  /\ worker[j] \in Early /\ Works(j, worker[j])
  /\ Ends(j, "failed")
  /\ UNCHANGED <<host, before, backup>>
-----------------------------------------------------------------------------
(* The cutover.  A command of PM2 or Git that fails may have had its        *)
(* effect; either way the worker rolls back.                               *)

Advances(j, pc) == Goes(j, pc) \/ Goes(j, "halt")

Stop(j) ==
  /\ Works(j, "stop")
  /\ \/ run' = [run EXCEPT ![j.app] = 0] /\ Advances(j, "merge")
     \/ UNCHANGED run /\ Goes(j, "halt")
  /\ UNCHANGED <<head, live, schema, files, before, backup>>

Merge(j) ==
  /\ Works(j, "merge")
  /\ \/ head' = [head EXCEPT ![j.app] = j.sha] /\ Advances(j, "swap")
     \/ UNCHANGED head /\ Goes(j, "halt")
  /\ UNCHANGED <<live, run, schema, files, before, backup>>

\* The two renames of a member: out of the live directory, and the staged one in.
MoveOut(j, m) ==
  /\ Works(j, "swap")
  /\ backup[j][m] = 0 /\ \A n \in Members(j.app) : live[j.app][n] # 0
  /\ backup' = [backup EXCEPT ![j][m] = live[j.app][m]]
  /\ live' = [live EXCEPT ![j.app][m] = 0]
  /\ UNCHANGED <<head, run, schema, files, worker, before>>

MoveIn(j, m) ==
  /\ Works(j, "swap") /\ live[j.app][m] = 0
  /\ live' = [live EXCEPT ![j.app][m] = j.sha]
  /\ UNCHANGED <<head, run, schema, files, worker, before, backup>>

SwapEnds(j) ==
  /\ Works(j, "swap")
  /\ \/ /\ \A m \in Members(j.app) : backup[j][m] # 0 /\ live[j.app][m] # 0
        /\ Goes(j, "restart")
     \/ Goes(j, "halt")
  /\ UNCHANGED <<host, files, before, backup>>

Restart(j) ==
  /\ Works(j, "restart")
  /\ \/ Start(j.app) /\ Advances(j, "check")
     \/ UNCHANGED <<run, schema>> /\ Goes(j, "halt")
  /\ UNCHANGED <<head, live, files, before, backup>>

\* Health, the schema after the startup, and what capture finds now.
Check(j) ==
  /\ Works(j, "check")
  /\ \/ /\ SchemaKept(j) /\ OtherAsBefore(j)
        /\ head[j.app] = j.sha /\ AllOnline
        /\ Ends(j, "success")
     \/ Goes(j, "halt") /\ UNCHANGED files
  /\ UNCHANGED <<host, before, backup>>
-----------------------------------------------------------------------------
(* The rollback.  A step of it that fails ends the job where it is.        *)

EndsOr(j, pc) ==
  \/ Goes(j, pc) /\ UNCHANGED files
  \/ Ends(j, "failed")

\* Mutant of Halted: the second stop is not waited for.
HaltedAnyway(j) == TRUE

Halted(j) == run'[j.app] = 0

Halt(j) ==
  /\ Works(j, "halt")
  /\ run' \in {run, [run EXCEPT ![j.app] = 0]}
  /\ IF Halted(j) THEN EndsOr(j, "schema") ELSE Ends(j, "failed")
  /\ UNCHANGED <<head, live, schema, before, backup>>

\* The database is unreadable, or its schema or the environment file changed.
CheckSchema(j) ==
  /\ Works(j, "schema")
  /\ \/ SchemaKept(j) /\ Goes(j, "switch") /\ UNCHANGED files
     \/ Ends(j, "manual")
  /\ UNCHANGED <<host, before, backup>>

SwitchBack(j) ==
  /\ Works(j, "switch")
  /\ head' = [head EXCEPT ![j.app] = before[j].head[j.app]]
  /\ EndsOr(j, "unswap")
  /\ UNCHANGED <<live, run, schema, before, backup>>

\* Mutant of Returned: a member is put back only where the candidate's is missing.
ReturnedIfMissing(j) ==
  [m \in Members(j.app) |->
    IF backup[j][m] # 0 /\ live[j.app][m] = 0 THEN backup[j][m] ELSE live[j.app][m]]

\* The members that were moved aside go back; the others never left.
Returned(j) ==
  [m \in Members(j.app) |-> IF backup[j][m] # 0 THEN backup[j][m] ELSE live[j.app][m]]

MoveBack(j) ==
  /\ Works(j, "unswap")
  /\ live' = [live EXCEPT ![j.app] = Returned(j)]
  /\ backup' = [backup EXCEPT ![j] = [m \in Members(j.app) |-> 0]]
  /\ EndsOr(j, "relaunch")
  /\ UNCHANGED <<head, run, schema, before>>

Relaunch(j) ==
  /\ Works(j, "relaunch")
  /\ \/ Start(j.app) /\ EndsOr(j, "recheck")
     \/ UNCHANGED <<run, schema>> /\ Ends(j, "failed")
  /\ UNCHANGED <<head, live, before, backup>>

Recheck(j) ==
  /\ Works(j, "recheck")
  /\ \/ /\ OtherAsBefore(j) /\ head[j.app] = before[j].head[j.app] /\ AllOnline
        /\ Ends(j, "restored")
     \/ Ends(j, "failed")
  /\ UNCHANGED <<host, before, backup>>
-----------------------------------------------------------------------------
(* What happens around them.                                               *)

Push(a) ==
  /\ origin[a] < MaxSha
  /\ origin' = [origin EXCEPT ![a] = @ + 1]
  /\ UNCHANGED <<host, files, procs, before, backup, kills>>

Kill ==
  /\ kills < MaxKills /\ kills' = kills + 1
  /\ UNCHANGED <<origin, host, files, before, backup>>

KillRequester(j) ==
  /\ requester[j] = "spawning" /\ Kill
  /\ requester' = [requester EXCEPT ![j] = "none"]
  /\ UNCHANGED <<supervisor, worker>>

KillSupervisor(j) ==
  /\ supervisor[j] \in {"alive", "marking"} /\ Kill
  /\ supervisor' = [supervisor EXCEPT ![j] = "killed"]
  /\ UNCHANGED <<requester, worker>>

\* The operating system releases the lock.
KillWorker(j) ==
  /\ worker[j] \in Holding /\ Kill
  /\ worker' = [worker EXCEPT ![j] = "ended"]
  /\ UNCHANGED <<requester, supervisor>>

\* An operator rebuilds a stopped application at its checkout and starts it.
Repair(a) ==
  /\ run[a] = 0 /\ \A j \in Jobs : worker[j] \notin Holding
  /\ head[a] >= schema \/ a = "frontend"
  /\ live' = [live EXCEPT ![a] = [m \in Members(a) |-> head[a]]]
  /\ Start(a)
  /\ UNCHANGED <<origin, head, files, procs, before, backup, kills>>
-----------------------------------------------------------------------------
EachJob(value) == [j \in Jobs |-> value]

Init ==
  /\ origin = [a \in Apps |-> 1] /\ head = [a \in Apps |-> 1]
  /\ live = [a \in Apps |-> [m \in Members(a) |-> 1]]
  /\ run = [a \in Apps |-> 1] /\ schema = 1
  /\ status = EachJob("none") /\ active = [a \in Apps |-> None]
  /\ requester = EachJob("none") /\ supervisor = EachJob("none")
  /\ worker = EachJob("none")
  /\ before = EachJob(None)
  /\ backup = [j \in Jobs |-> [m \in Members(j.app) |-> 0]]
  /\ kills = 0

WorkerStep(j) ==
  \/ Acquire(j) \/ LockTimesOut(j)
  \/ Capture(j) \/ Stage(j) \/ Refuse(j)
  \/ Stop(j) \/ Merge(j) \/ SwapEnds(j) \/ Restart(j) \/ Check(j)
  \/ \E m \in Members(j.app) : MoveOut(j, m) \/ MoveIn(j, m)
  \/ Halt(j) \/ CheckSchema(j) \/ SwitchBack(j) \/ MoveBack(j)
  \/ Relaunch(j) \/ Recheck(j)

Next ==
  \/ \E j \in Jobs :
       \/ Create(j) \/ Spawn(j)
       \/ SeesSupervisorGone(j) \/ RequesterMarks(j) \/ RequesterLeaves(j)
       \/ SeesWorkerGone(j) \/ SupervisorMarks(j) \/ WorkerStep(j)
       \/ KillRequester(j) \/ KillSupervisor(j) \/ KillWorker(j)
  \/ \E a \in Apps : Push(a) \/ Repair(a)

Spec == Init /\ [][Next]_vars
-----------------------------------------------------------------------------
Commits == 1..MaxSha
Snapshots == [head : [Apps -> Commits], run : [Apps -> Commits], schema : Commits]
Directories(a) == [Members(a) -> 0..MaxSha]
AnyDirectories == UNION {Directories(a) : a \in Apps}

\* Every variable has its type.
TypeOK ==
  /\ origin \in [Apps -> Commits] /\ head \in [Apps -> Commits]
  /\ live \in [Apps -> AnyDirectories] /\ \A a \in Apps : live[a] \in Directories(a)
  /\ run \in [Apps -> 0..MaxSha] /\ schema \in Commits
  /\ status \in [Jobs -> Verdicts \cup {"none", "queued", "running"}]
  /\ active \in [Apps -> Jobs \cup {None}]
  /\ requester \in [Jobs -> {"none", "spawning", "parent", "marking"}]
  /\ supervisor \in [Jobs -> {"none", "alive", "marking", "done", "killed"}]
  /\ worker \in [Jobs -> {"none", "waiting", "ended"} \cup Holding]
  /\ before \in [Jobs -> Snapshots \cup {None}]
  /\ backup \in [Jobs -> AnyDirectories] /\ \A j \in Jobs : backup[j] \in Directories(j.app)
  /\ kills \in 0..MaxKills

\* Whatever failed or was killed, a process that runs finds on disk the checkout,
\* the dependencies and the build of one and the same commit.
RunningWhole == \A a \in Apps : run[a] # 0 => Whole(a, run[a])

\* The backend never runs code older than the schema of the live database.
SchemaServed == run["backend"] # 0 => run["backend"] >= schema

\* A verdict of the worker is true of the host when it is written: a success of
\* the candidate, a restoration of what was captured, and for a manual recovery
\* that the application is stopped; the other application is as it was captured.
Verdict(j, verdict) == status[j] # verdict /\ status'[j] = verdict
VerdictTrue ==
  [][\A j \in Jobs :
       /\ Verdict(j, "success") => run'[j.app] = j.sha /\ Whole(j.app, j.sha)'
       /\ Verdict(j, "restored") =>
            LET c == before[j].head[j.app] IN run'[j.app] = c /\ Whole(j.app, c)'
       /\ Verdict(j, "manual") => run'[j.app] = 0
       /\ Verdict(j, "success") \/ Verdict(j, "restored") =>
            LET o == Other(j.app) IN run'[o] = before'[j].run[o]]_vars

\* A job that has not ended, which would refuse every other of its application,
\* has a process left that will end it, unless its requester was killed before
\* the supervisor was spawned, or its supervisor was.
NoneStranded ==
  \A j \in Jobs : status[j] \in {"queued", "running"} =>
    \/ requester[j] # "none" \/ supervisor[j] \in {"alive", "marking"}
    \/ worker[j] \in {"waiting"} \cup Holding
    \/ kills > 0 /\ supervisor[j] \in {"none", "killed"}

\* The README's claim, which the code does not keep: there is at most one active
\* job per app.
OneActivePerApp ==
  \A j, k \in Jobs :
    j.app = k.app /\ j # k /\ worker[j] \in Holding => worker[k] # "waiting"
-----------------------------------------------------------------------------
(* The inductive invariant: what the worker past the lock may rely on.     *)

\* One worker at most is past the lock, of whichever application.
OneWorker ==
  \A j, k \in Jobs : worker[j] \in Holding /\ worker[k] \in Holding => j = k

\* The live files are only touched, and code only started, when nothing runs.
Stopped(j) ==
  worker[j] \in {"merge", "swap", "restart", "schema", "switch", "unswap", "relaunch"}
    => run[j.app] = 0

\* What was captured was running code that the schema allows, not newer than
\* the candidate.
Captured(j) ==
  worker[j] \in {"stage"} \cup Cutover \cup Rollback =>
    /\ before[j] \in Snapshots
    /\ before[j].schema <= before[j].head["backend"]
    /\ worker[j] # "stage" => before[j].head[j.app] <= j.sha

\* Every directory of the previous commit is in its place or set aside.
SetAside(j) ==
  \A m \in Members(j.app) :
    /\ worker[j] \in {"none", "waiting", "stop", "merge"} \cup Early => backup[j][m] = 0
    /\ worker[j] \in Cutover \cup Rollback =>
         (IF backup[j][m] # 0 THEN backup[j][m] ELSE live[j.app][m]) = before[j].head[j.app]

\* While it swaps, and before it restarts, the candidate is checked out.
Placed(j) ==
  worker[j] \in {"swap", "restart"} =>
    /\ head[j.app] = j.sha
    /\ \A m \in Members(j.app) :
         worker[j] = "restart" \/ (backup[j][m] # 0 /\ live[j.app][m] # 0) => live[j.app][m] = j.sha

\* Before it relaunches, the previous commit is checked out and whole.
PutBack(j) ==
  worker[j] \in {"unswap", "relaunch"} =>
    /\ head[j.app] = before[j].head[j.app]
    /\ worker[j] = "relaunch" => \A m \in Members(j.app) : live[j.app][m] = head[j.app]

\* Until the candidate starts, and once the rollback has compared it, the schema
\* is the captured one.
SameSchema(j) ==
  worker[j] \in {"stop", "merge", "swap", "restart", "switch", "unswap", "relaunch"}
    => schema = before[j].schema

Prepared(j) ==
  Stopped(j) /\ Captured(j) /\ SetAside(j) /\ Placed(j) /\ PutBack(j) /\ SameSchema(j)

\* Who is left to end a job.
Watched(j) ==
  /\ requester[j] = "spawning" => supervisor[j] = "none"
  /\ supervisor[j] = "none" => worker[j] = "none" /\ requester[j] # "parent"
  /\ supervisor[j] = "none" /\ requester[j] = "none" =>
       status[j] \in {"none"} \cup Verdicts \/ kills > 0
  /\ supervisor[j] = "marking" => worker[j] = "ended"
  /\ supervisor[j] = "done" => worker[j] = "ended" /\ Final(j)
  /\ supervisor[j] = "killed" => kills > 0
  /\ status[j] = "none" => requester[j] = "none" /\ supervisor[j] = "none"

WatchedOK == \A j \in Jobs : Watched(j)

DeployInv ==
  /\ TypeOK /\ WatchedOK /\ OneWorker /\ RunningWhole /\ SchemaServed
  /\ \A j \in Jobs : Prepared(j)
=============================================================================
