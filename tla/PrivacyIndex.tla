---------------------------- MODULE PrivacyIndex ----------------------------
(***************************************************************************)
(* The index of one privacy pool's deposits (lib/privacyIndex.js) with its *)
(* two files (lib/privacyStore.js) and the chain it reads over an RPC      *)
(* provider (lib/privacyRpc.js).                                           *)
(*                                                                         *)
(* One pool, hence a queue of at most one job.  A deposit is known by the  *)
(* block that holds it.  The chain has two branches, with or without a     *)
(* common first block; the pool is deployed before either.  The provider   *)
(* reads the live one.                                                     *)
(***************************************************************************)
EXTENDS Integers, Sequences, FiniteSets

CONSTANTS
  None,
  MaxHeight,    \* bound: length of a branch
  MaxSwitches   \* bound: reorganisations; from 2 on a branch may come back

ASSUME PrivacyAssumption ==
  /\ MaxHeight \in Nat \ {0} /\ MaxSwitches \in Nat

AnyHash == (1..MaxHeight) \X (0..2)
AnyLeaves == SUBSET [index : 0..(MaxHeight - 1), at : AnyHash]

ASSUME NoneAssumption ==
  None \notin AnyHash \cup [at : AnyHash, leaves : AnyLeaves]
          \cup [scanned : AnyHash \cup {None}, target : AnyHash, leaves : AnyLeaves]

VARIABLES
  fork,      \* the number of blocks the branches share
  branch,    \* for each branch, whether each of its blocks has a deposit
  live,
  switches,
  disk,      \* the files: snapshot, checkpoint and the activation marker
  proc,      \* the process
  mem,       \* the pool's state in memory
  armed,     \* the scheduler's timer is set
  job,       \* the sync under way
  met,       \* history: the branches live since the process started
  owed       \* history: the process found the pool on disk, or answered a GET of it

chain == <<fork, branch, live, switches>>
vars == <<fork, branch, live, switches, disk, proc, mem, armed, job, met, owed>>

Fresh == [loaded |-> FALSE, snapshot |-> None, candidate |-> None,
          checkpoint |-> None, due |-> TRUE,
          active |-> FALSE, restoreFailed |-> FALSE]
Idle == [pc |-> "idle", head |-> None, count |-> 0, to |-> 0,
         boundary |-> None, rows |-> {}]
Reading == {"head", "verify", "resume", "expect", "boundary", "events",
            "assert", "final"}
Storing == {"save", "done", "park", "resetSnapshot", "resetCheckpoint", "gap"}

Lower(a, b) == IF a < b THEN a ELSE b
-----------------------------------------------------------------------------
(* The chain.  The other branch grows unseen until a reorganisation.       *)

Height == Len(branch[live])
Hash(b, n) == <<n, IF n <= fork THEN 0 ELSE b>>
Missing(h) == h[1] > Height
Canonical(h) == ~Missing(h) /\ h = Hash(live, h[1])
BranchOf(h) == IF h[2] = 0 THEN live ELSE h[2]

\* The deposits up to block h, numbered as the contract numbers them.
Leaves(h) ==
  LET b == BranchOf(h)
      dep == {k \in 1..h[1] : branch[b][k]}
  IN {[index |-> Cardinality({j \in dep : j < k}), at |-> Hash(b, k)] : k \in dep}

Mine ==
  /\ Height < MaxHeight
  /\ \E deposit \in BOOLEAN : branch' = [branch EXCEPT ![live] = Append(@, deposit)]
  /\ UNCHANGED <<fork, live, switches, disk, proc, mem, armed, job, met, owed>>

Reorganise ==
  /\ switches < MaxSwitches
  /\ live' = 3 - live /\ switches' = switches + 1
  /\ \E n \in 0..(MaxHeight - Len(branch[3 - live])) :
       \E more \in [1..n -> BOOLEAN] : branch' = [branch EXCEPT ![3 - live] = @ \o more]
  /\ met' = met \cup {live'}
  /\ UNCHANGED <<fork, disk, proc, mem, armed, job, owed>>
-----------------------------------------------------------------------------
(* Scheduling.  m is the memory the step leaves.                           *)

\* Mutant of Armed: a failed restore sets no timer.
ArmedForActive(m, idle) == idle /\ m.active
Armed(m, idle) == idle /\ (m.active \/ m.restoreFailed)
ScheduleNext(m, idle) == armed' = (proc = "up" /\ Armed(m, idle))

\* enqueue(): the job begins unless it runs or is not yet due.
Enqueued(m) == job.pc = "idle" /\ m.due
Enqueue(m) == job' = IF Enqueued(m) THEN [Idle EXCEPT !.pc = "head"] ELSE job

\* Mutant of Load: what the file says is served.
LoadServed(m) ==
  IF m.loaded THEN m
  ELSE [m EXCEPT !.loaded = TRUE, !.snapshot = disk.snapshot,
                 !.checkpoint = disk.checkpoint]

\* A saved snapshot is only a candidate until it has been verified.
Load(m) ==
  IF m.loaded THEN m
  ELSE [m EXCEPT !.loaded = TRUE, !.candidate = disk.snapshot,
                 !.checkpoint = disk.checkpoint]
Activated(m) == [Load(m) EXCEPT !.active = TRUE]

Marked == [disk EXCEPT !.active = TRUE]

(* activate() rejects: the files are not read, the marker is not written,  *)
(* or it is renamed into place and the sync of its directory throws.       *)
NotActivated(m, left) ==
  \/ left = m /\ UNCHANGED disk
  \/ left = Load(m) /\ disk' \in {disk, Marked}

(* GET of the pool's snapshot: activates the pool durably, then asks for a *)
(* job.  A storage failure answers 503 and leaves the rest to a later one. *)
Read ==
  /\ proc = "up"
  /\ \/ /\ mem' = Activated(mem) /\ disk' = Marked
        /\ Enqueue(mem') /\ owed' = TRUE
     \/ /\ ~mem.active
        /\ NotActivated(mem, mem') /\ UNCHANGED <<job, owed>>
  /\ UNCHANGED <<chain, proc, armed, met>>

Listed == disk.active \/ disk.snapshot # None \/ disk.checkpoint # None

(* restore(): the pools known on disk resume, or the timer tries again.    *)
Restore(m) ==
  \/ /\ Listed
     /\ mem' = [Activated(m) EXCEPT !.restoreFailed = FALSE]
     /\ disk' = Marked
     /\ Enqueue(mem')
  \/ /\ ~Listed
     /\ mem' = [m EXCEPT !.restoreFailed = FALSE] /\ UNCHANGED <<disk, job>>
  \/ /\ mem' = [m EXCEPT !.restoreFailed = TRUE] /\ UNCHANGED <<disk, job>>
  \/ /\ Listed /\ ~m.active
     /\ NotActivated([m EXCEPT !.restoreFailed = TRUE], mem') /\ UNCHANGED job

Start ==
  /\ proc = "down"
  /\ proc' = "up"
  /\ met' = {live} /\ owed' = Listed
  /\ Restore(Fresh)
  /\ armed' = Armed(mem', job'.pc = "idle")
  /\ UNCHANGED chain

TimerFires ==
  /\ armed /\ (mem.due \/ mem.restoreFailed)
  /\ IF mem.restoreFailed THEN Restore(mem)
     ELSE Enqueue(mem) /\ UNCHANGED <<mem, disk>>
  /\ ScheduleNext(mem', job'.pc = "idle")
  /\ UNCHANGED <<chain, proc, met, owed>>

BecomesDue ==
  /\ proc = "up" /\ ~mem.due /\ job.pc = "idle"
  /\ mem' = [mem EXCEPT !.due = TRUE]
  /\ UNCHANGED <<chain, disk, proc, armed, job, met, owed>>

Crash ==
  /\ proc # "down"
  /\ proc' = "down" /\ mem' = Fresh /\ job' = Idle /\ armed' = FALSE /\ owed' = FALSE
  /\ UNCHANGED <<chain, disk, met>>

\* close(): no timer and no further request; the job stores what it has.
Close ==
  /\ proc = "up"
  /\ proc' = "closing" /\ armed' = FALSE
  /\ UNCHANGED <<chain, disk, mem, job, met, owed>>

Closed ==
  /\ proc = "closing" /\ job.pc = "idle"
  /\ proc' = "down" /\ mem' = Fresh /\ owed' = FALSE
  /\ UNCHANGED <<chain, disk, armed, job, met>>
-----------------------------------------------------------------------------
(* One job.  Every step is one call of the provider or of the disk, with   *)
(* what the code does up to the next one.                                  *)

To(pc) == job' = [job EXCEPT !.pc = pc]
Kept == UNCHANGED <<chain, proc, met, owed>>
Finish(m) == mem' = [m EXCEPT !.due = FALSE] /\ job' = Idle /\ ScheduleNext(m, TRUE)

\* The catch clause of sync().
OnReorg ==
  /\ mem' = [mem EXCEPT !.snapshot = None, !.candidate = None, !.checkpoint = None]
  /\ To("resetSnapshot") /\ UNCHANGED armed
OnGap ==
  /\ mem' = [mem EXCEPT !.checkpoint = None] /\ To("gap") /\ UNCHANGED armed
OnStop ==
  IF mem.checkpoint # None THEN To("park") /\ UNCHANGED <<mem, armed>>
  ELSE Finish(mem)

(* Before a request: the budget may be spent or the index closed.          *)
MayRequest == proc = "up" /\ job.pc \in Reading

StopsReading ==
  /\ job.pc \in Reading /\ OnStop
  /\ Kept /\ UNCHANGED disk

CallFails ==
  /\ job.pc \in Reading /\ Finish(mem)
  /\ Kept /\ UNCHANGED disk

Saved(m) == IF m.snapshot # None THEN m.snapshot ELSE m.candidate

ReadHead ==
  /\ MayRequest /\ job.pc = "head"
  /\ job' = [job EXCEPT !.head = Hash(live, Height),
                        !.pc = IF Saved(mem) # None THEN "verify" ELSE "resume"]
  /\ Kept /\ UNCHANGED <<mem, armed, disk>>

Matches(s) == Canonical(s.at) /\ Cardinality(s.leaves) = Cardinality(Leaves(s.at))

\* A saved snapshot is served and extended only from here on.
VerifySaved ==
  LET s == Saved(mem)
  IN /\ MayRequest /\ job.pc = "verify"
     /\ IF s.at[1] > job.head[1] THEN OnReorg
        ELSE IF Missing(s.at) THEN Finish(mem)
        ELSE IF ~Matches(s) THEN OnReorg
        ELSE /\ mem' = [mem EXCEPT !.snapshot = s, !.candidate = None]
             /\ To("resume") /\ UNCHANGED armed
     /\ Kept /\ UNCHANGED disk

\* Mutant of Usable: a checkpoint that was left behind is used.
UsableAlways(m) == m.checkpoint

\* The checkpoint to go on with: never one aimed below what is published.
Usable(m) ==
  IF m.checkpoint # None /\ m.snapshot # None
     /\ m.checkpoint.target[1] < m.snapshot.at[1]
  THEN None ELSE m.checkpoint

Begun(m, head) ==
  [scanned |-> IF m.snapshot = None THEN None ELSE m.snapshot.at,
   target |-> head,
   leaves |-> IF m.snapshot = None THEN {} ELSE m.snapshot.leaves]

Valid(c) ==
  Canonical(c.target) /\ (c.scanned # None => Canonical(c.scanned))

ToScan == job' = [job EXCEPT !.pc = "expect", !.head = None]
UpToDate == mem.snapshot # None /\ mem.snapshot.at[1] = job.head[1]

Resume ==
  LET c == Usable(mem)
  IN /\ MayRequest /\ job.pc = "resume"
     /\ \/ /\ c # None
           /\ IF c.target[1] > job.head[1] THEN OnReorg
              ELSE IF Missing(c.target) THEN Finish(mem)
              ELSE IF ~Valid(c) THEN OnReorg
              ELSE ToScan /\ UNCHANGED <<mem, armed>>
        \/ /\ c = None /\ UpToDate
           /\ Finish(mem)
        \/ /\ c = None /\ ~UpToDate
           /\ mem' = [mem EXCEPT !.checkpoint = Begun(mem, job.head)]
           /\ ToScan /\ UNCHANGED armed
     /\ Kept /\ UNCHANGED disk

ScannedTo(c) == IF c.scanned = None THEN 0 ELSE c.scanned[1]

\* Mutant of NextChunk: the last range is not cut at the target.
NextChunkUnclamped(c, j) ==
  IF ScannedTo(c) = c.target[1] THEN job' = [j EXCEPT !.pc = "final"]
  ELSE \E to \in (ScannedTo(c) + 1)..MaxHeight :
         job' = [j EXCEPT !.pc = "boundary", !.to = to]

\* The next range to scan, of any length the adaptive span allows.
NextChunk(c, j) ==
  IF ScannedTo(c) = c.target[1] THEN job' = [j EXCEPT !.pc = "final"]
  ELSE \E to \in (ScannedTo(c) + 1)..c.target[1] :
         job' = [j EXCEPT !.pc = "boundary", !.to = to]

Expect ==
  LET c == mem.checkpoint
  IN /\ MayRequest /\ job.pc = "expect"
     /\ IF Missing(c.target) THEN Finish(mem)
        ELSE IF ~Canonical(c.target) THEN OnReorg
        ELSE IF Cardinality(c.leaves) > Cardinality(Leaves(c.target)) THEN OnGap
        ELSE /\ NextChunk(c, [job EXCEPT !.count = Cardinality(Leaves(c.target))])
             /\ UNCHANGED <<mem, armed>>
     /\ Kept /\ UNCHANGED disk

ReadBoundary ==
  /\ MayRequest /\ job.pc = "boundary"
  /\ IF job.to > Height THEN Finish(mem)
     ELSE /\ job' = [job EXCEPT !.pc = "events", !.boundary = Hash(live, job.to)]
          /\ UNCHANGED <<mem, armed>>
  /\ Kept /\ UNCHANGED disk

Logs(from, to) == {l \in Leaves(Hash(live, Lower(to, Height))) : l.at[1] \in from..to}

\* The rows of a chunk continue the leaves and agree with its last block.
Contiguous(c, rows) ==
  /\ {l.index : l \in rows} = Cardinality(c.leaves)..(Cardinality(c.leaves) + Cardinality(rows) - 1)
  /\ Cardinality(c.leaves) + Cardinality(rows) <= job.count
  /\ \A l \in rows : l.at[1] = job.to => l.at = job.boundary

(* The provider returns the logs of the range, or misses some of them.     *)
ReadEvents ==
  LET c == mem.checkpoint
      all == Logs(ScannedTo(c) + 1, job.to)
  IN /\ MayRequest /\ job.pc = "events"
     /\ \E rows \in SUBSET all :
          IF Contiguous(c, rows)
          THEN job' = [job EXCEPT !.pc = "assert", !.rows = rows] /\ UNCHANGED <<mem, armed>>
          ELSE OnGap
     /\ Kept /\ UNCHANGED disk

\* A range the provider refuses is tried again with a shorter one.
ShrinkRange ==
  /\ MayRequest /\ job.pc = "events"
  /\ \E to \in (ScannedTo(mem.checkpoint) + 1)..(job.to - 1) :
       job' = [job EXCEPT !.pc = "boundary", !.to = to]
  /\ Kept /\ UNCHANGED <<mem, armed, disk>>

\* The chunk is accepted if its last block is still the one read.
AssertBoundary ==
  LET c == [mem.checkpoint EXCEPT !.scanned = job.boundary, !.leaves = @ \cup job.rows]
      j == [job EXCEPT !.boundary = None, !.rows = {}]
  IN /\ MayRequest /\ job.pc = "assert"
     /\ IF Missing(job.boundary) THEN Finish(mem)
        ELSE IF ~Canonical(job.boundary) THEN OnReorg
        ELSE /\ mem' = [mem EXCEPT !.checkpoint = c]
             /\ \/ NextChunk(c, j)
                \/ job' = [j EXCEPT !.pc = "final"]   \* no chunks or time left
             /\ UNCHANGED armed
     /\ Kept /\ UNCHANGED disk

\* Mutant of Complete: the leaves are not counted.
CompleteUncounted(c) == TRUE
Complete(c) == Cardinality(c.leaves) = job.count

AssertTarget ==
  LET c == mem.checkpoint
  IN /\ MayRequest /\ job.pc = "final"
     /\ IF Missing(c.target) THEN Finish(mem)
        ELSE IF ~Canonical(c.target) THEN OnReorg
        ELSE IF ScannedTo(c) < c.target[1] THEN To("park") /\ UNCHANGED <<mem, armed>>
        ELSE IF ~Complete(c) THEN OnGap
        ELSE To("save") /\ UNCHANGED <<mem, armed>>
     /\ Kept /\ UNCHANGED disk
-----------------------------------------------------------------------------
(* Storing.  A file is replaced by renaming, hence whole.  A write may fail *)
(* and leave the previous one; or take effect and fail all the same, for   *)
(* the directory is synced after the rename.                               *)

View(c) == [at |-> c.target, leaves |-> c.leaves]

SnapshotSaved == [disk EXCEPT !.snapshot = View(mem.checkpoint)]
CheckpointSaved == [disk EXCEPT !.checkpoint = mem.checkpoint]

SaveSnapshot ==
  /\ job.pc = "save"
  /\ disk' = SnapshotSaved
  /\ mem' = [mem EXCEPT !.snapshot = View(mem.checkpoint), !.candidate = None,
                        !.checkpoint = None]
  /\ To("done")
  /\ Kept /\ UNCHANGED armed

DropCheckpoint ==
  /\ job.pc = "done"
  /\ disk' = [disk EXCEPT !.checkpoint = None]
  /\ Finish(mem)
  /\ Kept

\* Unfinished work is kept for the next job.
SaveCheckpoint ==
  /\ job.pc = "park"
  /\ disk' = CheckpointSaved
  /\ Finish(mem)
  /\ Kept

RemoveSnapshot ==
  /\ job.pc = "resetSnapshot"
  /\ disk' = [disk EXCEPT !.snapshot = None]
  /\ To("resetCheckpoint")
  /\ Kept /\ UNCHANGED <<mem, armed>>

RemoveCheckpoint ==
  /\ job.pc \in {"resetCheckpoint", "gap"}
  /\ disk' = [disk EXCEPT !.checkpoint = None]
  /\ Finish(mem)
  /\ Kept

\* What the job knows is the same, whether or not the write took effect.
StoreFails ==
  /\ job.pc \in Storing /\ Finish(mem)
  /\ \/ UNCHANGED disk
     \/ job.pc = "save" /\ disk' = SnapshotSaved
     \/ job.pc = "park" /\ disk' = CheckpointSaved
  /\ Kept
-----------------------------------------------------------------------------
Init ==
  /\ fork \in {0, 1}
  /\ \E d, e \in BOOLEAN :
       (fork = 1 => d = e) /\ branch = <<<<d>>, <<e>>>>
  /\ live = 1 /\ switches = 0
  /\ disk = [snapshot |-> None, checkpoint |-> None, active |-> FALSE]
  /\ proc = "down" /\ mem = Fresh /\ armed = FALSE /\ job = Idle
  /\ met = {} /\ owed = FALSE

Step ==
  \/ ReadHead \/ VerifySaved \/ Resume \/ Expect \/ ReadBoundary \/ ReadEvents
  \/ AssertBoundary \/ AssertTarget \/ SaveSnapshot \/ DropCheckpoint
  \/ SaveCheckpoint \/ RemoveSnapshot \/ RemoveCheckpoint

Next ==
  \/ Step \/ StopsReading \/ CallFails \/ ShrinkRange \/ StoreFails
  \/ Read \/ Start \/ TimerFires \/ BecomesDue \/ Crash \/ Close \/ Closed
  \/ Reorganise \/ Mine

Spec == Init /\ [][Next]_vars
-----------------------------------------------------------------------------
Hashes == {h \in AnyHash : h[1] <= fork <=> h[2] = 0}
LeafSets == SUBSET [index : 0..(MaxHeight - 1), at : Hashes]
Views == [at : Hashes, leaves : LeafSets]
Checkpoints == [scanned : Hashes \cup {None}, target : Hashes, leaves : LeafSets]

(* The state is well formed, and what the job scans stays below its target *)
TypeOK ==
  /\ fork \in {0, 1} /\ live \in 1..2 /\ switches \in 0..MaxSwitches /\ met \subseteq 1..2
  /\ disk.snapshot = None \/ disk.snapshot \in Views
  /\ disk.checkpoint = None \/ disk.checkpoint \in Checkpoints
  /\ mem.snapshot = None \/ mem.snapshot \in Views
  /\ mem.candidate = None \/ mem.candidate \in Views
  /\ mem.checkpoint # None =>
       mem.checkpoint \in Checkpoints /\ ScannedTo(mem.checkpoint) <= mem.checkpoint.target[1]
  /\ mem.snapshot # None => mem.candidate = None
  /\ job.pc \in Reading \cup Storing \cup {"idle"} /\ job.to \in 0..MaxHeight
  /\ job.pc \in {"expect", "boundary", "events", "assert", "final", "save", "park"}
       => mem.checkpoint # None
  /\ proc = "down" => job.pc = "idle"
  /\ proc \in {"down", "up", "closing"} /\ armed \in BOOLEAN /\ owed \in BOOLEAN

(* What is published or kept as a snapshot is every deposit of one fork up *)
(* to its block, whatever logs the provider missed, and whichever of crash *)
(* and reorganisation fell between two reads.                              *)
OneFork ==
  \A s \in {mem.snapshot, disk.snapshot} \ {None} : s.leaves = Leaves(s.at)

(* A snapshot that was saved is served only after its block has been seen  *)
(* canonical by this process: nothing is served on the word of the file.   *)
SeenSinceStart ==
  mem.snapshot # None => mem.snapshot.at[2] \in met \cup {0}

(* While a process serves a view it never replaces it by that of an        *)
(* earlier block, even from a checkpoint a failed removal left behind.     *)
NeverBackwards ==
  [][mem.snapshot # None /\ mem'.snapshot # None
       => mem'.snapshot.at[1] >= mem.snapshot.at[1]]_vars

(* A pool that the process found on disk when it started, or for which it  *)
(* has answered a GET otherwise than by 503, is never forgotten: as long   *)
(* as the process is up, a job is under way or a timer will start one,     *)
(* whatever reads, writes and restores have failed, before or after their  *)
(* effect.  (A GET that answers 503 promises nothing, although its marker  *)
(* may be on disk: the pool then waits for another GET or a restart.)      *)
NeverForgotten == proc = "up" /\ owed => job.pc # "idle" \/ armed

-----------------------------------------------------------------------------
(* The inductive strengthening of the properties above.                    *)

Disks == [snapshot : Views \cup {None}, checkpoint : Checkpoints \cup {None}, active : BOOLEAN]
Memories ==
  [loaded : BOOLEAN, snapshot : Views \cup {None}, candidate : Views \cup {None},
   checkpoint : Checkpoints \cup {None}, due : BOOLEAN, active : BOOLEAN,
   restoreFailed : BOOLEAN]
Jobs ==
  [pc : Reading \cup Storing \cup {"idle"}, head : Hashes \cup {None}, count : Nat,
   to : 0..MaxHeight, boundary : Hashes \cup {None}, rows : LeafSets]

RecordsOK == disk \in Disks /\ mem \in Memories /\ job \in Jobs

ChainOK ==
  /\ fork \in {0, 1} /\ live \in 1..2 /\ switches \in 0..MaxSwitches
  /\ branch \in [1..2 -> Seq(BOOLEAN)]
  /\ \A b \in 1..2 : Len(branch[b]) \in 1..MaxHeight
  /\ fork = 1 => branch[1][1] = branch[2][1]

CheckpointsOK ==
  \A c \in {mem.checkpoint, disk.checkpoint} \ {None} : ScannedTo(c) <= c.target[1]

\* Nothing is in memory before it was loaded.
LoadedOK ==
  /\ ~mem.loaded => mem.snapshot = None /\ mem.candidate = None /\ mem.checkpoint = None
  /\ mem.snapshot # None => mem.candidate = None
  /\ mem.active => mem.loaded
  /\ proc = "down" => mem = Fresh /\ job.pc = "idle" /\ ~armed /\ ~owed

Scanning == {"expect", "boundary", "events", "assert", "final"}

\* A job knows what its next step needs, and does not aim below what is served.
JobOK ==
  /\ job.pc = "idle" => job = Idle
  /\ job.pc = "verify" => Saved(mem) # None
  /\ job.pc \in {"verify", "resume"} => job.head # None
  /\ job.pc = "resume" /\ mem.snapshot # None => mem.snapshot.at[1] <= job.head[1]
  /\ job.pc \in Scanning \cup {"save", "park"} => mem.checkpoint # None
  /\ job.pc \in Scanning \cup {"save"} /\ mem.snapshot # None =>
       mem.snapshot.at[1] <= mem.checkpoint.target[1]
  /\ job.pc \in {"boundary", "events", "assert"} =>
       job.to \in (ScannedTo(mem.checkpoint) + 1)..mem.checkpoint.target[1]
  /\ job.pc \in {"events", "assert"} => job.boundary # None /\ job.boundary[1] = job.to

\* The timer is set when there is something to wait for; nothing is started or
\* stored for a pool that is not active; and until a failed restore has been made
\* good, the pools found on disk are still there.
TimerOK ==
  /\ proc \in {"down", "up", "closing"} /\ armed \in BOOLEAN /\ owed \in BOOLEAN
  /\ job.pc # "idle" \/ ~mem.due => mem.active
  /\ armed => proc = "up" /\ (mem.active \/ mem.restoreFailed)
  /\ owed => mem.active \/ (mem.restoreFailed /\ Listed)
  /\ proc = "up" /\ job.pc = "idle" /\ (mem.active \/ mem.restoreFailed) => armed

SeenOK ==
  /\ met \subseteq 1..2
  /\ proc # "down" => live \in met
  /\ job.pc = "save" => mem.checkpoint.target[2] \in met \cup {0}

IndexInv ==
  /\ RecordsOK /\ ChainOK /\ CheckpointsOK /\ LoadedOK /\ JobOK /\ TimerOK
  /\ SeenOK /\ SeenSinceStart

(* The strengthening of OneFork, for a branch that lost and stays lost.    *)
NoReturn == MaxSwitches <= 1

Open(h)  == h[2] \in {0, live}
Known(h) == h[2] <= live /\ h[1] <= Len(branch[BranchOf(h)])

\* What was read is of the branch of the target, unless that branch has lost.
Sound(c) == Known(c.target) /\ (Open(c.target) => c.leaves \subseteq Leaves(c.target))

ForkOK ==
  /\ live = 1 + switches
  /\ \A s \in {mem.snapshot, mem.candidate, disk.snapshot} \ {None} :
       Known(s.at) /\ s.leaves = Leaves(s.at)
  /\ \A c \in {mem.checkpoint, disk.checkpoint} \ {None} : Sound(c)
  /\ \A h \in {job.head, job.boundary} \ {None} : Known(h)
  /\ job.pc = "resume" /\ mem.snapshot # None /\ Open(job.head) => Open(mem.snapshot.at)
  /\ job.pc \in Scanning \ {"expect"} /\ Open(mem.checkpoint.target) =>
       job.count = Cardinality(Leaves(mem.checkpoint.target))
  /\ job.pc = "assert" /\ Open(job.boundary) => job.rows \subseteq Leaves(job.boundary)
  /\ job.pc = "save" => mem.checkpoint.leaves = Leaves(mem.checkpoint.target)

ForkInv == IndexInv /\ ForkOK
=============================================================================
