---------------------------- MODULE PrivacyProofs ----------------------------
(***************************************************************************)
(* Theorems about the deposit index of a privacy pool, for branches of any *)
(* length and, but for OneFork, any number of reorganisations.             *)
(***************************************************************************)
EXTENDS PrivacyIndex, FiniteSetTheorems, TLAPS

-----------------------------------------------------------------------------
(* Blocks and the deposits up to one.                                      *)

LEMMA HashFacts ==
  ASSUME NEW h \in Hashes
  PROVE  h[1] \in 1..MaxHeight /\ h[2] \in 0..2 /\ h = <<h[1], h[2]>> /\ (h[1] <= fork <=> h[2] = 0)
BY DEF Hashes, AnyHash

LEMMA NoneFacts == None \notin Hashes /\ None \notin Views /\ None \notin Checkpoints
<1>1. Hashes \subseteq AnyHash
  BY DEF Hashes
<1>2. LeafSets \subseteq AnyLeaves
  BY <1>1 DEF LeafSets, AnyLeaves
<1>3. /\ Views \subseteq [at : AnyHash, leaves : AnyLeaves]
      /\ Checkpoints \subseteq [scanned : AnyHash \cup {None}, target : AnyHash, leaves : AnyLeaves]
  BY <1>1, <1>2 DEF Views, Checkpoints
<1> QED
  BY <1>1, <1>3, NoneAssumption

\* The block of a branch at a height.
LEMMA HashType ==
  ASSUME ChainOK, NEW b \in 1..2, NEW n \in 1..MaxHeight
  PROVE  Hash(b, n) \in Hashes
BY DEF ChainOK, Hash, Hashes, AnyHash

LEMMA TipType ==
  ASSUME ChainOK
  PROVE  Height \in 1..MaxHeight /\ Hash(live, Height) \in Hashes /\ Hash(live, Height)[1] = Height
<1>1. Height \in 1..MaxHeight
  BY DEF ChainOK, Height
<1> QED
  BY <1>1, HashType DEF ChainOK, Hash

\* The number of a deposit counts those before it.
LEMMA LeavesType ==
  ASSUME ChainOK, NEW h \in Hashes
  PROVE  Leaves(h) \in LeafSets
<1> DEFINE b == BranchOf(h)
           dep == {k \in 1..h[1] : branch[b][k]}
<1>1. b \in 1..2 /\ h[1] \in 1..MaxHeight
  BY HashFacts DEF ChainOK, BranchOf
<1>2. ASSUME NEW k \in dep PROVE Cardinality({j \in dep : j < k}) \in 0..(MaxHeight - 1)
  <2> DEFINE S == {j \in dep : j < k}
  <2>1. IsFiniteSet(1..(k-1)) /\ Cardinality(1..(k-1)) = k - 1
    <3>1. k \in Nat /\ 1 <= k
      OBVIOUS
    <3> HIDE DEF dep
    <3> QED
      BY <3>1, FS_Interval
  <2>2. S \in SUBSET (1..(k-1))
    BY <1>1
  <2> HIDE DEF S
  <2>3. IsFiniteSet(S) /\ Cardinality(S) <= k - 1
    BY <2>1, <2>2, FS_Subset
  <2>4. Cardinality(S) \in Nat
    BY <2>3, FS_CardinalityType
  <2>5. k - 1 <= MaxHeight - 1 /\ MaxHeight \in Nat
    BY <1>1, PrivacyAssumption
  <2>6. Cardinality(S) \in 0..(MaxHeight - 1)
    BY <2>3, <2>4, <2>5
  <2> QED
    BY <2>6 DEF S
<1>3. ASSUME NEW k \in dep PROVE Hash(b, k) \in Hashes
  <2>1. k \in 1..MaxHeight
    BY <1>1, PrivacyAssumption
  <2> QED
    BY <1>1, <2>1, HashType
<1>4. \A k \in dep : [index |-> Cardinality({j \in dep : j < k}), at |-> Hash(b, k)]
                        \in [index : 0..(MaxHeight - 1), at : Hashes]
  BY <1>2, <1>3
<1>5. Leaves(h) = {[index |-> Cardinality({j \in dep : j < k}), at |-> Hash(b, k)] : k \in dep}
  BY DEF Leaves
<1> HIDE DEF dep, b
<1> QED
  BY <1>4, <1>5 DEF LeafSets

LEMMA LeavesFinite ==
  ASSUME ChainOK, NEW h \in Hashes
  PROVE  IsFiniteSet(Leaves(h))
<1> DEFINE I == 0..(MaxHeight - 1)
           H == (1..MaxHeight) \X (0..2)
           F == {[index |-> p[1], at |-> p[2]] : p \in I \X H}
<1>0. MaxHeight \in Int /\ MaxHeight - 1 \in Int /\ 0 \in Int /\ 1 \in Int /\ 2 \in Int
  BY PrivacyAssumption
<1>1. IsFiniteSet(1..MaxHeight) /\ IsFiniteSet(0..2) /\ IsFiniteSet(I)
  BY <1>0, FS_Interval, Zenon
<1> HIDE DEF I
<1>2. IsFiniteSet(H)
  BY <1>1, FS_Product
<1> HIDE DEF H
<1>3. IsFiniteSet(I \X H)
  BY <1>1, <1>2, FS_Product
<1>4. IsFiniteSet(F)
  <2> DEFINE f == [p \in I \X H |-> [index |-> p[1], at |-> p[2]]]
  <2>1. f \in Surjection(I \X H, F)
    BY DEF Surjection
  <2> QED
    BY <1>3, <2>1, FS_Surjection
<1>5. Leaves(h) \in SUBSET F
  <2>1. Leaves(h) \subseteq [index : I, at : H]
    BY LeavesType DEF LeafSets, Hashes, AnyHash, I, H
  <2>2. ASSUME NEW l \in [index : I, at : H] PROVE l \in F
    <3>1. l = [index |-> <<l.index, l.at>>[1], at |-> <<l.index, l.at>>[2]]
      OBVIOUS
    <3>2. <<l.index, l.at>> \in I \X H
      OBVIOUS
    <3> QED
      BY <3>1, <3>2
  <2> QED
    BY <2>1, <2>2
<1> QED
  BY <1>4, <1>5, FS_Subset

-----------------------------------------------------------------------------
(* IndexInv is inductive.                                                  *)

LEMMA IndexInit == Init => IndexInv
<1> SUFFICES ASSUME Init PROVE IndexInv
  OBVIOUS
<1>1. PICK d \in BOOLEAN, e \in BOOLEAN : (fork = 1 => d = e) /\ branch = <<<<d>>, <<e>>>>
  BY DEF Init
<1>2. ChainOK
  BY <1>1, PrivacyAssumption DEF Init, ChainOK
<1>3. RecordsOK /\ CheckpointsOK
  BY PrivacyAssumption DEF Init, RecordsOK, Disks, Memories, Jobs, Fresh, Idle, CheckpointsOK, LeafSets
<1>4. LoadedOK /\ JobOK /\ TimerOK
  BY DEF Init, LoadedOK, JobOK, TimerOK, Fresh, Idle, Scanning, Listed
<1>5. SeenOK /\ SeenSinceStart
  BY DEF Init, SeenOK, SeenSinceStart, Fresh, Idle
<1> QED
  BY <1>2, <1>3, <1>4, <1>5 DEF IndexInv

\* The pool is deployed, and the branches part, where they did at the start.
LEMMA SameTypes ==
  ASSUME fork' = fork
  PROVE  /\ Hashes' = Hashes /\ Views' = Views /\ Checkpoints' = Checkpoints
         /\ LeafSets' = LeafSets /\ Disks' = Disks /\ Memories' = Memories /\ Jobs' = Jobs
<1>1. Hashes' = Hashes
  BY DEF Hashes
<1>2. LeafSets' = LeafSets
  BY <1>1 DEF LeafSets
<1>3. Views' = Views /\ Checkpoints' = Checkpoints
  BY <1>1, <1>2 DEF Views, Checkpoints
<1> QED
  BY <1>1, <1>2, <1>3 DEF Disks, Memories, Jobs

LEMMA ForkFixed == [Next]_vars => fork' = fork
BY DEF Next, Step, ReadHead, VerifySaved, Resume, Expect, ReadBoundary, ReadEvents, AssertBoundary,
   AssertTarget, SaveSnapshot, DropCheckpoint, SaveCheckpoint, RemoveSnapshot, RemoveCheckpoint,
   StopsReading, CallFails, ShrinkRange, StoreFails, Read, Start, TimerFires, BecomesDue, Crash,
   Close, Closed, Reorganise, Mine, Kept, chain, vars

LEMMA ChainStep ==
  ASSUME ChainOK, [Next]_vars
  PROVE  ChainOK'
<1>1. CASE UNCHANGED chain
  BY <1>1 DEF chain, ChainOK
<1>2. CASE Mine
  <2>1. PICK deposit \in BOOLEAN : branch' = [branch EXCEPT ![live] = Append(branch[live], deposit)]
    BY <1>2 DEF Mine
  <2>2. /\ \A b \in 1..2 \ {live} : branch'[b] = branch[b]
        /\ branch'[live] = Append(branch[live], deposit)
        /\ DOMAIN branch' = 1..2
    BY <2>1 DEF ChainOK
  <2>3. /\ branch'[live] \in Seq(BOOLEAN) /\ Len(branch'[live]) = Len(branch[live]) + 1
        /\ branch'[live][1] = branch[live][1]
    BY <2>2 DEF ChainOK
  <2>4. branch' \in [1..2 -> Seq(BOOLEAN)]
    BY <2>1, <2>3, <2>2 DEF ChainOK
  <2>5. Len(branch[live]) < MaxHeight /\ UNCHANGED <<fork, live, switches>>
    BY <1>2 DEF Mine, Height
  <2>6. \A b \in 1..2 : Len(branch'[b]) \in 1..MaxHeight
    BY <2>2, <2>3, <2>5, PrivacyAssumption DEF ChainOK
  <2>7. \A b \in 1..2 : branch'[b][1] = branch[b][1]
    BY <2>2, <2>3
  <2> QED
    BY <2>4, <2>5, <2>6, <2>7 DEF ChainOK
<1>3. CASE Reorganise
  <2> DEFINE o == 3 - live
  <2>0. o \in 1..2
    BY DEF ChainOK
  <2>a. PICK n \in 0..(MaxHeight - Len(branch[o])) : \E more \in [1..n -> BOOLEAN] :
          branch' = [branch EXCEPT ![o] = branch[o] \o more]
    BY <1>3 DEF Reorganise
  <2>1. PICK more \in [1..n -> BOOLEAN] : branch' = [branch EXCEPT ![o] = branch[o] \o more]
    BY <2>a
  <2>2. n \in Nat /\ more \in Seq(BOOLEAN) /\ Len(more) = n
        /\ Len(branch[o]) + n <= MaxHeight /\ Len(branch[o]) \in 1..MaxHeight
    BY <2>0, <2>1, PrivacyAssumption DEF ChainOK
  <2> HIDE DEF o
  <2>3. /\ \A b \in 1..2 \ {o} : branch'[b] = branch[b]
        /\ branch'[o] = branch[o] \o more
    BY <2>0, <2>1 DEF ChainOK
  <2>c. o \in 1..2 /\ branch[o] \in Seq(BOOLEAN)
    BY <2>0 DEF ChainOK, o
  <2>d. ASSUME NEW s \in Seq(BOOLEAN), NEW t \in Seq(BOOLEAN), Len(s) \in 1..MaxHeight
        PROVE  s \o t \in Seq(BOOLEAN) /\ Len(s \o t) = Len(s) + Len(t) /\ (s \o t)[1] = s[1]
    BY <2>d
  <2>4. /\ branch'[o] \in Seq(BOOLEAN) /\ Len(branch'[o]) = Len(branch[o]) + n
        /\ branch'[o][1] = branch[o][1]
    <3>1. branch[o] \o more \in Seq(BOOLEAN) /\ Len(branch[o] \o more) = Len(branch[o]) + Len(more)
          /\ (branch[o] \o more)[1] = branch[o][1]
      BY <2>2, <2>c, <2>d
    <3> QED
      BY <2>2, <2>3, <3>1
  <2>5. branch' \in [1..2 -> Seq(BOOLEAN)]
    BY <2>1, <2>3, <2>4 DEF ChainOK
  <2>6. \A b \in 1..2 : Len(branch'[b]) \in 1..MaxHeight
    BY <2>2, <2>3, <2>4, PrivacyAssumption DEF ChainOK
  <2>7. \A b \in 1..2 : branch'[b][1] = branch[b][1]
    BY <2>3, <2>4
  <2>8. fork' = fork /\ live' \in 1..2 /\ switches' \in 0..MaxSwitches
    BY <2>0, <1>3, PrivacyAssumption DEF Reorganise, ChainOK, o
  <2> QED
    BY <2>5, <2>6, <2>7, <2>8 DEF ChainOK
<1>4. CASE Step
  BY <1>1, <1>4 DEF Step, ReadHead, VerifySaved, Resume, Expect, ReadBoundary, ReadEvents,
     AssertBoundary, AssertTarget, SaveSnapshot, DropCheckpoint, SaveCheckpoint, RemoveSnapshot,
     RemoveCheckpoint, Kept
<1>5. CASE StopsReading \/ CallFails \/ ShrinkRange \/ StoreFails
  BY <1>1, <1>5 DEF StopsReading, CallFails, ShrinkRange, StoreFails, Kept
<1>6. CASE Read \/ Start \/ TimerFires \/ BecomesDue \/ Crash \/ Close \/ Closed
  BY <1>1, <1>6 DEF Read, Start, TimerFires, BecomesDue, Crash, Close, Closed
<1>7. CASE UNCHANGED vars
  BY <1>1, <1>7 DEF vars, chain
<1> QED
  BY <1>2, <1>3, <1>4, <1>5, <1>6, <1>7 DEF Next

\* A job goes on: it reads or stores next, and the schedule is as it was.
LEMMA MoveStep ==
  ASSUME IndexInv, job.pc # "idle", Kept, UNCHANGED <<disk, armed>>,
         mem' \in Memories, mem'.loaded, mem'.active, mem'.due = mem.due,
         mem'.restoreFailed = mem.restoreFailed,
         mem'.snapshot # None => mem'.candidate = None,
         job' \in Jobs, job'.pc # "idle", JobOK',
         mem'.checkpoint # None => ScannedTo(mem'.checkpoint) <= mem'.checkpoint.target[1],
         mem'.snapshot # None => mem'.snapshot.at[2] \in met \cup {0},
         job'.pc = "save" => mem'.checkpoint.target[2] \in met \cup {0}
  PROVE  IndexInv'
<1> USE DEF Kept, chain
<1>1. RecordsOK' /\ ChainOK'
  BY SameTypes DEF IndexInv, RecordsOK, ChainOK
<1>2. CheckpointsOK'
  BY DEF IndexInv, CheckpointsOK, ScannedTo
<1>3. LoadedOK' /\ TimerOK'
  BY DEF IndexInv, LoadedOK, TimerOK, Listed, Idle
<1>4. SeenOK' /\ SeenSinceStart'
  BY DEF IndexInv, SeenOK, SeenSinceStart
<1> QED
  BY <1>1, <1>2, <1>3, <1>4 DEF IndexInv

\* A job ends: whatever it did to the files, the pool stays scheduled.
LEMMA FinishStep ==
  ASSUME IndexInv, job.pc # "idle", Finish(mem), Kept,
         disk' \in Disks,
         disk'.checkpoint # None => ScannedTo(disk'.checkpoint) <= disk'.checkpoint.target[1]
  PROVE  IndexInv'
<1> USE DEF Kept, chain
<1>1. mem' = [mem EXCEPT !.due = FALSE] /\ job' = Idle /\ armed' = (proc = "up" /\ (mem'.active \/ mem'.restoreFailed))
  BY DEF Finish, ScheduleNext, Armed, IndexInv, RecordsOK, Memories
<1>2. /\ mem' \in Memories /\ mem'.loaded = mem.loaded /\ mem'.active = mem.active
      /\ mem'.snapshot = mem.snapshot /\ mem'.candidate = mem.candidate
      /\ mem'.checkpoint = mem.checkpoint /\ mem'.restoreFailed = mem.restoreFailed
  BY <1>1 DEF IndexInv, RecordsOK, Memories
<1>3. job' \in Jobs
  BY <1>1, PrivacyAssumption DEF Jobs, Idle, LeafSets
<1>4. RecordsOK' /\ ChainOK'
  BY <1>2, <1>3, SameTypes DEF IndexInv, RecordsOK, ChainOK
<1>5. CheckpointsOK'
  BY <1>2 DEF IndexInv, CheckpointsOK, ScannedTo
<1>6. proc # "down" /\ mem.active
  BY DEF IndexInv, LoadedOK, TimerOK, Idle
<1>7. LoadedOK' /\ JobOK'
  BY <1>1, <1>2, <1>6 DEF IndexInv, LoadedOK, JobOK, Idle, Scanning
<1>8. TimerOK'
  BY <1>1, <1>2, <1>6 DEF IndexInv, TimerOK, Idle
<1>9. SeenOK' /\ SeenSinceStart'
  BY <1>1, <1>2 DEF IndexInv, SeenOK, SeenSinceStart, Idle
<1> QED
  BY <1>4, <1>5, <1>7, <1>8, <1>9 DEF IndexInv

\* The same, when nothing in memory changes.
LEMMA AwaitStep ==
  ASSUME IndexInv, job.pc # "idle", Kept, UNCHANGED <<disk, armed, mem>>,
         job' \in Jobs, job'.pc # "idle", JobOK',
         job'.pc = "save" => mem.checkpoint.target[2] \in met \cup {0}
  PROVE  IndexInv'
<1>1. /\ mem \in Memories /\ mem.loaded /\ mem.active
      /\ mem.snapshot # None => mem.candidate = None
      /\ mem.checkpoint # None => ScannedTo(mem.checkpoint) <= mem.checkpoint.target[1]
      /\ mem.snapshot # None => mem.snapshot.at[2] \in met \cup {0}
  BY DEF IndexInv, RecordsOK, LoadedOK, TimerOK, CheckpointsOK, SeenSinceStart
<1> QED
  BY <1>1, MoveStep

\* Catch clauses of sync(): a lost branch, a gap, and a stop.
LEMMA CatchStep ==
  ASSUME IndexInv, job.pc \in Reading, Kept, disk' = disk, OnReorg \/ OnGap \/ OnStop
  PROVE  IndexInv'
<1>0. job.pc # "idle" /\ job \in Jobs /\ mem \in Memories /\ mem.active /\ mem.loaded
  BY DEF Reading, IndexInv, RecordsOK, TimerOK, LoadedOK
<1>1. CASE OnReorg
  <2>1. /\ mem' = [mem EXCEPT !.snapshot = None, !.candidate = None, !.checkpoint = None]
        /\ job' = [job EXCEPT !.pc = "resetSnapshot"] /\ armed' = armed
    BY <1>1 DEF OnReorg, To
  <2>2. /\ mem' \in Memories /\ mem'.loaded /\ mem'.active /\ mem'.due = mem.due
        /\ mem'.restoreFailed = mem.restoreFailed
        /\ mem'.snapshot = None /\ mem'.checkpoint = None
    BY <1>0, <2>1 DEF Memories
  <2>3. job' \in Jobs /\ job'.pc = "resetSnapshot"
    BY <1>0, <2>1 DEF Jobs, Storing
  <2>4. JobOK'
    BY <2>3 DEF JobOK, Scanning
  <2> QED
    BY <1>0, <2>1, <2>2, <2>3, <2>4, MoveStep
<1>2. CASE OnGap
  <2>1. /\ mem' = [mem EXCEPT !.checkpoint = None]
        /\ job' = [job EXCEPT !.pc = "gap"] /\ armed' = armed
    BY <1>2 DEF OnGap, To
  <2>2. /\ mem' \in Memories /\ mem'.loaded /\ mem'.active /\ mem'.due = mem.due
        /\ mem'.restoreFailed = mem.restoreFailed
        /\ mem'.snapshot = mem.snapshot /\ mem'.candidate = mem.candidate
        /\ mem'.checkpoint = None
    BY <1>0, <2>1 DEF Memories
  <2>3. job' \in Jobs /\ job'.pc = "gap"
    BY <1>0, <2>1 DEF Jobs, Storing
  <2>4. JobOK'
    BY <2>3 DEF JobOK, Scanning
  <2> QED
    BY <1>0, <2>1, <2>2, <2>3, <2>4, MoveStep DEF IndexInv, LoadedOK, SeenSinceStart
<1>3. CASE OnStop /\ mem.checkpoint # None
  <2>1. job' = [job EXCEPT !.pc = "park"] /\ UNCHANGED <<mem, armed>>
    BY <1>3 DEF OnStop, To
  <2>2. job' \in Jobs /\ job'.pc = "park"
    BY <1>0, <2>1 DEF Jobs, Storing
  <2>3. JobOK'
    BY <1>3, <2>1, <2>2 DEF JobOK, Scanning
  <2> QED
    BY <1>0, <2>1, <2>2, <2>3, AwaitStep
<1>4. CASE OnStop /\ mem.checkpoint = None
  BY <1>0, <1>4, FinishStep DEF OnStop, IndexInv, RecordsOK, CheckpointsOK
<1> QED
  BY <1>1, <1>2, <1>3, <1>4

\* A step that ends the job and leaves the files alone.
LEMMA GiveUpStep ==
  ASSUME IndexInv, job.pc # "idle", Finish(mem), Kept, disk' = disk
  PROVE  IndexInv'
BY FinishStep DEF IndexInv, RecordsOK, CheckpointsOK

LEMMA ReadHeadStep ==
  ASSUME IndexInv, ReadHead
  PROVE  IndexInv'
<1>0. job.pc = "head" /\ job \in Jobs /\ ChainOK
  BY DEF ReadHead, IndexInv, RecordsOK
<1> DEFINE pc == IF Saved(mem) # None THEN "verify" ELSE "resume"
           head == Hash(live, Height)
<1>1. job' = [job EXCEPT !.head = head, !.pc = pc] /\ UNCHANGED <<mem, armed, disk>> /\ Kept
  BY DEF ReadHead
<1>2. head \in Hashes /\ head # None /\ pc \in {"verify", "resume"}
  BY <1>0, TipType, NoneFacts
<1>3. pc = "resume" => mem.snapshot = None
  BY DEF Saved
<1>4. pc = "verify" => Saved(mem) # None
  OBVIOUS
<1> HIDE DEF pc, head
<1>5. job' \in Jobs /\ job'.pc = pc /\ job'.head = head
  BY <1>0, <1>1, <1>2 DEF Jobs, Reading
<1>6. Saved(mem)' = Saved(mem)
  BY <1>1 DEF Saved
<1>7. JobOK'
  BY <1>1, <1>2, <1>3, <1>4, <1>5, <1>6 DEF JobOK, Scanning
<1> QED
  BY <1>0, <1>1, <1>2, <1>5, <1>7, AwaitStep

LEMMA VerifySavedStep ==
  ASSUME IndexInv, VerifySaved
  PROVE  IndexInv'
<1> DEFINE s == Saved(mem)
<1>0. /\ job.pc = "verify" /\ job \in Jobs /\ ChainOK /\ mem \in Memories /\ s # None
      /\ s \in Views /\ job.head # None /\ mem.active /\ mem.loaded /\ proc = "up"
  BY DEF VerifySaved, MayRequest, IndexInv, RecordsOK, JobOK, Saved, Memories, TimerOK, LoadedOK
<1>1. CASE OnReorg \/ Finish(mem)
  BY <1>0, <1>1, CatchStep, GiveUpStep DEF VerifySaved, Reading
<1>2. CASE /\ ~(s.at[1] > job.head[1]) /\ Matches(s)
           /\ mem' = [mem EXCEPT !.snapshot = s, !.candidate = None]
           /\ To("resume") /\ UNCHANGED armed
  <2> HIDE DEF s
  <2>1. s.at \in Hashes /\ job.head \in Hashes
    BY <1>0 DEF Views, Jobs
  <2>2. s.at[1] <= job.head[1] /\ s.at[2] \in {0, live}
    BY <1>2, <2>1, HashFacts DEF Matches, Canonical, Hash
  <2>3. /\ mem' \in Memories /\ mem'.loaded /\ mem'.active /\ mem'.due = mem.due
        /\ mem'.restoreFailed = mem.restoreFailed
        /\ mem'.snapshot = s /\ mem'.candidate = None
        /\ mem'.checkpoint = mem.checkpoint
    BY <1>0, <1>2 DEF Memories
  <2>4. job' = [job EXCEPT !.pc = "resume"]
    BY <1>2 DEF To
  <2>5. job' \in Jobs /\ job'.pc = "resume" /\ job'.head = job.head
    BY <1>0, <2>4 DEF Jobs, Reading
  <2>6. JobOK'
    BY <1>0, <2>2, <2>3, <2>5 DEF JobOK, Scanning
  <2>7. live \in met
    BY <1>0 DEF IndexInv, SeenOK
  <2>8. mem.checkpoint # None => ScannedTo(mem.checkpoint) <= mem.checkpoint.target[1]
    BY DEF IndexInv, CheckpointsOK
  <2> QED
    BY <1>0, <1>2, <2>2, <2>3, <2>5, <2>6, <2>7, <2>8, MoveStep DEF VerifySaved
<1> QED
  BY <1>1, <1>2 DEF VerifySaved

LEMMA CheckpointFacts ==
  ASSUME NEW c \in Checkpoints
  PROVE  /\ c.target \in Hashes /\ c.target[1] \in 1..MaxHeight /\ c.leaves \in LeafSets
         /\ c.scanned \in Hashes \cup {None} /\ ScannedTo(c) \in 0..MaxHeight
<1>1. c.target \in Hashes /\ c.scanned \in Hashes \cup {None} /\ c.leaves \in LeafSets
  BY DEF Checkpoints
<1> QED
  BY <1>1, HashFacts, PrivacyAssumption DEF ScannedTo

\* The next range, if any is left.
LEMMA ChunkFacts ==
  ASSUME NEW c \in Checkpoints, ScannedTo(c) <= c.target[1], NEW j \in Jobs, NextChunk(c, j)
  PROVE  /\ job' \in Jobs /\ job'.pc \in {"final", "boundary"}
         /\ job'.pc = "boundary" => job'.to \in (ScannedTo(c) + 1)..c.target[1]
         /\ job'.count = j.count /\ job'.boundary = j.boundary /\ job'.head = j.head
<1>1. CASE job' = [j EXCEPT !.pc = "final"]
  BY <1>1 DEF Jobs, Reading
<1>2. CASE \E to \in (ScannedTo(c) + 1)..c.target[1] :
             job' = [j EXCEPT !.pc = "boundary", !.to = to]
  <2>1. PICK to \in (ScannedTo(c) + 1)..c.target[1] :
          job' = [j EXCEPT !.pc = "boundary", !.to = to]
    BY <1>2
  <2>2. to \in 0..MaxHeight
    BY CheckpointFacts, PrivacyAssumption
  <2> QED
    BY <2>1, <2>2 DEF Jobs, Reading
<1> QED
  BY <1>1, <1>2 DEF NextChunk

\* What a job that scans knows.
LEMMA ScanFacts ==
  ASSUME IndexInv, job.pc \in Scanning \cup {"save", "park"}
  PROVE  /\ mem.checkpoint \in Checkpoints /\ mem.checkpoint # None
         /\ ScannedTo(mem.checkpoint) <= mem.checkpoint.target[1]
         /\ job.pc # "idle" /\ job \in Jobs /\ mem \in Memories /\ mem.active /\ mem.loaded
         /\ mem.snapshot # None /\ job.pc # "park" =>
              mem.snapshot.at[1] <= mem.checkpoint.target[1]
BY DEF IndexInv, RecordsOK, Memories, CheckpointsOK, JobOK, TimerOK, LoadedOK, Scanning

LEMMA ResumeStep ==
  ASSUME IndexInv, Resume
  PROVE  IndexInv'
<1> DEFINE c == Usable(mem)
<1>0. /\ job.pc = "resume" /\ job \in Jobs /\ mem \in Memories /\ job.head \in Hashes
      /\ mem.active /\ mem.loaded /\ job.pc # "idle"
      /\ mem.snapshot # None => mem.snapshot \in Views /\ mem.snapshot.at[1] <= job.head[1]
      /\ mem.checkpoint # None => mem.checkpoint \in Checkpoints
      /\ Kept /\ UNCHANGED disk
  BY DEF Resume, IndexInv, RecordsOK, JobOK, Jobs, Memories, TimerOK, LoadedOK
<1>1. CASE OnReorg \/ Finish(mem)
  BY <1>0, <1>1, CatchStep, GiveUpStep DEF Reading
<1>2. ASSUME ToScan
      PROVE  job' \in Jobs /\ job'.pc = "expect"
  BY <1>0, <1>2 DEF ToScan, Jobs, Reading
<1>3. CASE c # None /\ ToScan /\ UNCHANGED <<mem, armed>>
  <2>1. /\ mem.checkpoint # None
        /\ mem.snapshot # None => ~(mem.checkpoint.target[1] < mem.snapshot.at[1])
    BY <1>3 DEF Usable
  <2>2. mem.snapshot # None => mem.snapshot.at[1] <= mem.checkpoint.target[1]
    BY <1>0, <2>1, HashFacts, CheckpointFacts DEF Views
  <2>3. JobOK'
    BY <1>2, <1>3, <2>1, <2>2 DEF JobOK, Scanning
  <2> QED
    BY <1>0, <1>2, <1>3, <2>3, AwaitStep
<1>4. CASE mem' = [mem EXCEPT !.checkpoint = Begun(mem, job.head)] /\ ToScan /\ UNCHANGED armed
  <2> DEFINE b == Begun(mem, job.head)
  <2>1. b.target = job.head
    BY DEF Begun
  <2>2. b \in Checkpoints
    BY <1>0, NoneFacts DEF Begun, Checkpoints, Views, LeafSets
  <2>3. ScannedTo(b) <= b.target[1]
    <3>1. CASE mem.snapshot = None
      <4>1. b.scanned = None
        BY <3>1 DEF Begun
      <4> QED
        BY <1>0, <2>1, <4>1, HashFacts DEF ScannedTo
    <3>2. CASE mem.snapshot # None
      <4>1. b.scanned = mem.snapshot.at /\ b.scanned \in Hashes
        BY <1>0, <3>2 DEF Begun, Views
      <4> QED
        BY <1>0, <2>1, <3>2, <4>1, NoneFacts DEF ScannedTo
    <3> QED
      BY <3>1, <3>2
  <2>4. b # None
    BY <2>2, NoneFacts
  <2> HIDE DEF b
  <2>5. /\ mem' \in Memories /\ mem'.loaded /\ mem'.active /\ mem'.due = mem.due
        /\ mem'.restoreFailed = mem.restoreFailed /\ mem'.snapshot = mem.snapshot
        /\ mem'.candidate = mem.candidate /\ mem'.checkpoint = b
    BY <1>0, <1>4, <2>2 DEF Memories, b
  <2>6. JobOK'
    BY <1>0, <1>2, <1>4, <2>1, <2>4, <2>5 DEF JobOK, Scanning
  <2>7. /\ mem.snapshot # None => mem.candidate = None
        /\ mem.snapshot # None => mem.snapshot.at[2] \in met \cup {0}
    BY DEF IndexInv, LoadedOK, SeenSinceStart
  <2> QED
    BY <1>0, <1>2, <1>4, <2>3, <2>5, <2>6, <2>7, MoveStep
<1> QED
  BY <1>1, <1>3, <1>4 DEF Resume

LEMMA ExpectStep ==
  ASSUME IndexInv, Expect
  PROVE  IndexInv'
<1> DEFINE c == mem.checkpoint
           n == Cardinality(Leaves(c.target))
<1>0. job.pc = "expect" /\ Kept /\ UNCHANGED disk
  BY DEF Expect
<1>1. CASE OnReorg \/ OnGap \/ Finish(mem)
  BY <1>0, <1>1, CatchStep, GiveUpStep DEF Reading
<1>2. CASE NextChunk(c, [job EXCEPT !.count = n]) /\ UNCHANGED <<mem, armed>>
  <2>1. c \in Checkpoints /\ job \in Jobs /\ ScannedTo(c) <= c.target[1]
    BY <1>0, ScanFacts DEF Scanning
  <2>2. n \in Nat
    BY <2>1, LeavesFinite, CheckpointFacts, FS_CardinalityType DEF IndexInv
  <2>3. [job EXCEPT !.count = n] \in Jobs
    BY <2>1, <2>2 DEF Jobs
  <2> HIDE DEF n, c
  <2>4. /\ job' \in Jobs /\ job'.pc \in {"final", "boundary"}
        /\ job'.pc = "boundary" => job'.to \in (ScannedTo(c) + 1)..c.target[1]
    BY <1>2, <2>1, <2>3, ChunkFacts
  <2>5. JobOK'
    BY <1>0, <1>2, <2>4, ScanFacts DEF JobOK, Scanning, c, ScannedTo
  <2> QED
    BY <1>0, <1>2, <2>4, <2>5, AwaitStep
<1> QED
  BY <1>1, <1>2 DEF Expect

LEMMA ReadBoundaryStep ==
  ASSUME IndexInv, ReadBoundary
  PROVE  IndexInv'
<1> DEFINE c == mem.checkpoint
           h == Hash(live, job.to)
<1>0. job.pc = "boundary" /\ Kept /\ UNCHANGED disk /\ job \in Jobs /\ ChainOK
  BY DEF ReadBoundary, IndexInv, RecordsOK
<1>1. CASE Finish(mem)
  BY <1>0, <1>1, GiveUpStep DEF Reading
<1>2. CASE job' = [job EXCEPT !.pc = "events", !.boundary = h] /\ UNCHANGED <<mem, armed>>
  <2>1. job.to \in (ScannedTo(c) + 1)..c.target[1] /\ job.to \in 0..MaxHeight
        /\ ScannedTo(c) \in 0..MaxHeight
    BY <1>0, ScanFacts, CheckpointFacts DEF IndexInv, JobOK, Scanning, Jobs
  <2>2. h \in Hashes /\ h[1] = job.to
    <3>1. job.to \in 1..MaxHeight
      BY <2>1
    <3> QED
      BY <1>0, <3>1, HashType DEF ChainOK, Hash
  <2> HIDE DEF h, c
  <2>3. job' \in Jobs /\ job'.pc = "events" /\ job'.to = job.to /\ job'.boundary = h
    BY <1>0, <1>2, <2>2 DEF Jobs, Reading
  <2>4. JobOK'
    BY <1>0, <1>2, <2>1, <2>2, <2>3, ScanFacts, NoneFacts DEF JobOK, Scanning, ScannedTo, c
  <2> QED
    BY <1>0, <1>2, <2>3, <2>4, AwaitStep
<1> QED
  BY <1>1, <1>2 DEF ReadBoundary

LEMMA ReadEventsStep ==
  ASSUME IndexInv, ReadEvents
  PROVE  IndexInv'
<1> DEFINE c == mem.checkpoint
           all == Logs(ScannedTo(c) + 1, job.to)
<1>0. /\ job.pc = "events" /\ Kept /\ UNCHANGED disk /\ job \in Jobs /\ ChainOK /\ JobOK
  BY DEF ReadEvents, IndexInv, RecordsOK
<1>1. CASE OnGap
  BY <1>0, <1>1, CatchStep DEF Reading
<1>2. ASSUME NEW rows \in SUBSET all, job' = [job EXCEPT !.pc = "assert", !.rows = rows],
             UNCHANGED <<mem, armed>>
      PROVE  IndexInv'
  <2>1. Lower(job.to, Height) \in 1..MaxHeight
    <3>1. job.to \in (ScannedTo(c) + 1)..c.target[1] /\ job.to \in 0..MaxHeight
          /\ ScannedTo(c) \in 0..MaxHeight
      BY <1>0, ScanFacts, CheckpointFacts DEF JobOK, Scanning, Jobs
    <3> QED
      BY <1>0, <3>1, TipType DEF Lower
  <2>2. Leaves(Hash(live, Lower(job.to, Height))) \in LeafSets
    BY <1>0, <2>1, HashType, LeavesType DEF ChainOK
  <2>3. rows \in LeafSets
    BY <2>2 DEF Logs, LeafSets
  <2>4. /\ job' \in Jobs /\ job'.pc = "assert" /\ job'.to = job.to
        /\ job'.boundary = job.boundary
    BY <1>0, <1>2, <2>3 DEF Jobs, Reading
  <2>5. JobOK'
    BY <1>0, <1>2, <2>4 DEF JobOK, Scanning, ScannedTo
  <2> QED
    BY <1>0, <1>2, <2>4, <2>5, AwaitStep
<1> QED
  BY <1>1, <1>2 DEF ReadEvents

LEMMA ShrinkRangeStep ==
  ASSUME IndexInv, ShrinkRange
  PROVE  IndexInv'
<1> DEFINE c == mem.checkpoint
<1>0. /\ job.pc = "events" /\ Kept /\ UNCHANGED <<mem, armed, disk>> /\ job \in Jobs /\ JobOK
  BY DEF ShrinkRange, IndexInv, RecordsOK
<1>1. PICK to \in (ScannedTo(c) + 1)..(job.to - 1) : job' = [job EXCEPT !.pc = "boundary", !.to = to]
  BY DEF ShrinkRange
<1>2. job.to \in (ScannedTo(c) + 1)..c.target[1] /\ ScannedTo(c) \in 0..MaxHeight
      /\ c.target[1] \in 1..MaxHeight
  BY <1>0, ScanFacts, CheckpointFacts DEF JobOK, Scanning
<1>3. to \in (ScannedTo(c) + 1)..c.target[1] /\ to \in 0..MaxHeight
  BY <1>1, <1>2, PrivacyAssumption
<1>4. job' \in Jobs /\ job'.pc = "boundary" /\ job'.to = to
  BY <1>0, <1>1, <1>3 DEF Jobs, Reading
<1>5. JobOK'
  BY <1>0, <1>3, <1>4 DEF JobOK, Scanning, ScannedTo
<1> QED
  BY <1>0, <1>4, <1>5, AwaitStep

LEMMA AssertBoundaryStep ==
  ASSUME IndexInv, AssertBoundary
  PROVE  IndexInv'
<1> DEFINE c == mem.checkpoint
           d == [c EXCEPT !.scanned = job.boundary, !.leaves = c.leaves \cup job.rows]
           j == [job EXCEPT !.boundary = None, !.rows = {}]
<1>0. /\ job.pc = "assert" /\ Kept /\ UNCHANGED disk /\ job \in Jobs /\ JobOK
      /\ job.boundary # None /\ job.boundary \in Hashes /\ job.boundary[1] = job.to
      /\ job.rows \in LeafSets
  BY DEF AssertBoundary, IndexInv, RecordsOK, JobOK, Jobs
<1>1. CASE OnReorg \/ Finish(mem)
  BY <1>0, <1>1, CatchStep, GiveUpStep DEF Reading
<1>2. CASE /\ mem' = [mem EXCEPT !.checkpoint = d]
           /\ NextChunk(d, j) \/ job' = [j EXCEPT !.pc = "final"]
           /\ UNCHANGED armed
  <2>0. c \in Checkpoints /\ mem \in Memories /\ mem.active /\ mem.loaded
    BY <1>0, ScanFacts DEF Scanning
  <2>1. d \in Checkpoints /\ d.target = c.target /\ d.scanned = job.boundary
    BY <1>0, <2>0 DEF Checkpoints, LeafSets
  <2>2. d # None /\ ScannedTo(d) <= d.target[1]
    <3>1. job.to <= c.target[1]
      BY <1>0 DEF JobOK
    <3> QED
      BY <1>0, <2>1, <3>1, NoneFacts DEF ScannedTo
  <2>3. j \in Jobs
    BY <1>0 DEF Jobs, LeafSets
  <2> HIDE DEF d, j, c
  <2>4. /\ mem' \in Memories /\ mem'.loaded /\ mem'.active /\ mem'.due = mem.due
        /\ mem'.restoreFailed = mem.restoreFailed /\ mem'.snapshot = mem.snapshot
        /\ mem'.candidate = mem.candidate /\ mem'.checkpoint = d
    BY <1>2, <2>0, <2>1 DEF Memories
  <2>5. /\ job' \in Jobs /\ job'.pc \in {"final", "boundary"}
        /\ job'.pc = "boundary" => job'.to \in (ScannedTo(d) + 1)..d.target[1]
    <3>1. CASE job' = [j EXCEPT !.pc = "final"]
      BY <2>3, <3>1 DEF Jobs, Reading
    <3> QED
      BY <1>2, <2>1, <2>2, <2>3, <3>1, ChunkFacts
  <2>6. JobOK'
    BY <1>0, <2>1, <2>2, <2>4, <2>5, ScanFacts DEF JobOK, Scanning, ScannedTo, c
  <2>7. /\ mem.snapshot # None => mem.candidate = None
        /\ mem.snapshot # None => mem.snapshot.at[2] \in met \cup {0}
    BY DEF IndexInv, LoadedOK, SeenSinceStart
  <2> QED
    BY <1>0, <1>2, <2>2, <2>4, <2>5, <2>6, <2>7, MoveStep
<1> QED
  BY <1>1, <1>2 DEF AssertBoundary

LEMMA AssertTargetStep ==
  ASSUME IndexInv, AssertTarget
  PROVE  IndexInv'
<1> DEFINE c == mem.checkpoint
<1>0. /\ job.pc = "final" /\ Kept /\ UNCHANGED disk /\ job \in Jobs /\ JobOK
      /\ live \in met
  BY DEF AssertTarget, MayRequest, IndexInv, RecordsOK, SeenOK
<1>1. CASE OnReorg \/ OnGap \/ Finish(mem)
  BY <1>0, <1>1, CatchStep, GiveUpStep DEF Reading
<1>2. CASE Canonical(c.target) /\ (To("park") \/ To("save")) /\ UNCHANGED <<mem, armed>>
  <2>1. c.target[2] \in {0, live}
    BY <1>0, <1>2, ScanFacts, CheckpointFacts DEF Canonical, Hash, Scanning
  <2>2. job' \in Jobs /\ job'.pc \in {"park", "save"}
    BY <1>0, <1>2 DEF Jobs, Storing, To
  <2>3. JobOK'
    BY <1>0, <1>2, <2>2, ScanFacts DEF JobOK, Scanning
  <2> QED
    BY <1>0, <1>2, <2>1, <2>2, <2>3, AwaitStep
<1> QED
  BY <1>1, <1>2 DEF AssertTarget

LEMMA SaveSnapshotStep ==
  ASSUME IndexInv, SaveSnapshot
  PROVE  IndexInv'
<1> DEFINE v == View(mem.checkpoint)
<1> USE DEF Kept, chain
<1>0. /\ job.pc = "save" /\ Kept /\ disk' = [disk EXCEPT !.snapshot = v]
      /\ mem' = [mem EXCEPT !.snapshot = v, !.candidate = None, !.checkpoint = None]
      /\ job' = [job EXCEPT !.pc = "done"] /\ armed' = armed /\ disk \in Disks
      /\ job \in Jobs /\ mem \in Memories /\ mem.active /\ mem.loaded
      /\ mem.checkpoint \in Checkpoints
  BY ScanFacts DEF SaveSnapshot, SnapshotSaved, IndexInv, RecordsOK, To
<1>1. v \in Views /\ v.at = mem.checkpoint.target /\ v # None
  BY <1>0, NoneFacts DEF View, Views, Checkpoints
<1> HIDE DEF v
<1>2. /\ mem' \in Memories /\ mem'.loaded /\ mem'.active /\ mem'.due = mem.due
      /\ mem'.restoreFailed = mem.restoreFailed /\ mem'.snapshot = v
      /\ mem'.candidate = None /\ mem'.checkpoint = None
  BY <1>0, <1>1 DEF Memories
<1>3. disk' \in Disks /\ disk'.checkpoint = disk.checkpoint
  BY <1>0, <1>1 DEF Disks
<1>4. job' \in Jobs /\ job'.pc = "done"
  BY <1>0 DEF Jobs, Storing
<1>5. RecordsOK' /\ ChainOK'
  BY <1>0, <1>2, <1>3, <1>4, SameTypes DEF RecordsOK, ChainOK, IndexInv
<1>6. CheckpointsOK'
  BY <1>2, <1>3 DEF CheckpointsOK, ScannedTo, IndexInv
<1>7. LoadedOK' /\ JobOK' /\ TimerOK'
  BY <1>0, <1>2, <1>4 DEF LoadedOK, JobOK, TimerOK, IndexInv, Scanning, Idle
<1>8. SeenOK' /\ SeenSinceStart'
  BY <1>0, <1>1, <1>2, <1>4 DEF SeenOK, SeenSinceStart, IndexInv
<1> QED
  BY <1>5, <1>6, <1>7, <1>8 DEF IndexInv

\* A write that fails, before its effect or after it.
LEMMA StoreFailsStep ==
  ASSUME IndexInv, StoreFails
  PROVE  IndexInv'
<1>0. disk \in Disks /\ Finish(mem) /\ Kept /\ job.pc # "idle"
  BY DEF IndexInv, RecordsOK, StoreFails, Storing
<1>1. CASE disk' = disk
  BY <1>0, <1>1, GiveUpStep
<1>2. CASE job.pc = "save" /\ disk' = SnapshotSaved
  <2> DEFINE v == View(mem.checkpoint)
  <2>1. mem.checkpoint \in Checkpoints
    BY <1>2, ScanFacts
  <2>2. v \in Views
    BY <2>1 DEF View, Views, Checkpoints
  <2>3. disk' = [disk EXCEPT !.snapshot = v]
    BY <1>2 DEF SnapshotSaved
  <2> HIDE DEF v
  <2>4. disk' \in Disks /\ disk'.checkpoint = disk.checkpoint
    BY <1>0, <2>2, <2>3 DEF Disks
  <2> QED
    BY <1>0, <2>4, FinishStep DEF IndexInv, CheckpointsOK
<1>3. CASE job.pc = "park" /\ disk' = CheckpointSaved
  <2>1. disk' \in Disks /\ disk'.checkpoint = mem.checkpoint
    BY <1>0, <1>3, ScanFacts DEF Disks, CheckpointSaved
  <2> QED
    BY <1>0, <1>3, <2>1, ScanFacts, FinishStep
<1> QED
  BY <1>1, <1>2, <1>3 DEF StoreFails

LEMMA StoreStep ==
  ASSUME IndexInv,
         \/ DropCheckpoint \/ SaveCheckpoint \/ RemoveSnapshot \/ RemoveCheckpoint \/ StoreFails
  PROVE  IndexInv'
<1>0. disk \in Disks /\ job \in Jobs
  BY DEF IndexInv, RecordsOK
<1>1. CASE DropCheckpoint \/ RemoveCheckpoint
  <2>1. disk' = [disk EXCEPT !.checkpoint = None] /\ Finish(mem) /\ Kept /\ job.pc # "idle"
    BY <1>1 DEF DropCheckpoint, RemoveCheckpoint
  <2>2. disk' \in Disks /\ disk'.checkpoint = None
    BY <1>0, <2>1 DEF Disks
  <2> QED
    BY <2>1, <2>2, FinishStep
<1>2. CASE SaveCheckpoint
  <2>1. disk' = [disk EXCEPT !.checkpoint = mem.checkpoint] /\ Finish(mem) /\ Kept /\ job.pc = "park"
    BY <1>2 DEF SaveCheckpoint, CheckpointSaved
  <2>2. disk' \in Disks /\ disk'.checkpoint = mem.checkpoint
    BY <1>0, <2>1, ScanFacts DEF Disks
  <2> QED
    BY <2>1, <2>2, ScanFacts, FinishStep
<1>3. CASE StoreFails
  BY <1>3, StoreFailsStep
<1>4. CASE RemoveSnapshot
  <2> USE DEF Kept, chain
  <2>1. /\ disk' = [disk EXCEPT !.snapshot = None] /\ Kept /\ UNCHANGED <<mem, armed>>
        /\ job.pc = "resetSnapshot" /\ job' = [job EXCEPT !.pc = "resetCheckpoint"]
    BY <1>4 DEF RemoveSnapshot, To
  <2>2. disk' \in Disks /\ disk'.checkpoint = disk.checkpoint
    BY <1>0, <2>1 DEF Disks
  <2>3. job' \in Jobs /\ job'.pc = "resetCheckpoint"
    BY <1>0, <2>1 DEF Jobs, Storing
  <2>4. RecordsOK' /\ ChainOK' /\ CheckpointsOK'
    BY <2>1, <2>2, <2>3, SameTypes DEF RecordsOK, ChainOK, CheckpointsOK, ScannedTo, IndexInv
  <2>5. LoadedOK' /\ JobOK' /\ TimerOK'
    BY <2>1, <2>3 DEF LoadedOK, JobOK, TimerOK, IndexInv, Scanning, Idle
  <2>6. SeenOK' /\ SeenSinceStart'
    BY <2>1, <2>3 DEF SeenOK, SeenSinceStart, IndexInv
  <2> QED
    BY <2>4, <2>5, <2>6 DEF IndexInv
<1> QED
  BY <1>1, <1>2, <1>3, <1>4

\* Loading takes the files into memory once.
LEMMA LoadFacts ==
  ASSUME RecordsOK, LoadedOK, NEW m, m \in {Load(mem), Activated(mem)}
  PROVE  /\ m \in Memories /\ m.loaded /\ m.due = mem.due
         /\ m.restoreFailed = mem.restoreFailed /\ m.snapshot = mem.snapshot
         /\ Load(mem).active = mem.active /\ Activated(mem).active
         /\ mem.loaded => m.candidate = mem.candidate /\ m.checkpoint = mem.checkpoint
         /\ ~mem.loaded => m.candidate = disk.snapshot /\ m.checkpoint = disk.checkpoint
                           /\ m.snapshot = None
<1>1. CASE mem.loaded
  <2>1. Load(mem) = mem
    BY <1>1 DEF Load
  <2> QED
    BY <1>1, <2>1 DEF Activated, RecordsOK, Memories
<1>2. CASE ~mem.loaded
  <2>0. mem \in Memories /\ disk \in Disks /\ mem.snapshot = None
    BY <1>2 DEF RecordsOK, LoadedOK
  <2>1. Load(mem) = [mem EXCEPT !.loaded = TRUE, !.candidate = disk.snapshot,
                                !.checkpoint = disk.checkpoint]
    BY <1>2 DEF Load
  <2>2. /\ Load(mem) \in Memories /\ Load(mem).loaded /\ Load(mem).due = mem.due
        /\ Load(mem).restoreFailed = mem.restoreFailed /\ Load(mem).snapshot = mem.snapshot
        /\ Load(mem).active = mem.active /\ Load(mem).candidate = disk.snapshot
        /\ Load(mem).checkpoint = disk.checkpoint
    BY <2>0, <2>1 DEF Memories, Disks
  <2> QED
    BY <1>2, <2>0, <2>2 DEF Activated, Memories
<1> QED
  BY <1>1, <1>2

\* A request, a restore or the timer: the files may be loaded, the pool be
\* activated, a job begin.
PoolMove ==
  /\ disk' \in {disk, Marked}
  /\ mem' \in Memories
  /\ mem'.snapshot = mem.snapshot /\ mem'.due = mem.due
  /\ mem.active => mem'.active
  /\ mem.loaded => /\ mem'.loaded
                   /\ mem'.candidate = mem.candidate /\ mem'.checkpoint = mem.checkpoint
  /\ ~mem.loaded => /\ mem'.snapshot = None
                    /\ ~mem'.loaded => mem'.candidate = None /\ mem'.checkpoint = None
                    /\ mem'.checkpoint \in {None, disk.checkpoint}
                    /\ mem'.candidate \in {None, disk.snapshot}
  /\ mem'.active => mem'.loaded
  /\ \/ job' = job
     \/ job.pc = "idle" /\ mem'.due /\ mem'.active /\ job' = [Idle EXCEPT !.pc = "head"]

LEMMA PoolStep ==
  ASSUME IndexInv, UNCHANGED chain, PoolMove
  PROVE  /\ RecordsOK' /\ ChainOK' /\ CheckpointsOK' /\ JobOK'
         /\ proc' # "down" => LoadedOK'
         /\ disk'.snapshot = disk.snapshot /\ disk'.checkpoint = disk.checkpoint
         /\ disk'.active \in {disk.active, TRUE}
         /\ job' # job => job'.pc = "head" /\ job.pc = "idle"
         /\ job'.pc # "idle" => mem'.active
<1> USE DEF chain
<1>0. /\ RecordsOK /\ ChainOK /\ CheckpointsOK /\ JobOK /\ LoadedOK /\ TimerOK
      /\ mem \in Memories /\ disk \in Disks /\ job \in Jobs
  BY DEF IndexInv, RecordsOK
<1>1. disk' \in Disks /\ disk'.snapshot = disk.snapshot /\ disk'.checkpoint = disk.checkpoint
      /\ disk'.active \in {disk.active, TRUE}
  BY <1>0 DEF PoolMove, Marked, Disks
<1>2. job' # job => job'.pc = "head" /\ job.pc = "idle" /\ mem'.active
  BY DEF PoolMove, Idle
<1>3. [Idle EXCEPT !.pc = "head"] \in Jobs
  BY PrivacyAssumption DEF Idle, Jobs, LeafSets, Reading
<1>4. RecordsOK' /\ ChainOK'
  BY <1>0, <1>1, <1>3, SameTypes DEF PoolMove, RecordsOK, ChainOK
<1>5. CheckpointsOK'
  BY <1>0, <1>1 DEF PoolMove, CheckpointsOK, ScannedTo
<1>6. JobOK'
  <2>1. CASE job' # job
    BY <1>2, <2>1 DEF JobOK, Scanning
  <2>2. CASE job' = job /\ job.pc = "idle"
    BY <1>0, <2>2 DEF JobOK, Scanning
  <2>3. CASE job' = job /\ job.pc # "idle"
    <3>1. mem.active /\ mem.loaded
      BY <1>0, <2>3 DEF TimerOK, LoadedOK
    <3>2. /\ mem'.candidate = mem.candidate /\ mem'.checkpoint = mem.checkpoint
          /\ mem'.snapshot = mem.snapshot
      BY <3>1 DEF PoolMove
    <3> QED
      BY <1>0, <2>3, <3>2 DEF JobOK, ScannedTo, Saved
  <2> QED
    BY <2>1, <2>2, <2>3
<1>7. proc' # "down" => LoadedOK'
  BY <1>0 DEF LoadedOK, PoolMove
<1>8. job'.pc # "idle" => mem'.active
  BY <1>0, <1>2 DEF TimerOK, PoolMove
<1> QED
  BY <1>1, <1>2, <1>4, <1>5, <1>6, <1>7, <1>8

LEMMA EnqueueMoves ==
  ASSUME Enqueue(mem'), mem'.active
  PROVE  /\ \/ job' = job
            \/ job.pc = "idle" /\ mem'.due /\ mem'.active /\ job' = [Idle EXCEPT !.pc = "head"]
         /\ job.pc = "idle" /\ mem'.due => job'.pc = "head"
BY DEF Enqueue, Enqueued, Idle

LEMMA MarkedListed ==
  ASSUME RecordsOK
  PROVE  /\ disk' = Marked => Listed'
         /\ disk' = disk => Listed' = Listed
BY DEF RecordsOK, Disks, Marked, Listed

\* An activation that fails moves nothing but what is loaded and the marker.
LEMMA NotActivatedMoves ==
  ASSUME RecordsOK, LoadedOK, NEW f \in BOOLEAN,
         NotActivated([mem EXCEPT !.restoreFailed = f], mem'), job' = job
  PROVE  /\ PoolMove
         /\ mem'.active = mem.active /\ mem'.due = mem.due /\ mem'.restoreFailed = f
         /\ Listed => Listed'
<1> DEFINE m == [mem EXCEPT !.restoreFailed = f]
<1>0. mem \in Memories /\ disk \in Disks
  BY DEF RecordsOK
<1>1. /\ m \in Memories /\ m.loaded = mem.loaded /\ m.snapshot = mem.snapshot
      /\ m.candidate = mem.candidate /\ m.checkpoint = mem.checkpoint
      /\ m.due = mem.due /\ m.active = mem.active /\ m.restoreFailed = f
  BY <1>0 DEF Memories
<1>2. mem' \in {m, Load(m)} /\ disk' \in {disk, Marked}
  BY DEF NotActivated
<1> HIDE DEF m
<1>3. Listed => Listed'
  BY <1>2, MarkedListed
<1>4. CASE mem' = m
  BY <1>1, <1>2, <1>3, <1>4 DEF PoolMove, LoadedOK
<1>5. CASE mem' = Load(m) /\ mem.loaded
  <2>1. Load(m) = m
    BY <1>1, <1>5 DEF Load
  <2> QED
    BY <1>1, <1>2, <1>3, <1>5, <2>1 DEF PoolMove, LoadedOK
<1>6. CASE mem' = Load(m) /\ ~mem.loaded
  <2>1. Load(m) = [m EXCEPT !.loaded = TRUE, !.candidate = disk.snapshot,
                            !.checkpoint = disk.checkpoint]
    BY <1>1, <1>6 DEF Load
  <2>2. /\ mem' \in Memories /\ mem'.loaded /\ mem'.snapshot = m.snapshot
        /\ mem'.candidate = disk.snapshot /\ mem'.checkpoint = disk.checkpoint
        /\ mem'.due = m.due /\ mem'.active = m.active /\ mem'.restoreFailed = m.restoreFailed
    BY <1>0, <1>1, <1>6, <2>1 DEF Memories, Disks
  <2> QED
    BY <1>1, <1>2, <1>3, <1>6, <2>2 DEF PoolMove, LoadedOK
<1> QED
  BY <1>2, <1>4, <1>5, <1>6

LEMMA ReadMoves ==
  ASSUME RecordsOK, LoadedOK, Read
  PROVE  /\ PoolMove /\ mem'.due = mem.due /\ UNCHANGED <<chain, proc, armed, met>>
         /\ \/ /\ mem'.active /\ mem'.restoreFailed = mem.restoreFailed
               /\ Enqueue(mem') /\ owed' = TRUE
            \/ /\ mem'.active = mem.active /\ mem'.restoreFailed = mem.restoreFailed
               /\ UNCHANGED <<job, owed>> /\ (Listed => Listed')
<1>0. UNCHANGED <<chain, proc, armed, met>> /\ mem \in Memories
  BY DEF Read, RecordsOK
<1>1. CASE mem' = Activated(mem) /\ disk' = Marked /\ Enqueue(mem') /\ owed' = TRUE
  <2>1. mem'.active /\ mem'.due = mem.due /\ mem'.restoreFailed = mem.restoreFailed
    BY <1>1, LoadFacts
  <2>2. PoolMove
    BY <1>1, <2>1, LoadFacts, EnqueueMoves DEF PoolMove
  <2> QED
    BY <1>0, <1>1, <2>1, <2>2
<1>2. CASE NotActivated(mem, mem') /\ UNCHANGED <<job, owed>>
  <2>1. mem = [mem EXCEPT !.restoreFailed = mem.restoreFailed] /\ mem.restoreFailed \in BOOLEAN
    BY <1>0 DEF Memories
  <2>2. NotActivated([mem EXCEPT !.restoreFailed = mem.restoreFailed], mem')
    BY <1>2, <2>1
  <2> QED
    BY <1>0, <1>2, <2>1, <2>2, NotActivatedMoves
<1> QED
  BY <1>1, <1>2 DEF Read

LEMMA ReadStep ==
  ASSUME IndexInv, Read
  PROVE  IndexInv'
<1>0. /\ RecordsOK /\ LoadedOK /\ TimerOK /\ proc = "up" /\ mem \in Memories
  BY DEF Read, IndexInv, RecordsOK
<1>1. /\ PoolMove /\ mem'.due = mem.due /\ UNCHANGED <<chain, proc, armed, met>>
      /\ mem'.restoreFailed = mem.restoreFailed
  BY <1>0, ReadMoves
<1>2. TimerOK'
  <2>1. CASE mem'.active /\ Enqueue(mem') /\ owed' = TRUE
    <3>1. job'.pc = "idle" => mem.active /\ job.pc = "idle"
      BY <1>0, <1>1, <2>1, EnqueueMoves, PoolStep DEF TimerOK
    <3> QED
      BY <1>0, <1>1, <2>1, <3>1 DEF TimerOK
  <2>2. CASE mem'.active = mem.active /\ UNCHANGED <<job, owed>> /\ (Listed => Listed')
    BY <1>0, <1>1, <2>2 DEF TimerOK
  <2> QED
    BY <1>0, <2>1, <2>2, ReadMoves
<1>3. SeenOK' /\ SeenSinceStart'
  BY <1>0, <1>1, PoolStep DEF IndexInv, SeenOK, SeenSinceStart, PoolMove, chain, TimerOK, LoadedOK
<1>4. LoadedOK'
  BY <1>0, <1>1, PoolStep
<1> QED
  BY <1>1, <1>2, <1>3, <1>4, PoolStep DEF IndexInv

\* After a restore a pool on disk is active, or still on disk for the next one.
LEMMA RestoreMoves ==
  ASSUME RecordsOK, LoadedOK, Restore(mem)
  PROVE  PoolMove /\ (Listed => mem'.active \/ (mem'.restoreFailed /\ Listed'))
<1>0. mem \in Memories /\ disk \in Disks
  BY DEF RecordsOK
<1>1. CASE /\ mem' = [Activated(mem) EXCEPT !.restoreFailed = FALSE]
           /\ disk' = Marked /\ Enqueue(mem')
  <2> DEFINE a == Activated(mem)
  <2>1. a \in Memories
    BY LoadFacts
  <2> HIDE DEF a
  <2>2. /\ mem' \in Memories /\ mem'.loaded = a.loaded /\ mem'.due = a.due
        /\ mem'.snapshot = a.snapshot /\ mem'.active = a.active
        /\ mem'.candidate = a.candidate /\ mem'.checkpoint = a.checkpoint
    BY <1>1, <2>1 DEF Memories, a
  <2>3. /\ a.loaded /\ a.due = mem.due /\ a.snapshot = mem.snapshot /\ a.active
        /\ mem.loaded => a.candidate = mem.candidate /\ a.checkpoint = mem.checkpoint
        /\ ~mem.loaded => a.candidate = disk.snapshot /\ a.checkpoint = disk.checkpoint
                           /\ a.snapshot = None
    BY LoadFacts DEF a
  <2>4. mem'.active
    BY <2>2, <2>3
  <2> QED
    BY <1>1, <2>2, <2>3, <2>4, EnqueueMoves DEF PoolMove
<1>2. ASSUME NEW f \in BOOLEAN, mem' = [mem EXCEPT !.restoreFailed = f],
             UNCHANGED <<disk, job>>, Listed => f
      PROVE  PoolMove /\ (Listed => mem'.active \/ (mem'.restoreFailed /\ Listed'))
  <2>1. NotActivated([mem EXCEPT !.restoreFailed = f], mem')
    BY <1>2 DEF NotActivated
  <2> QED
    BY <1>2, <2>1, NotActivatedMoves
<1>3. CASE NotActivated([mem EXCEPT !.restoreFailed = TRUE], mem') /\ UNCHANGED job
  BY <1>3, NotActivatedMoves
<1> QED
  BY <1>1, <1>2, <1>3 DEF Restore

\* The timer is set by what the step leaves.
LEMMA RescheduleStep ==
  ASSUME IndexInv, UNCHANGED chain, PoolMove, proc \in {"down", "up"}, proc' = "up",
         armed' = (job'.pc = "idle" /\ (mem'.active \/ mem'.restoreFailed)),
         owed' \in BOOLEAN, owed' => mem'.active \/ (mem'.restoreFailed /\ Listed'),
         met' \subseteq 1..2, live \in met', proc = "up" => met' = met
  PROVE  IndexInv'
<1>0. /\ RecordsOK' /\ ChainOK' /\ CheckpointsOK' /\ JobOK' /\ LoadedOK'
      /\ job' # job => job'.pc = "head"
      /\ job'.pc # "idle" => mem'.active
  BY PoolStep
<1>1. TimerOK'
  BY <1>0 DEF TimerOK, PoolMove, IndexInv
<1>2. mem.snapshot # None => mem.snapshot.at[2] \in met' \cup {0}
  BY DEF IndexInv, SeenSinceStart, LoadedOK, TimerOK, Fresh
<1>3. job'.pc = "save" => mem'.checkpoint = mem.checkpoint /\ job.pc = "save" /\ met' = met
  BY <1>0 DEF IndexInv, PoolMove, LoadedOK, TimerOK, Idle
<1>4. SeenOK' /\ SeenSinceStart'
  BY <1>2, <1>3 DEF IndexInv, SeenOK, SeenSinceStart, PoolMove, chain
<1> QED
  BY <1>0, <1>1, <1>4 DEF IndexInv

LEMMA StartStep ==
  ASSUME IndexInv, Start
  PROVE  IndexInv'
<1>1. /\ proc' = "up" /\ met' = {live} /\ owed' = Listed /\ UNCHANGED chain /\ mem = Fresh
      /\ proc = "down" /\ Restore(mem)
      /\ armed' = (job'.pc = "idle" /\ (mem'.active \/ mem'.restoreFailed))
  BY DEF Start, IndexInv, LoadedOK, Armed
<1>2. live \in 1..2 /\ RecordsOK /\ LoadedOK /\ Listed \in BOOLEAN
  BY DEF IndexInv, ChainOK, Listed, RecordsOK, Disks
<1> QED
  BY <1>1, <1>2, RestoreMoves, RescheduleStep

LEMMA TimerFiresStep ==
  ASSUME IndexInv, TimerFires
  PROVE  IndexInv'
<1>0. /\ armed /\ proc = "up" /\ UNCHANGED <<chain, proc, met, owed>>
      /\ armed' = (job'.pc = "idle" /\ (mem'.active \/ mem'.restoreFailed))
      /\ RecordsOK /\ LoadedOK /\ TimerOK /\ live \in met /\ met \subseteq 1..2
  BY DEF TimerFires, IndexInv, TimerOK, ScheduleNext, Armed, SeenOK
<1>1. CASE Restore(mem)
  <2>1. PoolMove /\ (Listed => mem'.active \/ (mem'.restoreFailed /\ Listed'))
    BY <1>0, <1>1, RestoreMoves
  <2>2. owed' \in BOOLEAN /\ (owed' => mem'.active \/ (mem'.restoreFailed /\ Listed'))
    BY <1>0, <2>1 DEF TimerOK, PoolMove
  <2> QED
    BY <1>0, <2>1, <2>2, RescheduleStep
<1>2. CASE ~mem.restoreFailed /\ Enqueue(mem) /\ UNCHANGED <<mem, disk>>
  <2>1. mem.active
    BY <1>0, <1>2 DEF TimerOK
  <2>2. PoolMove
    BY <1>0, <1>2, <2>1, EnqueueMoves DEF PoolMove, RecordsOK, LoadedOK
  <2> QED
    BY <1>0, <1>2, <2>1, <2>2, RescheduleStep DEF TimerOK
<1> QED
  BY <1>1, <1>2 DEF TimerFires

LEMMA LifeStep ==
  ASSUME IndexInv, BecomesDue \/ Crash \/ Close \/ Closed
  PROVE  IndexInv'
<1>0. /\ RecordsOK /\ ChainOK /\ CheckpointsOK /\ JobOK /\ LoadedOK /\ TimerOK /\ SeenOK
      /\ SeenSinceStart /\ mem \in Memories
  BY DEF IndexInv, RecordsOK
<1>1. Fresh \in Memories /\ Idle \in Jobs
  BY PrivacyAssumption DEF Fresh, Idle, Memories, Jobs, LeafSets
<1> USE DEF chain
<1>2. CASE BecomesDue
  <2>1. mem' = [mem EXCEPT !.due = TRUE] /\ UNCHANGED <<chain, disk, proc, armed, job, met, owed>>
    BY <1>2 DEF BecomesDue
  <2>2. /\ mem' \in Memories /\ mem'.loaded = mem.loaded /\ mem'.due
        /\ mem'.snapshot = mem.snapshot /\ mem'.active = mem.active
        /\ mem'.candidate = mem.candidate /\ mem'.checkpoint = mem.checkpoint
        /\ mem'.restoreFailed = mem.restoreFailed
    BY <1>0, <2>1 DEF Memories
  <2>3. RecordsOK' /\ ChainOK' /\ CheckpointsOK' /\ JobOK'
    BY <1>0, <2>1, <2>2, SameTypes
    DEF RecordsOK, ChainOK, CheckpointsOK, JobOK, ScannedTo, Saved
  <2>4. LoadedOK' /\ TimerOK' /\ SeenOK' /\ SeenSinceStart'
    BY <1>0, <1>2, <2>1, <2>2
    DEF BecomesDue, LoadedOK, TimerOK, SeenOK, SeenSinceStart, Listed
  <2> QED
    BY <2>3, <2>4 DEF IndexInv
<1>3. CASE Crash \/ Closed
  <2>1. /\ mem' = Fresh /\ job' = Idle /\ ~armed' /\ proc' = "down" /\ owed' = FALSE
        /\ UNCHANGED <<chain, disk, met>>
    BY <1>0, <1>3 DEF Crash, Closed, TimerOK, JobOK
  <2>2. RecordsOK' /\ ChainOK' /\ CheckpointsOK'
    BY <1>0, <1>1, <2>1, SameTypes DEF RecordsOK, ChainOK, CheckpointsOK, ScannedTo, Fresh
  <2>3. JobOK' /\ LoadedOK' /\ TimerOK' /\ SeenOK' /\ SeenSinceStart'
    <3>1. mem'.snapshot = None /\ mem'.due /\ ~mem'.active /\ job'.pc = "idle"
      BY <2>1 DEF Fresh, Idle
    <3>2. JobOK' /\ SeenOK' /\ SeenSinceStart'
      BY <1>0, <2>1, <3>1 DEF JobOK, Scanning, SeenOK, SeenSinceStart
    <3>3. LoadedOK'
      BY <2>1 DEF LoadedOK, Fresh, Idle
    <3>4. armed' \in BOOLEAN
      BY <1>0, <1>3 DEF Crash, Closed, TimerOK
    <3>5. TimerOK'
      BY <2>1, <3>1, <3>4 DEF TimerOK
    <3> QED
      BY <3>2, <3>3, <3>5
  <2> QED
    BY <2>2, <2>3 DEF IndexInv
<1>4. CASE Close
  <2>1. proc' = "closing" /\ proc = "up" /\ armed' = FALSE
        /\ UNCHANGED <<chain, disk, mem, job, met, owed>>
    BY <1>4 DEF Close
  <2>2. RecordsOK' /\ ChainOK' /\ CheckpointsOK' /\ JobOK'
    BY <1>0, <2>1, SameTypes
    DEF RecordsOK, ChainOK, CheckpointsOK, JobOK, ScannedTo, Saved
  <2>3. LoadedOK' /\ TimerOK' /\ SeenOK' /\ SeenSinceStart'
    BY <1>0, <2>1 DEF LoadedOK, TimerOK, Listed, SeenOK, SeenSinceStart
  <2> QED
    BY <2>2, <2>3 DEF IndexInv
<1> QED
  BY <1>2, <1>3, <1>4

LEMMA WorldStep ==
  ASSUME IndexInv, Mine \/ Reorganise \/ UNCHANGED vars
  PROVE  IndexInv'
<1>0. /\ RecordsOK /\ ChainOK /\ CheckpointsOK /\ JobOK /\ LoadedOK /\ TimerOK /\ SeenOK
      /\ SeenSinceStart
  BY DEF IndexInv
<1>1. /\ UNCHANGED <<disk, proc, mem, armed, job, owed>> /\ fork' = fork
      /\ met \subseteq met' /\ met' \subseteq met \cup {live'} /\ (live' = live \/ live' \in met')
  BY DEF Mine, Reorganise, vars
<1>2. ChainOK'
  BY ChainStep, <1>0 DEF Next
<1>3. RecordsOK' /\ CheckpointsOK' /\ JobOK' /\ LoadedOK' /\ TimerOK'
  BY <1>0, <1>1, SameTypes
  DEF RecordsOK, CheckpointsOK, JobOK, LoadedOK, TimerOK, ScannedTo, Saved, Listed
<1>4. SeenOK' /\ SeenSinceStart'
  BY <1>0, <1>1, <1>2 DEF SeenOK, SeenSinceStart, ChainOK
<1> QED
  BY <1>2, <1>3, <1>4 DEF IndexInv

LEMMA IndexStep ==
  ASSUME IndexInv, [Next]_vars
  PROVE  IndexInv'
<1>1. CASE StopsReading
  BY <1>1, CatchStep DEF StopsReading
<1>2. CASE CallFails
  BY <1>2, GiveUpStep DEF CallFails, Reading
<1>3. CASE Step
  BY <1>3, ReadHeadStep, VerifySavedStep, ResumeStep, ExpectStep, ReadBoundaryStep,
     ReadEventsStep, AssertBoundaryStep, AssertTargetStep, SaveSnapshotStep, StoreStep DEF Step
<1> QED
  BY <1>1, <1>2, <1>3, ShrinkRangeStep, StoreStep, ReadStep, StartStep, TimerFiresStep,
     LifeStep, WorldStep DEF Next

\* What a job knows at each of its reads, what is in memory and in the files,
\* and when the timer is set.
THEOREM IndexInvariant == Spec => []IndexInv
BY IndexInit, IndexStep, PTL DEF Spec

\* Type correctness, and that a scan stays below its target.
THEOREM TypeCorrect == Spec => []TypeOK
<1>1. IndexInv => TypeOK
  BY PrivacyAssumption
  DEF IndexInv, TypeOK, RecordsOK, ChainOK, CheckpointsOK, LoadedOK, JobOK, TimerOK, SeenOK,
      Disks, Memories, Jobs, Scanning, Idle
<1> QED
  BY IndexInvariant, <1>1, PTL

\* A saved snapshot is served only once this process has seen its block
\* canonical, on however many branches the chain has been since it started.
THEOREM SeenSinceStartAlways == Spec => []SeenSinceStart
<1>1. IndexInv => SeenSinceStart
  BY DEF IndexInv
<1> QED
  BY IndexInvariant, <1>1, PTL

\* A pool found on disk at the start, or of which a GET was answered, is never
\* forgotten, whichever of the reads, writes and restores of the scheduler fail,
\* before their effect or after it.
THEOREM NeverForgottenAlways == Spec => []NeverForgotten
<1>1. IndexInv => NeverForgotten
  BY DEF IndexInv, TimerOK, NeverForgotten
<1> QED
  BY IndexInvariant, <1>1, PTL

\* While a process serves a view it never replaces it by that of an earlier
\* block: what a job saves is the target it took up, checked against the view.
THEOREM NeverBackwardsAlways == Spec => NeverBackwards
<1>1. IndexInv /\ [Next]_vars =>
        [mem.snapshot # None /\ mem'.snapshot # None
           => mem'.snapshot.at[1] >= mem.snapshot.at[1]]_vars
  <2> SUFFICES ASSUME IndexInv, Next, mem.snapshot # None, mem'.snapshot # None
               PROVE  mem'.snapshot.at[1] >= mem.snapshot.at[1]
    OBVIOUS
  <2>0. mem \in Memories /\ mem.snapshot \in Views /\ mem.snapshot.at[1] \in Int
    BY HashFacts DEF IndexInv, RecordsOK, Memories, Views
  <2>1. mem' = mem \/ Finish(mem) \/ OnReorg \/ OnGap => mem'.snapshot \in {None, mem.snapshot}
    BY <2>0 DEF Finish, OnReorg, OnGap, Memories
  <2>2. CASE SaveSnapshot
    <3>1. mem'.snapshot.at = mem.checkpoint.target
      BY <2>0, <2>2 DEF SaveSnapshot, View, Memories
    <3>2. mem.snapshot.at[1] <= mem.checkpoint.target[1] /\ mem.checkpoint.target[1] \in Int
      BY <2>2, ScanFacts, CheckpointFacts DEF SaveSnapshot
    <3> QED
      BY <2>0, <3>1, <3>2
  <2>3. CASE VerifySaved \/ Resume \/ AssertBoundary
    <3>1. mem'.snapshot \in {None, mem.snapshot}
      BY <2>0, <2>1, <2>3 DEF VerifySaved, Resume, AssertBoundary, Saved, Memories
    <3> QED
      BY <2>0, <3>1
  <2>4. CASE ReadHead \/ Expect \/ ReadBoundary \/ ReadEvents \/ AssertTarget \/ DropCheckpoint
             \/ SaveCheckpoint \/ RemoveSnapshot \/ RemoveCheckpoint
    <3>1. mem' = mem \/ Finish(mem) \/ OnReorg \/ OnGap
      BY <2>4 DEF ReadHead, Expect, ReadBoundary, ReadEvents, AssertTarget, DropCheckpoint,
         SaveCheckpoint, RemoveSnapshot, RemoveCheckpoint
    <3> QED
      BY <2>0, <2>1, <3>1
  <2>5. CASE StopsReading \/ CallFails \/ ShrinkRange \/ StoreFails \/ Reorganise \/ Mine
    <3>1. mem' = mem \/ Finish(mem) \/ OnReorg \/ OnGap
      BY <2>5 DEF StopsReading, OnStop, CallFails, ShrinkRange, StoreFails, Reorganise, Mine
    <3> QED
      BY <2>0, <2>1, <3>1
  <2>6. CASE Read \/ Start \/ TimerFires
    <3>1. mem.loaded
      BY DEF IndexInv, LoadedOK
    <3>2. proc # "down"
      BY DEF IndexInv, LoadedOK, Fresh
    <3>3. mem'.snapshot = mem.snapshot
      BY <2>0, <2>6, <3>1, <3>2 DEF Read, Start, TimerFires, Restore, NotActivated, Activated, Load, Memories
    <3> QED
      BY <2>0, <3>3
  <2>7. CASE BecomesDue \/ Crash \/ Close \/ Closed
    <3>1. mem'.snapshot \in {None, mem.snapshot}
      BY <2>0, <2>7 DEF BecomesDue, Crash, Close, Closed, Fresh, Memories
    <3> QED
      BY <2>0, <3>1
  <2> QED
    BY <2>2, <2>3, <2>4, <2>5, <2>6, <2>7 DEF Next, Step
<1> QED
  BY <1>1, IndexInvariant, PTL DEF Spec, NeverBackwards

-----------------------------------------------------------------------------
(* OneFork, where a branch that lost does not come back.                   *)

\* The deposits up to a block are among those up to a later one of the branch.
LEMMA LeavesGrow ==
  ASSUME ChainOK, NEW h \in Hashes, NEW g \in Hashes, Open(h), Open(g), h[1] <= g[1]
  PROVE  Leaves(h) \subseteq Leaves(g)
<1> DEFINE d(n) == {k \in 1..n : branch[live][k]}
           l(n, k) == [index |-> Cardinality({j \in d(n) : j < k}), at |-> Hash(live, k)]
<1>1. BranchOf(h) = live /\ BranchOf(g) = live
  BY DEF Open, BranchOf
<1>2. Leaves(h) = {l(h[1], k) : k \in d(h[1])} /\ Leaves(g) = {l(g[1], k) : k \in d(g[1])}
  BY <1>1 DEF Leaves
<1>3. h[1] \in Nat /\ g[1] \in Nat
  BY HashFacts
<1>4. ASSUME NEW k \in d(h[1]) PROVE k \in d(g[1]) /\ l(h[1], k) = l(g[1], k)
  <2>1. {j \in d(h[1]) : j < k} = {j \in d(g[1]) : j < k}
    BY <1>3
  <2> QED
    BY <1>3, <2>1
<1> HIDE DEF d, l
<1> QED
  BY <1>2, <1>4

\* Nothing about a block changes while the chain stands.
LEMMA SameBlocks ==
  ASSUME UNCHANGED chain, NEW h
  PROVE  Leaves(h)' = Leaves(h) /\ Open(h)' = Open(h) /\ Known(h)' = Known(h)
BY DEF chain, Leaves, Open, Known, BranchOf, Hash

LEMMA SameSound ==
  ASSUME UNCHANGED chain, NEW c
  PROVE  Sound(c)' = Sound(c)
BY SameBlocks DEF Sound

\* What a block that was read says stays so while the chain grows and turns.
LEMMA BlocksKept ==
  ASSUME ChainOK, live = 1 + switches, NoReturn, Mine \/ Reorganise, NEW h \in Hashes, Known(h)
  PROVE  Known(h)' /\ Leaves(h)' = Leaves(h) /\ (Open(h)' => Open(h))
<1>0. h[1] \in 1..MaxHeight /\ h[2] \in 0..2 /\ (h[1] <= fork <=> h[2] = 0)
  BY HashFacts
<1> DEFINE b == BranchOf(h)
<1>1. fork' = fork
  BY DEF Mine, Reorganise
<1>2. CASE Mine
  <2>1. PICK deposit \in BOOLEAN : branch' = [branch EXCEPT ![live] = Append(branch[live], deposit)]
    BY <1>2 DEF Mine
  <2>2. live' = live /\ BranchOf(h)' = b
    BY <1>2 DEF Mine, BranchOf
  <2>3. b \in 1..2 /\ branch[b] \in Seq(BOOLEAN) /\ h[1] <= Len(branch[b])
    BY <1>0 DEF BranchOf, Known, ChainOK
  <2> HIDE DEF b
  <2>4. \/ branch'[b] = branch[b]
        \/ branch'[b] = Append(branch[b], deposit)
    BY <2>1, <2>3 DEF ChainOK
  <2>5. Len(branch[b]) <= Len(branch'[b]) /\ \A k \in 1..Len(branch[b]) : branch'[b][k] = branch[b][k]
    BY <2>3, <2>4
  <2>6. \A k \in 1..h[1] : branch'[b][k] = branch[b][k]
    BY <1>0, <2>3, <2>5
  <2>7. {k \in 1..h[1] : branch'[b][k]} = {k \in 1..h[1] : branch[b][k]}
    BY <2>6
  <2>8. Leaves(h)' = Leaves(h)
    BY <1>1, <2>2, <2>7 DEF Leaves, Hash, b
  <2>9. Known(h)' /\ Open(h)' = Open(h)
    <3>1. Len(branch[b]) \in Nat /\ Len(branch'[b]) \in Nat
      BY <2>3, <2>4
    <3> QED
      BY <1>0, <2>2, <2>3, <2>5, <3>1 DEF Known, Open, b
  <2> QED
    BY <2>8, <2>9
<1>3. CASE Reorganise
  <2>1. live = 1 /\ live' = 2
    BY <1>3, PrivacyAssumption DEF Reorganise, NoReturn, ChainOK
  <2>a. PICK n \in 0..(MaxHeight - Len(branch[2])) : \E more \in [1..n -> BOOLEAN] :
          branch' = [branch EXCEPT ![2] = branch[2] \o more]
    BY <1>3, <2>1 DEF Reorganise
  <2>b. PICK more \in [1..n -> BOOLEAN] : branch' = [branch EXCEPT ![2] = branch[2] \o more]
    BY <2>a
  <2>c. branch[2] \in Seq(BOOLEAN) /\ more \in Seq(BOOLEAN) /\ Len(branch[2]) \in 1..MaxHeight
    BY <2>b DEF ChainOK
  <2>d. (branch[2] \o more)[1] = branch[2][1] /\ Len(branch[2] \o more) >= 1
    BY <2>c
  <2>2. branch'[1] = branch[1] /\ branch'[2][1] = branch[2][1] /\ Len(branch'[2]) >= 1
    BY <2>b, <2>d DEF ChainOK
  <2>3. h[2] \in {0, 1}
    BY <1>0, <2>1 DEF Known
  <2>4. CASE h[2] = 1
    <3>1. b = 1 /\ BranchOf(h)' = 1
      BY <2>4 DEF BranchOf
    <3>2. Leaves(h)' = Leaves(h)
      BY <1>1, <2>2, <3>1 DEF Leaves, Hash
    <3> QED
      BY <2>1, <2>2, <2>4, <3>1, <3>2 DEF Known, Open
  <2>5. CASE h[2] = 0
    <3>1. b = 1 /\ BranchOf(h)' = 2
      BY <2>1, <2>5 DEF BranchOf
    <3>2. h[1] = 1 /\ fork = 1 /\ branch[1][1] = branch'[2][1]
      BY <1>0, <2>2, <2>5 DEF ChainOK
    <3>3. {k \in 1..h[1] : branch'[2][k]} = {k \in 1..h[1] : branch[1][k]}
      BY <3>2
    <3>4. \A k \in 1..h[1] : Hash(1, k) = Hash(2, k)
      BY <3>2 DEF Hash
    <3>5. Leaves(h)' = Leaves(h)
      <4> DEFINE D == {k \in 1..h[1] : branch[1][k]}
                 i(k) == Cardinality({j \in D : j < k})
      <4>1. Leaves(h) = {[index |-> i(k), at |-> Hash(1, k)] : k \in D}
        BY <3>1 DEF Leaves
      <4>2. Leaves(h)' = {[index |-> i(k), at |-> Hash(2, k)] : k \in D}
        <5> DEFINE E == {k \in 1..h[1] : branch'[2][k]}
        <5>1. Leaves(h)' = {[index |-> Cardinality({j \in E : j < k}), at |-> Hash(2, k)] : k \in E}
          BY <1>1, <3>1 DEF Leaves, Hash
        <5>2. E = D
          BY <3>3
        <5> HIDE DEF E, D
        <5> QED
          BY <5>1, <5>2
      <4>3. \A k \in D : Hash(1, k) = Hash(2, k)
        BY <3>4
      <4> HIDE DEF D, i
      <4> QED
        BY <4>1, <4>2, <4>3
    <3> QED
      BY <2>1, <2>2, <2>5, <3>1, <3>2, <3>5 DEF Known, Open
  <2> QED
    BY <2>3, <2>4, <2>5
<1> QED
  BY <1>2, <1>3

\* ForkOK, part by part, of a step that leaves the chain alone.
LEMMA ForkNext ==
  ASSUME ForkInv, UNCHANGED chain,
         \A s \in {mem'.snapshot, mem'.candidate, disk'.snapshot} \ {None} :
           Known(s.at) /\ s.leaves = Leaves(s.at),
         \A c \in {mem'.checkpoint, disk'.checkpoint} \ {None} : Sound(c),
         \A h \in {job'.head, job'.boundary} \ {None} : Known(h),
         job'.pc = "resume" /\ mem'.snapshot # None /\ Open(job'.head) => Open(mem'.snapshot.at),
         job'.pc \in Scanning \ {"expect"} /\ Open(mem'.checkpoint.target) =>
           job'.count = Cardinality(Leaves(mem'.checkpoint.target)),
         job'.pc = "assert" /\ Open(job'.boundary) => job'.rows \subseteq Leaves(job'.boundary),
         job'.pc = "save" => mem'.checkpoint.leaves = Leaves(mem'.checkpoint.target)
  PROVE  ForkOK'
<1>1. live' = 1 + switches'
  BY DEF ForkInv, ForkOK, chain
<1>2. (\A s \in {mem.snapshot, mem.candidate, disk.snapshot} \ {None} :
         Known(s.at) /\ s.leaves = Leaves(s.at))'
  BY SameBlocks
<1>3. (\A c \in {mem.checkpoint, disk.checkpoint} \ {None} : Sound(c))'
  BY SameSound
<1>4. (\A h \in {job.head, job.boundary} \ {None} : Known(h))'
  BY SameBlocks
<1>5. (job.pc = "resume" /\ mem.snapshot # None /\ Open(job.head) => Open(mem.snapshot.at))'
  BY SameBlocks
<1>6. (job.pc \in Scanning \ {"expect"} /\ Open(mem.checkpoint.target) =>
         job.count = Cardinality(Leaves(mem.checkpoint.target)))'
  BY SameBlocks DEF Scanning
<1>7. (job.pc = "assert" /\ Open(job.boundary) => job.rows \subseteq Leaves(job.boundary))'
  BY SameBlocks
<1>8. (job.pc = "save" => mem.checkpoint.leaves = Leaves(mem.checkpoint.target))'
  BY SameBlocks
<1> QED
  BY <1>1, <1>2, <1>3, <1>4, <1>5, <1>6, <1>7, <1>8 DEF ForkOK

\* A step that learns nothing: it keeps, forgets or moves what is known.
LEMMA ForkKept ==
  ASSUME ForkInv, UNCHANGED chain,
         mem'.snapshot \in {None, mem.snapshot}, mem'.candidate \in {None, mem.candidate, disk.snapshot},
         disk'.snapshot \in {None, disk.snapshot},
         mem'.checkpoint \in {None, mem.checkpoint, disk.checkpoint},
         disk'.checkpoint \in {None, mem.checkpoint, disk.checkpoint},
         job'.head \in {None, job.head}, job'.boundary \in {None, job.boundary},
         job'.pc \notin {"resume", "save"} \cup (Scanning \ {"expect"})
  PROVE  ForkOK'
<1>1. /\ \A s \in {mem'.snapshot, mem'.candidate, disk'.snapshot} \ {None} :
           s \in {mem.snapshot, mem.candidate, disk.snapshot} \ {None}
      /\ \A c \in {mem'.checkpoint, disk'.checkpoint} \ {None} :
           c \in {mem.checkpoint, disk.checkpoint} \ {None}
      /\ \A h \in {job'.head, job'.boundary} \ {None} : h \in {job.head, job.boundary} \ {None}
  OBVIOUS
<1>2. /\ \A s \in {mem'.snapshot, mem'.candidate, disk'.snapshot} \ {None} :
           Known(s.at) /\ s.leaves = Leaves(s.at)
      /\ \A c \in {mem'.checkpoint, disk'.checkpoint} \ {None} : Sound(c)
      /\ \A h \in {job'.head, job'.boundary} \ {None} : Known(h)
  BY <1>1 DEF ForkInv, ForkOK
<1>3. job'.pc # "resume" /\ job'.pc \notin Scanning \ {"expect"} /\ job'.pc # "assert" /\ job'.pc # "save"
  BY DEF Scanning
<1> QED
  BY <1>2, <1>3, ForkNext

LEMMA ForkFinish ==
  ASSUME ForkInv, Finish(mem), Kept, disk'.snapshot \in {None, disk.snapshot},
         disk'.checkpoint \in {None, mem.checkpoint, disk.checkpoint}
  PROVE  ForkOK'
<1>1. UNCHANGED chain
  BY DEF Kept
<1>2. /\ mem'.snapshot = mem.snapshot /\ mem'.candidate = mem.candidate
      /\ mem'.checkpoint = mem.checkpoint
  BY DEF Finish, ForkInv, IndexInv, RecordsOK, Memories
<1>3. job'.head = None /\ job'.boundary = None /\ job'.pc = "idle"
  BY DEF Finish, Idle
<1> QED
  BY <1>1, <1>2, <1>3, ForkKept DEF Scanning

LEMMA ForkCatch ==
  ASSUME ForkInv, Kept, disk' = disk, OnReorg \/ OnGap \/ OnStop
  PROVE  ForkOK'
<1>0. UNCHANGED chain /\ mem \in Memories /\ job \in Jobs
  BY DEF Kept, ForkInv, IndexInv, RecordsOK
<1>1. CASE Finish(mem)
  BY <1>1, ForkFinish
<1>2. CASE ~Finish(mem)
  <2>1. /\ mem'.snapshot \in {None, mem.snapshot} /\ mem'.candidate \in {None, mem.candidate}
        /\ mem'.checkpoint \in {None, mem.checkpoint}
    BY <1>0, <1>2 DEF OnReorg, OnGap, OnStop, Memories
  <2>2. /\ job'.head = job.head /\ job'.boundary = job.boundary
        /\ job'.pc \in {"resetSnapshot", "gap", "park"}
    BY <1>0, <1>2 DEF OnReorg, OnGap, OnStop, To, Jobs
  <2> QED
    BY <1>0, <2>1, <2>2, ForkKept DEF Scanning
<1> QED
  BY <1>1, <1>2

\* A step of the job that touches neither memory nor files.
LEMMA ForkReads ==
  ASSUME ForkInv, UNCHANGED chain, UNCHANGED <<mem, disk>>,
         \A h \in {job'.head, job'.boundary} \ {None} : Known(h),
         job'.pc = "resume" /\ mem.snapshot # None /\ Open(job'.head) => Open(mem.snapshot.at),
         job'.pc \in Scanning \ {"expect"} /\ Open(mem.checkpoint.target) =>
           job'.count = Cardinality(Leaves(mem.checkpoint.target)),
         job'.pc = "assert" /\ Open(job'.boundary) => job'.rows \subseteq Leaves(job'.boundary),
         job'.pc = "save" => mem.checkpoint.leaves = Leaves(mem.checkpoint.target)
  PROVE  ForkOK'
BY ForkNext DEF ForkInv, ForkOK

\* A canonical block is known, and of the live branch.
LEMMA CanonicalFacts ==
  ASSUME ChainOK, NEW h \in Hashes, Canonical(h)
  PROVE  Open(h) /\ Known(h)
<1>1. h[1] <= Len(branch[live]) /\ h[2] \in {0, live} /\ live \in 1..2
  BY HashFacts, TipType DEF Canonical, Missing, Height, Hash, ChainOK
<1> QED
  BY <1>1 DEF Open, Known, BranchOf

LEMMA LiveFacts ==
  ASSUME ChainOK, NEW n \in 1..Height
  PROVE  /\ Hash(live, n) \in Hashes /\ Hash(live, n)[1] = n
         /\ Open(Hash(live, n)) /\ Known(Hash(live, n))
<1>1. n \in 1..MaxHeight
  BY TipType, PrivacyAssumption
<1>2. Hash(live, n) \in Hashes /\ Hash(live, n)[1] = n
  BY <1>1, HashType DEF ChainOK, Hash
<1>3. Canonical(Hash(live, n))
  BY <1>2, TipType DEF Canonical, Missing
<1> QED
  BY <1>2, <1>3, CanonicalFacts

\* What an unchanged part of ForkOK gives the steps of a job.
LEMMA ForkFacts ==
  ASSUME ForkInv
  PROVE  /\ ChainOK /\ job \in Jobs /\ mem \in Memories /\ disk \in Disks
         /\ mem.snapshot # None => /\ mem.snapshot \in Views /\ Known(mem.snapshot.at)
                                   /\ mem.snapshot.leaves = Leaves(mem.snapshot.at)
         /\ mem.checkpoint # None => mem.checkpoint \in Checkpoints /\ Sound(mem.checkpoint)
         /\ job.head # None => job.head \in Hashes /\ Known(job.head)
         /\ job.boundary # None => job.boundary \in Hashes /\ Known(job.boundary)
BY DEF ForkInv, IndexInv, RecordsOK, ForkOK, Memories, Jobs

LEMMA ForkReadHead ==
  ASSUME ForkInv, ReadHead
  PROVE  ForkOK'
<1> DEFINE pc == IF Saved(mem) # None THEN "verify" ELSE "resume"
           head == Hash(live, Height)
<1>1. /\ job' = [job EXCEPT !.head = head, !.pc = pc] /\ UNCHANGED <<mem, armed, disk>>
      /\ UNCHANGED chain
  BY DEF ReadHead, Kept
<1>2. Known(head) /\ pc \in {"verify", "resume"} /\ (pc = "resume" => mem.snapshot = None)
  <2>1. Height \in 1..Height
    BY ForkFacts, TipType
  <2> QED
    BY <2>1, ForkFacts, LiveFacts DEF Saved
<1> HIDE DEF pc, head
<1>3. job'.head = head /\ job'.pc = pc /\ job'.boundary = job.boundary
  BY <1>1, ForkFacts DEF Jobs
<1> QED
  BY <1>1, <1>2, <1>3, ForkFacts, ForkReads DEF Scanning

LEMMA ForkVerifySaved ==
  ASSUME ForkInv, VerifySaved
  PROVE  ForkOK'
<1> DEFINE s == Saved(mem)
<1>0. /\ job.pc = "verify" /\ Kept /\ UNCHANGED disk /\ s # None /\ s \in Views
      /\ Known(s.at) /\ s.leaves = Leaves(s.at)
  BY ForkFacts DEF VerifySaved, ForkInv, IndexInv, JobOK, Saved, ForkOK, Memories
<1>1. CASE OnReorg \/ Finish(mem)
  BY <1>0, <1>1, ForkCatch, ForkFinish
<1>2. CASE /\ Matches(s) /\ mem' = [mem EXCEPT !.snapshot = s, !.candidate = None]
           /\ To("resume")
  <2> HIDE DEF s
  <2>1. Open(s.at)
    BY <1>0, <1>2, ForkFacts, CanonicalFacts DEF Matches, Views
  <2>2. /\ mem'.snapshot = s /\ mem'.candidate = None /\ mem'.checkpoint = mem.checkpoint
        /\ job'.pc = "resume" /\ job'.head = job.head /\ job'.boundary = job.boundary
    BY <1>2, ForkFacts DEF Memories, Jobs, To
  <2>3. UNCHANGED chain
    BY <1>0 DEF Kept
  <2> QED
    BY <1>0, <2>1, <2>2, <2>3, ForkNext DEF ForkInv, ForkOK, Scanning
<1> QED
  BY <1>1, <1>2 DEF VerifySaved

LEMMA ForkResume ==
  ASSUME ForkInv, Resume
  PROVE  ForkOK'
<1> DEFINE b == Begun(mem, job.head)
<1>0. /\ job.pc = "resume" /\ Kept /\ UNCHANGED disk /\ UNCHANGED chain /\ job.head # None
      /\ mem.snapshot # None => mem.snapshot.at[1] <= job.head[1]
  BY DEF Resume, Kept, ForkInv, IndexInv, JobOK
<1>1. CASE OnReorg \/ Finish(mem)
  BY <1>0, <1>1, ForkCatch, ForkFinish
<1>2. ASSUME ToScan PROVE job'.pc = "expect" /\ job'.head = None /\ job'.boundary = job.boundary
  BY <1>2, ForkFacts DEF ToScan, Jobs
<1>3. CASE ToScan /\ UNCHANGED <<mem, armed>>
  BY <1>0, <1>2, <1>3, ForkKept DEF Scanning
<1>4. CASE mem' = [mem EXCEPT !.checkpoint = b] /\ ToScan
  <2>1. b.target = job.head /\ b.leaves = IF mem.snapshot = None THEN {} ELSE mem.snapshot.leaves
    BY DEF Begun
  <2>2. Sound(b)
    <3>1. Known(job.head) /\ job.head \in Hashes
      BY <1>0, ForkFacts
    <3>2. ASSUME mem.snapshot # None, Open(job.head)
          PROVE  mem.snapshot.leaves \subseteq Leaves(job.head)
      <4>1. Open(mem.snapshot.at) /\ mem.snapshot.at \in Hashes
        BY <1>0, <3>2, ForkFacts DEF ForkInv, ForkOK, Views
      <4> QED
        BY <1>0, <3>1, <3>2, <4>1, ForkFacts, LeavesGrow
    <3> QED
      BY <2>1, <3>1, <3>2 DEF Sound
  <2> HIDE DEF b
  <2>3. /\ mem'.snapshot = mem.snapshot /\ mem'.candidate = mem.candidate /\ mem'.checkpoint = b
    BY <1>4, ForkFacts DEF Memories
  <2> QED
    BY <1>0, <1>2, <1>4, <2>2, <2>3, ForkNext DEF ForkInv, ForkOK, Scanning
<1> QED
  BY <1>1, <1>3, <1>4 DEF Resume

\* The next range of a checkpoint whose target is of the count's branch.
LEMMA ForkChunk ==
  ASSUME ForkInv, UNCHANGED chain, disk' = disk,
         NEW c \in Checkpoints, Sound(c), NEW j \in Jobs,
         mem'.snapshot = mem.snapshot, mem'.candidate = mem.candidate, mem'.checkpoint = c,
         NextChunk(c, j) \/ job' = [j EXCEPT !.pc = "final"],
         j.head \in {None, job.head}, j.boundary \in {None, job.boundary},
         Open(c.target) => j.count = Cardinality(Leaves(c.target))
  PROVE  ForkOK'
<1>1. /\ job'.pc \in {"final", "boundary"} /\ job'.head = j.head /\ job'.boundary = j.boundary
      /\ job'.count = j.count
  BY DEF NextChunk, Jobs
<1>2. \A h \in {job'.head, job'.boundary} \ {None} : Known(h)
  BY <1>1, ForkFacts
<1> QED
  BY <1>1, <1>2, ForkNext DEF ForkInv, ForkOK, Scanning

LEMMA ForkExpect ==
  ASSUME ForkInv, Expect
  PROVE  ForkOK'
<1> DEFINE c == mem.checkpoint
           n == Cardinality(Leaves(c.target))
           j == [job EXCEPT !.count = n]
<1>0. job.pc = "expect" /\ Kept /\ UNCHANGED disk /\ UNCHANGED chain
  BY DEF Expect, Kept
<1>1. CASE OnReorg \/ OnGap \/ Finish(mem)
  BY <1>0, <1>1, ForkCatch, ForkFinish
<1>2. CASE NextChunk(c, j) /\ UNCHANGED <<mem, armed>>
  <2>1. c \in Checkpoints /\ c # None /\ Sound(c)
    BY <1>0, ScanFacts, ForkFacts DEF ForkInv, Scanning
  <2>2. n \in Nat
    BY <2>1, ForkFacts, LeavesFinite, CheckpointFacts, FS_CardinalityType
  <2> HIDE DEF n
  <2>3. j \in Jobs /\ j.head = job.head /\ j.boundary = job.boundary /\ j.count = n
    BY <2>2, ForkFacts DEF Jobs
  <2> HIDE DEF c, j
  <2> QED
    BY <1>0, <1>2, <2>1, <2>3, ForkChunk DEF c, n
<1> QED
  BY <1>1, <1>2 DEF Expect

LEMMA ForkReadBoundary ==
  ASSUME ForkInv, ReadBoundary
  PROVE  ForkOK'
<1> DEFINE h == Hash(live, job.to)
<1>0. /\ job.pc = "boundary" /\ Kept /\ UNCHANGED disk /\ UNCHANGED chain
      /\ job.to \in (ScannedTo(mem.checkpoint) + 1)..mem.checkpoint.target[1]
  BY DEF ReadBoundary, Kept, ForkInv, IndexInv, JobOK
<1>1. CASE Finish(mem)
  BY <1>0, <1>1, ForkFinish
<1>2. CASE /\ ~(job.to > Height) /\ UNCHANGED <<mem, armed>>
           /\ job' = [job EXCEPT !.pc = "events", !.boundary = h]
  <2>1. job.to \in 1..Height
    BY <1>0, <1>2, ScanFacts, ForkFacts, CheckpointFacts, TipType DEF ForkInv, Scanning
  <2>2. Known(h)
    BY <2>1, ForkFacts, LiveFacts
  <2> HIDE DEF h
  <2>3. /\ job'.pc = "events" /\ job'.head = job.head /\ job'.boundary = h
        /\ job'.count = job.count
    BY <1>2, ForkFacts DEF Jobs
  <2> QED
    BY <1>0, <1>2, <2>2, <2>3, ForkFacts, ForkReads DEF ForkInv, ForkOK, Scanning
<1> QED
  BY <1>1, <1>2 DEF ReadBoundary

\* The rows are of the branch of the range's last block, if that one is live.
LEMMA ForkReadEvents ==
  ASSUME ForkInv, ReadEvents
  PROVE  ForkOK'
<1> DEFINE all == Logs(ScannedTo(mem.checkpoint) + 1, job.to)
<1>0. /\ job.pc = "events" /\ Kept /\ UNCHANGED disk /\ UNCHANGED chain
      /\ job.boundary # None /\ job.boundary[1] = job.to
  BY DEF ReadEvents, Kept, ForkInv, IndexInv, JobOK
<1>1. CASE OnGap
  BY <1>0, <1>1, ForkCatch
<1>2. ASSUME NEW rows \in SUBSET all, job' = [job EXCEPT !.pc = "assert", !.rows = rows],
             UNCHANGED <<mem, armed>>
      PROVE  ForkOK'
  <2>1. ASSUME Open(job.boundary) PROVE all \subseteq Leaves(job.boundary)
    <3>1. job.boundary \in Hashes /\ Known(job.boundary)
      BY <1>0, ForkFacts
    <3>2. job.to \in 1..Height
      <4>1. BranchOf(job.boundary) = live
        BY <2>1 DEF Open, BranchOf
      <4> QED
        BY <1>0, <3>1, <4>1, HashFacts DEF Known, Height
    <3>3. Lower(job.to, Height) = job.to
      BY <3>2, ForkFacts, TipType DEF Lower
    <3>4. Leaves(Hash(live, job.to)) \subseteq Leaves(job.boundary)
      BY <1>0, <2>1, <3>1, <3>2, ForkFacts, LiveFacts, LeavesGrow
    <3> QED
      BY <3>3, <3>4 DEF Logs
  <2> HIDE DEF all
  <2>2. /\ job'.pc = "assert" /\ job'.head = job.head /\ job'.boundary = job.boundary
        /\ job'.count = job.count /\ job'.rows = rows
    BY <1>2, ForkFacts DEF Jobs
  <2> QED
    BY <1>0, <1>2, <2>1, <2>2, ForkFacts, ForkReads DEF ForkInv, ForkOK, Scanning
<1> QED
  BY <1>1, <1>2 DEF ReadEvents

LEMMA ForkShrinkRange ==
  ASSUME ForkInv, ShrinkRange
  PROVE  ForkOK'
<1>1. \E to : job' = [job EXCEPT !.pc = "boundary", !.to = to]
  BY DEF ShrinkRange
<1>2. /\ job'.pc = "boundary" /\ job'.head = job.head /\ job'.boundary = job.boundary
      /\ job'.count = job.count
  BY <1>1, ForkFacts DEF Jobs
<1>3. UNCHANGED chain /\ UNCHANGED <<mem, disk>> /\ job.pc = "events"
  BY DEF ShrinkRange, Kept
<1> QED
  BY <1>2, <1>3, ForkFacts, ForkReads DEF ForkInv, ForkOK, Scanning

LEMMA ForkAssertBoundary ==
  ASSUME ForkInv, AssertBoundary
  PROVE  ForkOK'
<1> DEFINE c == mem.checkpoint
           d == [c EXCEPT !.scanned = job.boundary, !.leaves = c.leaves \cup job.rows]
           j == [job EXCEPT !.boundary = None, !.rows = {}]
<1>0. /\ job.pc = "assert" /\ Kept /\ UNCHANGED disk /\ UNCHANGED chain
      /\ job.boundary # None /\ job.boundary[1] = job.to /\ job.to <= c.target[1]
      /\ job.rows \in LeafSets
      /\ Open(job.boundary) => job.rows \subseteq Leaves(job.boundary)
      /\ Open(c.target) => job.count = Cardinality(Leaves(c.target))
  BY ForkFacts DEF AssertBoundary, Kept, ForkInv, IndexInv, JobOK, ForkOK, Scanning, Jobs
<1>1. CASE OnReorg \/ Finish(mem)
  BY <1>0, <1>1, ForkCatch, ForkFinish
<1>2. CASE /\ Canonical(job.boundary) /\ mem' = [mem EXCEPT !.checkpoint = d]
           /\ NextChunk(d, j) \/ job' = [j EXCEPT !.pc = "final"]
  <2>0. c \in Checkpoints /\ Sound(c) /\ c # None /\ job.boundary \in Hashes
    BY <1>0, ScanFacts, ForkFacts DEF ForkInv, Scanning
  <2>1. d \in Checkpoints /\ d.target = c.target /\ d.leaves = c.leaves \cup job.rows
    BY <1>0, <2>0 DEF Checkpoints, LeafSets
  <2>2. Open(job.boundary)
    BY <1>2, <2>0, ForkFacts, CanonicalFacts
  <2>3. ASSUME Open(c.target) PROVE job.rows \subseteq Leaves(c.target)
    BY <1>0, <2>0, <2>2, <2>3, ForkFacts, LeavesGrow, CheckpointFacts
  <2>4. Sound(d)
    BY <2>0, <2>1, <2>3 DEF Sound
  <2>5. j \in Jobs /\ j.head = job.head /\ j.boundary = None /\ j.count = job.count
    BY ForkFacts DEF Jobs, LeafSets
  <2> HIDE DEF c, d, j
  <2>6. /\ mem'.snapshot = mem.snapshot /\ mem'.candidate = mem.candidate /\ mem'.checkpoint = d
    BY <1>2, ForkFacts DEF Memories
  <2> QED
    BY <1>0, <1>2, <2>1, <2>4, <2>5, <2>6, ForkChunk
<1> QED
  BY <1>1, <1>2 DEF AssertBoundary

\* As many leaves as the target has, and none but its own: all of them.
LEMMA ForkAssertTarget ==
  ASSUME ForkInv, AssertTarget
  PROVE  ForkOK'
<1> DEFINE c == mem.checkpoint
<1>0. /\ job.pc = "final" /\ Kept /\ UNCHANGED disk /\ UNCHANGED chain
      /\ Open(c.target) => job.count = Cardinality(Leaves(c.target))
      /\ c \in Checkpoints /\ Sound(c)
  BY ScanFacts, ForkFacts DEF AssertTarget, Kept, ForkInv, ForkOK, Scanning
<1>1. CASE OnReorg \/ OnGap \/ Finish(mem)
  BY <1>0, <1>1, ForkCatch, ForkFinish
<1>2. ASSUME To("park") \/ To("save")
      PROVE  /\ job'.pc \in {"park", "save"} /\ job'.head = job.head
             /\ job'.boundary = job.boundary
             /\ To("park") => job'.pc = "park"
  BY <1>2, ForkFacts DEF To, Jobs
<1>3. CASE To("park") /\ UNCHANGED <<mem, armed>>
  BY <1>0, <1>2, <1>3, ForkKept DEF Scanning
<1>4. CASE Canonical(c.target) /\ Complete(c) /\ To("save") /\ UNCHANGED <<mem, armed>>
  <2>1. c.target \in Hashes /\ Open(c.target)
    BY <1>0, <1>4, ForkFacts, CanonicalFacts, CheckpointFacts
  <2>2. c.leaves \subseteq Leaves(c.target) /\ IsFiniteSet(Leaves(c.target))
    BY <1>0, <2>1, ForkFacts, LeavesFinite DEF Sound
  <2>3. Cardinality(c.leaves) = Cardinality(Leaves(c.target))
    BY <1>0, <1>4, <2>1 DEF Complete
  <2>4. c.leaves \in SUBSET Leaves(c.target)
    BY <2>2
  <2>5. c.leaves = Leaves(c.target)
    BY <2>2, <2>3, <2>4, FS_Subset
  <2> QED
    BY <1>0, <1>2, <1>4, <2>5, ForkFacts, ForkReads DEF Scanning
<1> QED
  BY <1>1, <1>3, <1>4 DEF AssertTarget

LEMMA ForkSaveSnapshot ==
  ASSUME ForkInv, SaveSnapshot
  PROVE  ForkOK'
<1> DEFINE v == View(mem.checkpoint)
<1>0. /\ job.pc = "save" /\ UNCHANGED chain /\ disk' = [disk EXCEPT !.snapshot = v]
      /\ mem' = [mem EXCEPT !.snapshot = v, !.candidate = None, !.checkpoint = None]
      /\ job' = [job EXCEPT !.pc = "done"]
  BY DEF SaveSnapshot, SnapshotSaved, Kept, To
<1>1. mem.checkpoint.leaves = Leaves(mem.checkpoint.target) /\ Known(mem.checkpoint.target)
  BY <1>0, ScanFacts, ForkFacts DEF ForkInv, ForkOK, Sound
<1>2. Known(v.at) /\ v.leaves = Leaves(v.at)
  BY <1>1 DEF View
<1> HIDE DEF v
<1>3. /\ mem'.snapshot = v /\ mem'.candidate = None /\ mem'.checkpoint = None
      /\ disk'.snapshot = v /\ disk'.checkpoint = disk.checkpoint
      /\ job'.pc = "done" /\ job'.head = job.head /\ job'.boundary = job.boundary
  BY <1>0, ForkFacts DEF Memories, Disks, Jobs
<1> QED
  BY <1>0, <1>2, <1>3, ForkNext DEF ForkInv, ForkOK, Scanning

LEMMA ForkStore ==
  ASSUME ForkInv,
         \/ DropCheckpoint \/ SaveCheckpoint \/ RemoveSnapshot \/ RemoveCheckpoint \/ StoreFails
  PROVE  ForkOK'
<1>0. StoreFails => disk' = disk \/ (job.pc = "save" /\ disk' = SnapshotSaved) \/ disk' = CheckpointSaved
  BY DEF StoreFails
<1>1. CASE DropCheckpoint \/ SaveCheckpoint \/ RemoveCheckpoint
           \/ (StoreFails /\ disk' \in {disk, CheckpointSaved})
  <2>1. /\ Finish(mem) /\ Kept /\ disk'.snapshot = disk.snapshot
        /\ disk'.checkpoint \in {None, mem.checkpoint, disk.checkpoint}
    BY <1>1, ForkFacts DEF DropCheckpoint, SaveCheckpoint, CheckpointSaved, RemoveCheckpoint,
       StoreFails, Disks
  <2> QED
    BY <2>1, ForkFinish
<1>2. CASE RemoveSnapshot
  <2>1. /\ disk' = [disk EXCEPT !.snapshot = None] /\ UNCHANGED mem /\ UNCHANGED chain
        /\ job' = [job EXCEPT !.pc = "resetCheckpoint"]
    BY <1>2 DEF RemoveSnapshot, To, Kept
  <2>2. /\ disk'.snapshot = None /\ disk'.checkpoint = disk.checkpoint
        /\ job'.pc = "resetCheckpoint" /\ job'.head = job.head /\ job'.boundary = job.boundary
    BY <2>1, ForkFacts DEF Disks, Jobs
  <2> QED
    BY <2>1, <2>2, ForkKept DEF Scanning
<1>3. CASE StoreFails /\ job.pc = "save" /\ disk' = SnapshotSaved
  <2> DEFINE v == View(mem.checkpoint)
  <2>1. mem.checkpoint.leaves = Leaves(mem.checkpoint.target) /\ Known(mem.checkpoint.target)
    BY <1>3, ScanFacts, ForkFacts DEF ForkInv, ForkOK, Sound
  <2>2. Known(v.at) /\ v.leaves = Leaves(v.at)
    BY <2>1 DEF View
  <2>3. disk' = [disk EXCEPT !.snapshot = v] /\ Finish(mem) /\ UNCHANGED chain
    BY <1>3 DEF SnapshotSaved, StoreFails, Kept
  <2> HIDE DEF v
  <2>4. /\ disk'.snapshot = v /\ disk'.checkpoint = disk.checkpoint
        /\ mem'.snapshot = mem.snapshot /\ mem'.candidate = mem.candidate
        /\ mem'.checkpoint = mem.checkpoint
        /\ job'.pc = "idle" /\ job'.head = None /\ job'.boundary = None
    BY <2>3, ForkFacts DEF Finish, Idle, Memories, Disks
  <2> QED
    BY <2>2, <2>3, <2>4, ForkNext DEF ForkInv, ForkOK, Scanning
<1> QED
  BY <1>0, <1>1, <1>2, <1>3

\* What is loaded was known when it was saved; a job under way is not disturbed.
LEMMA ForkPool ==
  ASSUME ForkInv, UNCHANGED chain, PoolMove
  PROVE  ForkOK'
<1>1. /\ mem'.snapshot = mem.snapshot /\ mem'.candidate \in {None, mem.candidate, disk.snapshot}
      /\ mem'.checkpoint \in {None, mem.checkpoint, disk.checkpoint}
      /\ disk'.snapshot = disk.snapshot /\ disk'.checkpoint = disk.checkpoint
  BY ForkFacts DEF PoolMove, Marked, Disks
<1>2. CASE job' = job /\ job.pc # "idle"
  <2>1. mem.loaded
    BY <1>2 DEF ForkInv, IndexInv, TimerOK, LoadedOK
  <2>2. mem'.candidate = mem.candidate /\ mem'.checkpoint = mem.checkpoint
    BY <2>1 DEF PoolMove
  <2> QED
    BY <1>1, <1>2, <2>2, ForkNext DEF ForkInv, ForkOK
<1>3. CASE job' = job /\ job.pc = "idle"
  BY <1>1, <1>3, ForkKept DEF Scanning
<1>4. CASE job' = [Idle EXCEPT !.pc = "head"]
  <2>1. job'.pc = "head" /\ job'.head = None /\ job'.boundary = None
    BY <1>4 DEF Idle
  <2> QED
    BY <1>1, <2>1, ForkKept DEF Scanning
<1> QED
  BY <1>2, <1>3, <1>4 DEF PoolMove

LEMMA PoolMoves ==
  ASSUME IndexInv, Read \/ Start \/ TimerFires
  PROVE  PoolMove /\ UNCHANGED chain
<1>0. RecordsOK /\ LoadedOK /\ TimerOK /\ mem \in Memories
  BY DEF IndexInv, RecordsOK
<1>1. CASE Read
  BY <1>0, <1>1, ReadMoves
<1>2. CASE Start
  BY <1>0, <1>2, RestoreMoves DEF Start, LoadedOK
<1>3. CASE TimerFires
  <2>1. CASE Restore(mem)
    BY <1>0, <1>3, <2>1, RestoreMoves DEF TimerFires
  <2>2. CASE ~mem.restoreFailed
    BY <1>0, <1>3, <2>2, EnqueueMoves DEF TimerFires, PoolMove, LoadedOK, TimerOK
  <2> QED
    BY <1>3, <2>1, <2>2 DEF TimerFires
<1> QED
  BY <1>1, <1>2, <1>3

LEMMA ForkLife ==
  ASSUME ForkInv, BecomesDue \/ Crash \/ Close \/ Closed
  PROVE  ForkOK'
<1>0. UNCHANGED chain /\ disk' = disk
  BY DEF BecomesDue, Crash, Close, Closed
<1>1. CASE Crash \/ Closed
  <2>1. mem' = Fresh /\ job'.pc = "idle" /\ job'.head \in {None, job.head}
        /\ job'.boundary \in {None, job.boundary}
    BY <1>1 DEF Crash, Closed, Idle
  <2>2. mem'.snapshot = None /\ mem'.candidate = None /\ mem'.checkpoint = None
    BY <2>1 DEF Fresh
  <2> QED
    BY <1>0, <2>1, <2>2, ForkKept DEF Scanning
<1>2. CASE BecomesDue \/ Close
  <2>1. /\ job' = job /\ mem'.snapshot = mem.snapshot /\ mem'.candidate = mem.candidate
        /\ mem'.checkpoint = mem.checkpoint
    BY <1>2, ForkFacts DEF BecomesDue, Close, Memories
  <2> QED
    BY <1>0, <2>1, ForkNext DEF ForkInv, ForkOK
<1> QED
  BY <1>1, <1>2

\* The chain grows or turns under what was read.
LEMMA ForkWorld ==
  ASSUME ForkInv, NoReturn, Mine \/ Reorganise
  PROVE  ForkOK'
<1>0. /\ ChainOK /\ live = 1 + switches /\ switches \in 0..MaxSwitches
      /\ UNCHANGED <<disk, mem, job>> /\ disk \in Disks
  BY ForkFacts DEF ForkInv, ForkOK, ChainOK, Mine, Reorganise
<1>1. \A h \in Hashes : Known(h) => Known(h)' /\ Leaves(h)' = Leaves(h) /\ (Open(h)' => Open(h))
  BY <1>0, BlocksKept
<1>2. live' = 1 + switches' /\ (live' = live \/ live' = 2)
  BY <1>0, PrivacyAssumption DEF Mine, Reorganise, NoReturn
<1>3. (\A s \in {mem.snapshot, mem.candidate, disk.snapshot} \ {None} :
         Known(s.at) /\ s.leaves = Leaves(s.at))'
  <2> SUFFICES ASSUME NEW s \in {mem.snapshot, mem.candidate, disk.snapshot} \ {None}
               PROVE  Known(s.at)' /\ s.leaves = Leaves(s.at)'
    BY <1>0
  <2>1. s \in Views /\ Known(s.at) /\ s.leaves = Leaves(s.at)
    BY <1>0, ForkFacts DEF ForkInv, ForkOK, Memories, Disks
  <2> QED
    BY <1>1, <2>1 DEF Views
<1>4. (\A c \in {mem.checkpoint, disk.checkpoint} \ {None} : Sound(c))'
  <2> SUFFICES ASSUME NEW c \in {mem.checkpoint, disk.checkpoint} \ {None}
               PROVE  Sound(c)'
    BY <1>0
  <2>1. c \in Checkpoints /\ Sound(c)
    BY <1>0, ForkFacts DEF ForkInv, ForkOK, Memories, Disks
  <2>2. c.target \in Hashes
    BY <2>1, CheckpointFacts
  <2> QED
    BY <1>1, <2>1, <2>2 DEF Sound
<1>5. (\A h \in {job.head, job.boundary} \ {None} : Known(h))'
  <2> SUFFICES ASSUME NEW h \in {job.head, job.boundary} \ {None}
               PROVE  Known(h)'
    BY <1>0
  <2> QED
    BY <1>1, ForkFacts
<1>6. (job.pc = "resume" /\ mem.snapshot # None /\ Open(job.head) => Open(mem.snapshot.at))'
  <2> DEFINE h == job.head
             g == mem.snapshot.at
  <2> SUFFICES ASSUME job.pc = "resume", mem.snapshot # None, Open(h)'
               PROVE  Open(g)'
    BY <1>0
  <2>1. h # None /\ g[1] <= h[1]
    BY DEF ForkInv, IndexInv, JobOK
  <2>2. h \in Hashes /\ g \in Hashes /\ Known(h) /\ Known(g)
    BY <2>1, ForkFacts DEF Views
  <2>3. Open(h) /\ Open(g)
    BY <1>0, <1>1, <2>2 DEF ForkInv, ForkOK
  <2>4. CASE live' = live
    BY <1>0, <2>3, <2>4 DEF Open
  <2>5. CASE live' = 2 /\ live' # live
    <3>1. h[2] = 0 \/ h[2] = 2
      BY <1>0, <2>5 DEF Open
    <3>2. h[2] = 0
      BY <1>0, <2>2, <2>5, <3>1 DEF Known, ChainOK
    <3>3. g[2] = 0
      BY <2>1, <2>2, <3>2, HashFacts DEF ForkInv, IndexInv, ChainOK
    <3> QED
      BY <1>0, <3>3 DEF Open
  <2> QED
    BY <1>2, <2>4, <2>5
<1>7. (job.pc \in Scanning \ {"expect"} /\ Open(mem.checkpoint.target) =>
         job.count = Cardinality(Leaves(mem.checkpoint.target)))'
  <2> SUFFICES ASSUME job.pc \in Scanning \ {"expect"}, Open(mem.checkpoint.target)'
               PROVE  job.count = Cardinality(Leaves(mem.checkpoint.target)')
    BY <1>0 DEF Scanning
  <2>1. mem.checkpoint.target \in Hashes /\ Known(mem.checkpoint.target)
    BY ScanFacts, ForkFacts, CheckpointFacts DEF ForkInv, Sound
  <2> QED
    BY <1>0, <1>1, <2>1 DEF ForkInv, ForkOK
<1>8. (job.pc = "assert" /\ Open(job.boundary) => job.rows \subseteq Leaves(job.boundary))'
  <2> SUFFICES ASSUME job.pc = "assert", Open(job.boundary)'
               PROVE  job.rows \subseteq Leaves(job.boundary)'
    BY <1>0
  <2>1. job.boundary \in Hashes /\ Known(job.boundary)
    BY ForkFacts DEF ForkInv, IndexInv, JobOK
  <2> QED
    BY <1>0, <1>1, <2>1 DEF ForkInv, ForkOK
<1>9. (job.pc = "save" => mem.checkpoint.leaves = Leaves(mem.checkpoint.target))'
  <2> SUFFICES ASSUME job.pc = "save"
               PROVE  mem.checkpoint.leaves = Leaves(mem.checkpoint.target)'
    BY <1>0
  <2>1. mem.checkpoint.target \in Hashes /\ Known(mem.checkpoint.target)
    BY ScanFacts, ForkFacts, CheckpointFacts DEF ForkInv, Sound
  <2> QED
    BY <1>0, <1>1, <2>1 DEF ForkInv, ForkOK
<1> QED
  BY <1>2, <1>3, <1>4, <1>5, <1>6, <1>7, <1>8, <1>9 DEF ForkOK

LEMMA ForkStep ==
  ASSUME ForkInv, NoReturn, [Next]_vars
  PROVE  ForkOK'
<1>1. CASE StopsReading \/ CallFails
  BY <1>1, ForkCatch, ForkFinish DEF StopsReading, CallFails
<1>2. CASE Step
  BY <1>2, ForkReadHead, ForkVerifySaved, ForkResume, ForkExpect, ForkReadBoundary, ForkReadEvents,
     ForkAssertBoundary, ForkAssertTarget, ForkSaveSnapshot, ForkStore DEF Step
<1>3. CASE Read \/ Start \/ TimerFires
  BY <1>3, PoolMoves, ForkPool DEF ForkInv
<1>4. CASE UNCHANGED vars
  BY <1>4, ForkNext DEF ForkInv, ForkOK, vars, chain
<1> QED
  BY <1>1, <1>2, <1>3, <1>4, ForkShrinkRange, ForkStore, ForkLife, ForkWorld DEF Next

\* On what a saved view or unfinished work is known to be of, when no branch
\* comes back that had lost.
THEOREM ForkInvariant ==
  ASSUME NoReturn
  PROVE  Spec => []ForkInv
<1>1. Init => ForkInv
  <2> SUFFICES ASSUME Init PROVE ForkOK
    BY IndexInit DEF ForkInv
  <2> QED
    BY DEF Init, ForkOK, Fresh, Idle, Scanning
<1>2. ForkInv /\ [Next]_vars => ForkInv'
  BY ForkStep, IndexStep DEF ForkInv
<1> QED
  BY <1>1, <1>2, PTL DEF Spec

\* What is published or saved is every deposit of one fork up to its block,
\* whatever logs the provider missed and wherever the reorganisation fell.
THEOREM OneForkAlways ==
  ASSUME NoReturn
  PROVE  Spec => []OneFork
<1>1. ForkInv => OneFork
  BY DEF ForkInv, ForkOK, OneFork
<1> QED
  BY ForkInvariant, <1>1, PTL
=============================================================================
