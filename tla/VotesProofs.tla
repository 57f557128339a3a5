---------------------------- MODULE VotesProofs ----------------------------
(* Theorems about vote receipts, for any number of masternodes, batches,   *)
(* reconciliations and calls of Core, and any windows that keep            *)
(* GraceAssumption.                                                        *)
EXTENDS Votes, TLAPS

USE VotesAssumption, NoneIsNoVote

(* The parts of the state the lemmas below speak of.                       *)
LEMMA Parts ==
  ASSUME TypeOK
  PROVE  /\ receipts \in [Outpoints -> Receipt] /\ req \in [Requests -> Request]
         /\ late \subseteq Outpoints \X Vote /\ tally \in [Outpoints -> Vote \cup {None}]
         /\ counted \in [Outpoints -> SUBSET Vote] /\ read \in [Reads -> Read]
         /\ entry \in Reads \cup {None} /\ rec \in [Reconcilers -> Reconcile] /\ now \in Times
  BY DEF TypeOK

LEMMA Numbers == Grace \in Nat /\ RpcTimeout \in Nat /\ Ttl \in Nat /\ MaxTime \in Nat \ {0} /\ Times \subseteq Nat /\ 0 \in Times
  BY DEF Times

LEMMA IdleTypes == Idle \in Request /\ NoRead \in Read /\ NoReconcile \in Reconcile /\ NoReceipt \in Receipt
<1>1. Idle \in Request
  BY DEF Idle, Request, EntryState
<1>2. NoReceipt \in Receipt
  BY DEF Receipt
<1>3. NoRead \in Read
  BY Numbers DEF NoRead, Read, NoVotes
<1>4. NoReconcile \in Reconcile
  BY <1>2, Numbers DEF NoReconcile, Reconcile
<1>. QED
  BY <1>1, <1>2, <1>3, <1>4

(* A receipt has a vote exactly if it is one.                              *)
LEMMA ReceiptParts ==
  ASSUME NEW r \in Receipt
  PROVE  /\ r.status # "none" => r.vote \in Vote /\ r.status \in Status
         /\ r.status \in Status => r # NoReceipt
         /\ r.submitted \in Times /\ r.verified \in Times
  BY Numbers DEF Receipt, NoReceipt, Status

(* What one write of a receipt does.                                       *)
LEMMA UpsertEffect ==
  ASSUME TypeOK, NEW o \in Outpoints, NEW v \in Vote, NEW s \in Status, Upsert(o, v, s)
  PROVE  /\ receipts' \in [Outpoints -> Receipt]
         /\ \A x \in Outpoints \ {o} : receipts'[x] = receipts[x]
         /\ \/ receipts'[o] = receipts[o]
            \/ Overrides(v, s, receipts[o]) /\ receipts'[o].vote = v /\ receipts'[o].status = s
<1>1. CASE UNCHANGED receipts
  BY <1>1, Parts
<1>2. CASE /\ Overrides(v, s, receipts[o])
           /\ receipts' = [receipts EXCEPT ![o] = [vote |-> v, status |-> s,
                                                   submitted |-> now, verified |-> 0]]
  <2>1. [vote |-> v, status |-> s, submitted |-> now, verified |-> 0] \in Receipt
    BY Parts, Numbers DEF Receipt
  <2>. QED
    BY <1>2, <2>1, Parts
<1>. QED
  BY <1>1, <1>2 DEF Upsert

(* What setting an entry does.                                             *)
LEMMA SetEntryEffect ==
  ASSUME TypeOK, NEW r \in Requests, NEW o \in Outpoints, NEW s \in EntryState, SetEntry(r, o, s)
  PROVE  /\ req' \in [Requests -> Request] /\ req'[r].vote = req[r].vote
         /\ req'[r].entries[o] = s
         /\ \A x \in Outpoints \ {o} : req'[r].entries[x] = req[r].entries[x]
         /\ \A x \in Requests \ {r} : req'[x] = req[x]
<1>1. req[r] \in Request /\ req \in [Requests -> Request]
  BY Parts
<1>2. req' = [req EXCEPT ![r] = [req[r] EXCEPT !.entries = [req[r].entries EXCEPT ![o] = s]]]
  BY DEF SetEntry
<1>3. req[r].entries \in [Outpoints -> EntryState]
  BY <1>1 DEF Request
<1>. DEFINE e == [req[r].entries EXCEPT ![o] = s]
            q == [req[r] EXCEPT !.entries = e]
<1>4. e \in [Outpoints -> EntryState] /\ e[o] = s /\ \A x \in Outpoints \ {o} : e[x] = req[r].entries[x]
  BY <1>3
<1>5. q \in Request /\ q.entries = e /\ q.vote = req[r].vote
  <2>. HIDE DEF e
  <2>. QED
    BY <1>1, <1>4 DEF Request
<1>6. req'[r] = q /\ req' \in [Requests -> Request] /\ \A x \in Requests \ {r} : req'[x] = req[x]
  <2>. HIDE DEF q
  <2>. QED
    BY <1>1, <1>2, <1>5 DEF q
<1>. QED
  BY <1>4, <1>5, <1>6

LEMMA CountEffect ==
  ASSUME TypeOK, NEW o \in Outpoints, NEW v \in Vote, Count(o, v)
  PROVE  /\ tally' \in [Outpoints -> Vote \cup {None}] /\ counted' \in [Outpoints -> SUBSET Vote]
         /\ tally'[o] = v /\ v \in counted'[o]
         /\ \A x \in Outpoints \ {o} : tally'[x] = tally[x]
         /\ \A x \in Outpoints : counted[x] \subseteq counted'[x]
<1>1. /\ tally' = [tally EXCEPT ![o] = v]
      /\ counted' = [counted EXCEPT ![o] = counted[o] \cup {v}]
  BY DEF Count
<1>. QED
  BY <1>1, Parts

(* Reads that somebody holds stay; the others are forgotten.               *)
LEMMA HeldEffect ==
  ASSUME NEW rd \in [Reads -> Read], NEW e, NEW rc
  PROVE  /\ Held(rd, e, rc) \in [Reads -> Read]
         /\ \A n \in Reads : Held(rd, e, rc)[n] \in {rd[n], NoRead}
         /\ \A n \in Reads, q \in Reconcilers : rc[q].read = n => Held(rd, e, rc)[n] = rd[n]
  BY IdleTypes DEF Held

(* The steps of one entry of a batch.                                      *)
EntryAction(r, o) ==
  \/ VoteSend(r, o) \/ VoteNotSent(r, o) \/ VoteRelayed(r, o) \/ VoteDuplicate(r, o)
  \/ VoteRejected(r, o) \/ VoteUncertain(r, o) \/ CoreAccepts(r, o) \/ CoreRefuses(r, o)

(* What the answer of Core, or its absence, writes into the receipt.       *)
Writes(r, o, s) ==
  /\ Upsert(o, req[r].vote, s) /\ req[r].vote \in Vote /\ s \in {"relayed", "failed", "unknown"}
  /\ s = "relayed" => req[r].entries[o] = "accepted"

LEMMA EntryEffect ==
  ASSUME TypeOK, RequestsOK, NEW r \in Requests, NEW o \in Outpoints, EntryAction(r, o)
  PROVE  /\ \E s \in EntryState :
              /\ SetEntry(r, o, s)
              /\ s \in InFlight \cup {"queued"} => req[r].entries[o] \in InFlight \cup {"queued"}
              /\ s = "accepted" => req[r].vote \in Vote /\ Count(o, req[r].vote)
         /\ receipts' = receipts \/ \E s \in Status : Writes(r, o, s)
         /\ UNCHANGED <<tally, counted>> \/ (req[r].vote \in Vote /\ Count(o, req[r].vote))
         /\ late' = late \/ (req[r].vote \in Vote /\ late' = late \cup {<<o, req[r].vote>>})
         /\ UNCHANGED <<readVars, now>>
<1>1. req[r].entries[o] \in EntryState
  BY Parts DEF Request
<1>2. CASE VoteSend(r, o)
  BY <1>2 DEF VoteSend, InFlight, EntryState, coreVars
<1>3. CASE VoteNotSent(r, o)
  BY <1>3 DEF VoteNotSent, InFlight, EntryState, coreVars
<1>4. CASE VoteRelayed(r, o)
  <2>1. req[r].vote \in Vote
    BY <1>4 DEF VoteRelayed, RequestsOK, InFlight
  <2>. QED
    BY <1>4, <2>1 DEF VoteRelayed, InFlight, EntryState, coreVars, Writes, Status
<1>5. CASE VoteDuplicate(r, o)
  <2>1. req[r].vote \in Vote
    BY <1>5 DEF VoteDuplicate, RequestsOK, InFlight
  <2>. QED
    BY <1>5, <2>1 DEF VoteDuplicate, InFlight, EntryState, coreVars, Writes, Status
<1>6. CASE VoteRejected(r, o)
  <2>1. req[r].vote \in Vote
    BY <1>6 DEF VoteRejected, RequestsOK, InFlight
  <2>. QED
    BY <1>6, <2>1 DEF VoteRejected, InFlight, EntryState, coreVars, Writes, Status
<1>7. CASE VoteUncertain(r, o)
  <2>1. req[r].vote \in Vote
    BY <1>7 DEF VoteUncertain, RequestsOK, InFlight
  <2>. QED
    BY <1>7, <2>1 DEF VoteUncertain, InFlight, EntryState, coreVars, Writes, Status
<1>8. CASE CoreAccepts(r, o)
  <2>1. req[r].vote \in Vote
    BY <1>8 DEF CoreAccepts, RequestsOK, InFlight
  <2>. QED
    BY <1>8, <2>1 DEF CoreAccepts, InFlight, EntryState
<1>9. CASE CoreRefuses(r, o)
  BY <1>9 DEF CoreRefuses, InFlight, EntryState, coreVars
<1>. QED
  BY <1>2, <1>3, <1>4, <1>5, <1>6, <1>7, <1>8, <1>9 DEF EntryAction

(* What a reconciliation makes of one receipt.                             *)
LEMMA ReconciledTypes ==
  ASSUME NEW r \in Receipt, r.status # "none", NEW c \in Vote \cup {None}, now \in Times,
         NEW fresh, NEW begun
  PROVE  Reconciled(r, c, fresh, begun) \in Receipt
<1>1. Settles(r, c) => c \in Vote
  BY DEF Settles
<1>2. r \in [vote: Vote, status: Status, submitted: Times, verified: Times]
  BY DEF Receipt, NoReceipt
<1>. QED
  BY <1>1, <1>2 DEF Reconciled, Confirmed, Receipt, Status

LEMMA ApplyEffect ==
  ASSUME TypeOK, NEW q \in Reconcilers, ReconcileApply(q)
  PROVE  /\ rec[q].read \in Reads /\ read[rec[q].read].pc = "ready"
         /\ receipts' \in [Outpoints -> Receipt]
         /\ \A o \in Outpoints :
              \/ receipts'[o] = receipts[o]
              \/ /\ receipts[o].status # "none"
                 /\ receipts'[o] = Reconciled(receipts[o], read[rec[q].read].votes[o],
                                              rec[q].fresh, rec[q].begun)
         /\ rec'[q] = NoReconcile /\ \A x \in Reconcilers \ {q} : rec'[x] = rec[x]
         /\ rec' \in [Reconcilers -> Reconcile]
         /\ UNCHANGED <<req, coreVars, entry, now>>
<1>. DEFINE c == rec[q]
<1>1. c \in Reconcile /\ c.read \in Reads /\ read[c.read].pc = "ready" /\ read[c.read] \in Read
  BY Parts DEF ReconcileApply, Ready, Reconcile
<1>2. receipts' = [o \in Outpoints |->
       IF c.seen[o].status # "none" /\ SameRow(o, c.seen[o])
         THEN Reconciled(receipts[o], read[c.read].votes[o], c.fresh, c.begun)
         ELSE receipts[o]]
  BY DEF ReconcileApply
<1>3. \A o \in Outpoints :
        \/ receipts'[o] = receipts[o]
        \/ /\ receipts[o].status # "none"
           /\ receipts'[o] = Reconciled(receipts[o], read[c.read].votes[o], c.fresh, c.begun)
  BY <1>2 DEF SameRow
<1>4. \A o \in Outpoints : receipts'[o] \in Receipt
  <2>1. \A o \in Outpoints : read[c.read].votes[o] \in Vote \cup {None} /\ receipts[o] \in Receipt
    BY <1>1, Parts DEF Read
  <2>2. now \in Times
    BY Parts
  <2>. QED
    BY <1>3, <2>1, <2>2, ReconciledTypes
<1>5. receipts' \in [Outpoints -> Receipt]
  BY <1>2, <1>4
<1>6. rec' = [rec EXCEPT ![q] = NoReconcile]
  BY DEF ReconcileApply
<1>. QED
  BY <1>1, <1>3, <1>5, <1>6, Parts, IdleTypes DEF ReconcileApply

(* What the start of a reconciliation does: it awaits the cached read or a *)
(* new one.                                                                *)
Pended == [NoRead EXCEPT !.pc = "pending", !.begun = now]
Awaits(q, n, refresh) == [read |-> n, fresh |-> refresh, begun |-> now, seen |-> receipts]

LEMMA PendedTypes ==
  ASSUME TypeOK
  PROVE  Pended \in Read /\ Pended.pc = "pending" /\ Pended.begun = now /\ Pended.votes = NoVotes
<1>1. now \in Times
  BY Parts
<1>2. [NoRead EXCEPT !.pc = "pending"] \in Read
  BY IdleTypes DEF Read
<1>. QED
  BY <1>1, <1>2, Numbers DEF Pended, NoRead, Read, NoVotes

LEMMA StartEffect ==
  ASSUME TypeOK, NEW q \in Reconcilers, NEW refresh \in BOOLEAN, ReconcileStart(q, refresh)
  PROVE  /\ rec' \in [Reconcilers -> Reconcile] /\ read' \in [Reads -> Read] /\ entry' \in Reads
         /\ UNCHANGED <<receipts, req, coreVars, now>>
         /\ \A x \in Reconcilers \ {q} : rec'[x] = rec[x]
         /\ \E n \in Reads :
              /\ rec'[q] = Awaits(q, n, refresh)
              /\ \/ /\ read' = read /\ ~refresh
                    /\ read[n].pc = "ready" => read[n].expires > now
                 \/ /\ read'[n] = Pended
                    /\ \A m \in Reads \ {n} : read'[m] \in {read[m], NoRead}
                    /\ \A x \in Reconcilers \ {q}, m \in Reads \ {n} :
                         rec[x].read = m => read'[m] = read[m]
<1>0. \A n \in Reads : Awaits(q, n, refresh) \in Reconcile
  BY Parts DEF Awaits, Reconcile
<1>1. CASE Hit /\ ~refresh /\ rec' = [rec EXCEPT ![q] = Awaits(q, entry, refresh)] /\ UNCHANGED <<read, entry>>
  <2>1. entry \in Reads
    BY <1>1, Parts DEF Hit
  <2>2. read[entry].pc = "ready" => read[entry].expires > now
    BY <1>1 DEF Hit
  <2>. QED
    BY <1>0, <1>1, <2>1, <2>2, Parts DEF ReconcileStart
<1>2. ASSUME NEW n \in Reads, rec' = [rec EXCEPT ![q] = Awaits(q, n, refresh)], entry' = n,
             read' = Held([read EXCEPT ![n] = Pended], n, rec')
      PROVE  /\ rec' \in [Reconcilers -> Reconcile] /\ read' \in [Reads -> Read] /\ entry' \in Reads
             /\ \A x \in Reconcilers \ {q} : rec'[x] = rec[x]
             /\ rec'[q] = Awaits(q, n, refresh) /\ read'[n] = Pended
             /\ \A m \in Reads \ {n} : read'[m] \in {read[m], NoRead}
             /\ \A x \in Reconcilers \ {q}, m \in Reads \ {n} :
                  rec[x].read = m => read'[m] = read[m]
  <2>. DEFINE rd == [read EXCEPT ![n] = Pended]
  <2>1. rd \in [Reads -> Read] /\ rd[n] = Pended /\ \A m \in Reads \ {n} : rd[m] = read[m]
    BY Parts, PendedTypes
  <2>2. /\ rec' \in [Reconcilers -> Reconcile] /\ rec'[q] = Awaits(q, n, refresh)
        /\ \A x \in Reconcilers \ {q} : rec'[x] = rec[x]
    BY <1>0, <1>2, Parts
  <2>3. rec'[q].read = n
    BY <2>2 DEF Awaits
  <2>. HIDE DEF rd
  <2>4. /\ Held(rd, n, rec') \in [Reads -> Read]
        /\ \A m \in Reads : Held(rd, n, rec')[m] \in {rd[m], NoRead}
        /\ \A m \in Reads, x \in Reconcilers : rec'[x].read = m => Held(rd, n, rec')[m] = rd[m]
    BY <2>1, HeldEffect
  <2>5. read' = Held(rd, n, rec')
    BY <1>2 DEF rd
  <2>. QED
    BY <1>2, <2>1, <2>2, <2>3, <2>4, <2>5
<1>3. \/ Hit /\ ~refresh /\ rec' = [rec EXCEPT ![q] = Awaits(q, entry, refresh)] /\ UNCHANGED <<read, entry>>
      \/ \E n \in Reads :
           /\ rec' = [rec EXCEPT ![q] = Awaits(q, n, refresh)] /\ entry' = n
           /\ read' = Held([read EXCEPT ![n] = Pended], n, rec')
  BY DEF ReconcileStart, Awaits, Pended
<1>4. UNCHANGED <<receipts, req, coreVars, now>>
  BY DEF ReconcileStart
<1>. QED
  BY <1>1, <1>2, <1>3, <1>4

(* What the steps of one call of gobject_getcurrentvotes do.               *)
LEMMA ReadEffect ==
  ASSUME TypeOK, NEW n \in Reads, ReadStep(n)
  PROVE  /\ read' \in [Reads -> Read] /\ entry' \in Reads \cup {None}
         /\ rec' \in [Reconcilers -> Reconcile]
         /\ UNCHANGED <<receipts, req, coreVars, now>>
         /\ \A m \in Reads \ {n} : read'[m] = read[m]
         /\ \A x \in Reconcilers : rec'[x] = rec[x] \/ rec'[x] = NoReconcile
         /\ \/ /\ read[n].pc = "pending" /\ read'[n].pc = "answered" /\ read'[n].votes = tally
               /\ read'[n].at = now /\ read'[n].begun = read[n].begun
            \/ /\ read[n].pc = "answered" /\ read'[n].pc = "ready" /\ read'[n].votes = read[n].votes
               /\ read'[n].at = read[n].at /\ read'[n].expires = now + Ttl
            \/ /\ read'[n] = NoRead
<1>0. read \in [Reads -> Read] /\ read[n] \in Read /\ now \in Times /\ tally \in [Outpoints -> Vote \cup {None}]
  BY Parts
<1>1. CASE CoreReads(n)
  <2>. DEFINE d == [[[read[n] EXCEPT !.pc = "answered"] EXCEPT !.votes = tally] EXCEPT !.at = now]
  <2>1. /\ d \in Read /\ d.pc = "answered" /\ d.votes = tally /\ d.at = now /\ d.begun = read[n].begun
    BY <1>0 DEF Read
  <2>2. read' = [read EXCEPT ![n] = d]
    BY <1>0, <1>1 DEF CoreReads, Read
  <2>. HIDE DEF d
  <2>3. read' \in [Reads -> Read] /\ read'[n] = d /\ \A m \in Reads \ {n} : read'[m] = read[m]
    BY <1>0, <2>1, <2>2
  <2>. QED
    BY <1>1, <2>1, <2>3, Parts DEF CoreReads
<1>2. CASE ReadResolves(n)
  <2>. DEFINE d == [[[read[n] EXCEPT !.pc = "ready"] EXCEPT !.begun = 0] EXCEPT !.expires = now + Ttl]
  <2>1. /\ d \in Read /\ d.pc = "ready" /\ d.votes = read[n].votes /\ d.at = read[n].at
        /\ d.expires = now + Ttl
    <3>. DEFINE x == now + Ttl
    <3>1. x \in Nat /\ 0 \in Times
      BY <1>0, Numbers
    <3>. HIDE DEF x
    <3>2. \A y \in Nat, z \in Times :
            LET e == [[[read[n] EXCEPT !.pc = "ready"] EXCEPT !.begun = z] EXCEPT !.expires = y]
            IN /\ e \in Read /\ e.pc = "ready" /\ e.votes = read[n].votes /\ e.at = read[n].at
               /\ e.expires = y
      BY <1>0 DEF Read
    <3>. QED
      BY <3>1, <3>2 DEF x
  <2>2. read' = [read EXCEPT ![n] = d]
    BY <1>0, <1>2 DEF ReadResolves, Read
  <2>. HIDE DEF d
  <2>3. read' \in [Reads -> Read] /\ read'[n] = d /\ \A m \in Reads \ {n} : read'[m] = read[m]
    BY <1>0, <2>1, <2>2
  <2>. QED
    BY <1>2, <2>1, <2>3, Parts DEF ReadResolves
<1>3. CASE ReadFails(n)
  <2>1. read' \in [Reads -> Read] /\ read'[n] = NoRead /\ \A m \in Reads \ {n} : read'[m] = read[m]
    BY <1>0, <1>3, IdleTypes DEF ReadFails
  <2>2. /\ rec' \in [Reconcilers -> Reconcile]
        /\ \A x \in Reconcilers : rec'[x] = rec[x] \/ rec'[x] = NoReconcile
    BY <1>3, Parts, IdleTypes DEF ReadFails
  <2>3. entry' \in Reads \cup {None} /\ UNCHANGED <<receipts, req, coreVars, now>>
    BY <1>3, Parts DEF ReadFails
  <2>. QED
    BY <2>1, <2>2, <2>3
<1>. QED
  BY <1>1, <1>2, <1>3 DEF ReadStep

(* What Core does on its own only adds to what was counted.                *)
LEMMA CoreEffect ==
  ASSUME TypeOK, NEW o \in Outpoints, CoreStep(o)
  PROVE  /\ UNCHANGED <<receipts, req, readVars, now>> /\ late' \subseteq late
         /\ tally' \in [Outpoints -> Vote \cup {None}] /\ counted' \in [Outpoints -> SUBSET Vote]
         /\ \A x \in Outpoints : counted[x] \subseteq counted'[x]
         /\ \A x \in Outpoints : tally'[x] \in {tally[x], None} \/ tally'[x] \in counted'[x]
<1>1. ASSUME NEW v \in Vote, LateDelivery(o, v) \/ VoteElsewhere(o, v)
      PROVE  /\ UNCHANGED <<receipts, req, readVars, now>> /\ late' \subseteq late
             /\ Count(o, v) \/ UNCHANGED <<tally, counted>>
  BY <1>1 DEF LateDelivery, VoteElsewhere
<1>2. CASE VoteDropped(o)
  BY <1>2, Parts DEF VoteDropped
<1>3. ASSUME NEW v \in Vote, Count(o, v) \/ UNCHANGED <<tally, counted>>
      PROVE  /\ tally' \in [Outpoints -> Vote \cup {None}] /\ counted' \in [Outpoints -> SUBSET Vote]
             /\ \A x \in Outpoints : counted[x] \subseteq counted'[x]
             /\ \A x \in Outpoints : tally'[x] \in {tally[x], None} \/ tally'[x] \in counted'[x]
  <2>1. CASE Count(o, v)
    BY <2>1, CountEffect
  <2>2. CASE UNCHANGED <<tally, counted>>
    BY <2>2, Parts
  <2>. QED
    BY <1>3, <2>1, <2>2
<1>. QED
  BY <1>1, <1>2, <1>3 DEF CoreStep

LEMMA TypeInit == Init => TypeOK
  BY IdleTypes, Numbers DEF Init, TypeOK, Times

LEMMA TypeStep == TypeOK /\ RequestsOK /\ [Next]_vars => TypeOK'
<1>. SUFFICES ASSUME TypeOK, RequestsOK, [Next]_vars PROVE TypeOK'
  OBVIOUS
<1>1. ASSUME NEW r \in Requests, NEW v \in Vote, NEW S \in SUBSET Outpoints, VoteStart(r, v, S)
      PROVE  TypeOK'
  <2>1. [pc |-> "open", vote |-> v,
        entries |-> [o \in Outpoints |-> IF o \notin S    THEN "absent"
                                         ELSE IF Relay(o, v) THEN "queued"
                                         ELSE "done"],
        good |-> {o \in S : receipts[o].status \in {"confirmed", "relayed"}}] \in Request
    BY DEF Request, EntryState
  <2>. QED
    BY <1>1, <2>1 DEF VoteStart, TypeOK, coreVars, readVars
<1>2. ASSUME NEW r \in Requests, NEW o \in Outpoints, EntryAction(r, o) PROVE TypeOK'
  <2>1. req' \in [Requests -> Request]
    BY <1>2, EntryEffect, SetEntryEffect
  <2>2. receipts' \in [Outpoints -> Receipt]
    BY <1>2, Parts, EntryEffect, UpsertEffect DEF Writes
  <2>3. tally' \in [Outpoints -> Vote \cup {None}] /\ counted' \in [Outpoints -> SUBSET Vote]
    BY <1>2, Parts, EntryEffect, CountEffect
  <2>4. late' \subseteq Outpoints \X Vote
    BY <1>2, Parts, EntryEffect
  <2>5. UNCHANGED <<readVars, now>>
    BY <1>2, EntryEffect
  <2>. QED
    BY <2>1, <2>2, <2>3, <2>4, <2>5 DEF TypeOK, readVars
<1>3. ASSUME NEW r \in Requests, VoteAbort(r) PROVE TypeOK'
  <2>1. [req[r] EXCEPT !.pc = "aborted"] \in Request
    BY Parts DEF Request
  <2>. QED
    BY <1>3, <2>1, Parts DEF VoteAbort, TypeOK, coreVars, readVars
<1>4. ASSUME NEW r \in Requests, VoteReply(r) PROVE TypeOK'
  <2>1. Held(read, None, rec) \in [Reads -> Read]
    BY Parts, HeldEffect
  <2>. QED
    BY <1>4, <2>1, Parts, IdleTypes DEF VoteReply, TypeOK, coreVars
<1>5. ASSUME NEW o \in Outpoints, CoreStep(o) PROVE TypeOK'
  BY <1>5, CoreEffect, Parts DEF TypeOK, readVars
<1>6. ASSUME NEW q \in Reconcilers, NEW refresh \in BOOLEAN, ReconcileStart(q, refresh) PROVE TypeOK'
  BY <1>6, StartEffect DEF TypeOK, coreVars
<1>7. ASSUME NEW n \in Reads, ReadStep(n) PROVE TypeOK'
  BY <1>7, ReadEffect DEF TypeOK, coreVars
<1>8. ASSUME NEW q \in Reconcilers, ReconcileApply(q) PROVE TypeOK'
  <2>1. Held(read, entry, rec') \in [Reads -> Read]
    BY Parts, HeldEffect
  <2>. QED
    BY <1>8, <2>1, ApplyEffect DEF TypeOK, coreVars, ReconcileApply
<1>9. ASSUME ClockTick PROVE TypeOK'
  BY <1>9, Parts, Numbers DEF ClockTick, TypeOK, coreVars, readVars, Times
<1>10. ASSUME UNCHANGED vars PROVE TypeOK'
  BY <1>10 DEF TypeOK, vars, coreVars, readVars
<1>. QED
  BY <1>1, <1>2, <1>3, <1>4, <1>5, <1>6, <1>7, <1>8, <1>9, <1>10
     DEF Next, Continuation, Event, VoteStep, CoreStep, ReadStep, EntryAction

LEMMA RequestsStep == TypeOK /\ RequestsOK /\ [Next]_vars => RequestsOK'
<1>. SUFFICES ASSUME TypeOK, RequestsOK, [Next]_vars, NEW r \in Requests, NEW o \in Outpoints,
                     req'[r].entries[o] \in InFlight \cup {"queued"}
              PROVE  req'[r].vote \in Vote
  BY DEF RequestsOK
<1>1. CASE UNCHANGED req
  BY <1>1 DEF RequestsOK
<1>2. ASSUME NEW x \in Requests, NEW v \in Vote, NEW S \in SUBSET Outpoints, VoteStart(x, v, S)
      PROVE  req'[r].vote \in Vote
  BY <1>2, Parts DEF VoteStart, RequestsOK
<1>3. ASSUME NEW x \in Requests, NEW y \in Outpoints, EntryAction(x, y) PROVE req'[r].vote \in Vote
  <2>1. PICK t \in EntryState :
          /\ SetEntry(x, y, t)
          /\ t \in InFlight \cup {"queued"} => req[x].entries[y] \in InFlight \cup {"queued"}
    BY <1>3, EntryEffect
  <2>. QED
    BY <2>1, SetEntryEffect DEF RequestsOK
<1>4. ASSUME NEW x \in Requests, VoteAbort(x) PROVE req'[r].vote \in Vote
  BY <1>4, Parts DEF VoteAbort, RequestsOK, Request
<1>5. ASSUME NEW x \in Requests, VoteReply(x) PROVE req'[r].vote \in Vote
  BY <1>5, Parts DEF VoteReply, RequestsOK, Idle, InFlight
<1>. QED
  BY <1>1, <1>2, <1>3, <1>4, <1>5, CoreEffect, StartEffect, ReadEffect, ApplyEffect
     DEF Next, Continuation, Event, VoteStep, EntryAction, ClockTick, vars

(* A receipt changes by what a batch writes or by one reconciliation.      *)
LEMMA ReceiptStep ==
  ASSUME TypeOK, RequestsOK, [Next]_vars
  PROVE  \/ receipts' = receipts
         \/ rec' = rec /\ \E r \in Requests, o \in Outpoints, s \in Status : Writes(r, o, s)
         \/ \E q \in Reconcilers : ReconcileApply(q)
<1>1. ASSUME NEW r \in Requests, NEW o \in Outpoints, EntryAction(r, o)
      PROVE  receipts' = receipts \/ (rec' = rec /\ \E s \in Status : Writes(r, o, s))
  BY <1>1, EntryEffect DEF readVars
<1>. QED
  BY <1>1, CoreEffect, StartEffect, ReadEffect
     DEF Next, Continuation, Event, VoteStep, EntryAction, VoteStart, VoteAbort, VoteReply, ClockTick, vars

LEMMA CountedGrows ==
  ASSUME TypeOK, RequestsOK, [Next]_vars, NEW o \in Outpoints
  PROVE  counted[o] \subseteq counted'[o]
<1>1. ASSUME NEW r \in Requests, NEW x \in Outpoints, EntryAction(r, x) PROVE counted[o] \subseteq counted'[o]
  BY <1>1, EntryEffect, CountEffect
<1>2. ASSUME NEW x \in Outpoints, CoreStep(x) PROVE counted[o] \subseteq counted'[o]
  BY <1>2, CoreEffect
<1>. QED
  BY <1>1, <1>2, StartEffect, ReadEffect, ApplyEffect
     DEF Next, Continuation, Event, VoteStep, EntryAction, VoteStart, VoteAbort, VoteReply, ClockTick,
         vars, coreVars

(* What Core shows, showed or accepted was counted.                        *)
LEMMA CountedStep == TypeOK /\ RequestsOK /\ CountedOK /\ [Next]_vars => CountedOK'
<1>. SUFFICES ASSUME TypeOK, RequestsOK, CountedOK, [Next]_vars PROVE CountedOK'
  OBVIOUS
<1>0. /\ \A o \in Outpoints : counted[o] \subseteq counted'[o]
      /\ \A o \in Outpoints : NoRead.votes[o] = None
  BY CountedGrows DEF NoRead, NoVotes
<1>1. ASSUME NEW r \in Requests, NEW v \in Vote, NEW S \in SUBSET Outpoints, VoteStart(r, v, S)
      PROVE  CountedOK'
  <2>1. \A x \in Requests, o \in Outpoints :
          req'[x].entries[o] = "accepted" => req[x].entries[o] = "accepted" /\ req'[x].vote = req[x].vote
    BY <1>1, Parts DEF VoteStart
  <2>. QED
    BY <1>1, <2>1 DEF CountedOK, VoteStart, coreVars, readVars
<1>2. ASSUME NEW r \in Requests, NEW o \in Outpoints, EntryAction(r, o) PROVE CountedOK'
  <2>1. PICK t \in EntryState :
          SetEntry(r, o, t) /\ (t = "accepted" => req[r].vote \in Vote /\ Count(o, req[r].vote))
    BY <1>2, EntryEffect
  <2>2. \A x \in Requests, y \in Outpoints :
          req'[x].entries[y] = "accepted" => req'[x].vote \in counted'[y]
    <3>. SUFFICES ASSUME NEW x \in Requests, NEW y \in Outpoints, req'[x].entries[y] = "accepted"
                  PROVE  req'[x].vote \in counted'[y]
      OBVIOUS
    <3>1. CASE x = r /\ y = o
      BY <2>1, <3>1, SetEntryEffect, CountEffect
    <3>2. CASE ~(x = r /\ y = o)
      <4>1. req'[x].vote = req[x].vote /\ req'[x].entries[y] = req[x].entries[y]
        BY <2>1, <3>2, SetEntryEffect
      <4>. QED
        BY <1>0, <4>1 DEF CountedOK
    <3>. QED
      BY <3>1, <3>2
  <2>3. \A y \in Outpoints : tally'[y] # None => tally'[y] \in counted'[y]
    <3>1. CASE UNCHANGED <<tally, counted>>
      BY <3>1 DEF CountedOK
    <3>2. CASE req[r].vote \in Vote /\ Count(o, req[r].vote)
      BY <1>0, <3>2, CountEffect DEF CountedOK
    <3>. QED
      BY <1>2, <3>1, <3>2, EntryEffect
  <2>4. read' = read
    BY <1>2, EntryEffect DEF readVars
  <2>. QED
    BY <1>0, <2>2, <2>3, <2>4 DEF CountedOK
<1>3. ASSUME NEW r \in Requests, VoteAbort(r) \/ VoteReply(r) PROVE CountedOK'
  <2>1. \A x \in Requests, o \in Outpoints :
          req'[x].entries[o] = "accepted" => req[x].entries[o] = "accepted" /\ req'[x].vote = req[x].vote
    <3>1. CASE VoteAbort(r)
      <4>1. \A x \in Requests : /\ req'[x].entries = req[x].entries
                               /\ req'[x].vote = req[x].vote
        BY <3>1, Parts DEF VoteAbort, Request
      <4>. QED
        BY <4>1
    <3>2. CASE VoteReply(r)
      <4>1. req'[r] = Idle /\ \A x \in Requests \ {r} : req'[x] = req[x]
        BY <3>2, Parts DEF VoteReply
      <4>. QED
        BY <4>1 DEF Idle
    <3>. QED
      BY <1>3, <3>1, <3>2
  <2>2. \A n \in Reads : read'[n] \in {read[n], NoRead}
    BY <1>3, Parts, HeldEffect DEF VoteAbort, VoteReply, readVars
  <2>3. UNCHANGED <<tally, counted>>
    BY <1>3 DEF VoteAbort, VoteReply, coreVars
  <2>. QED
    BY <1>0, <2>1, <2>2, <2>3 DEF CountedOK
<1>4. ASSUME NEW o \in Outpoints, CoreStep(o) PROVE CountedOK'
  BY <1>0, <1>4, CoreEffect DEF CountedOK, readVars
<1>5. ASSUME NEW q \in Reconcilers, NEW refresh \in BOOLEAN, ReconcileStart(q, refresh) PROVE CountedOK'
  <2>1. \A n \in Reads : read'[n] \in {read[n], NoRead} \/ read'[n].votes = NoVotes
    BY <1>5, StartEffect, PendedTypes
  <2>2. UNCHANGED <<req, tally, counted>>
    BY <1>5, StartEffect DEF coreVars
  <2>. QED
    BY <1>0, <2>1, <2>2 DEF CountedOK, NoVotes
<1>6. ASSUME NEW n \in Reads, ReadStep(n) PROVE CountedOK'
  <2>1. \A m \in Reads : read'[m].votes \in {read[m].votes, tally, NoRead.votes}
    BY <1>6, ReadEffect
  <2>2. UNCHANGED <<req, tally, counted>>
    BY <1>6, ReadEffect DEF coreVars
  <2>. QED
    BY <1>0, <2>1, <2>2 DEF CountedOK
<1>7. ASSUME NEW q \in Reconcilers, ReconcileApply(q) PROVE CountedOK'
  <2>1. \A n \in Reads : read'[n] \in {read[n], NoRead}
    BY <1>7, Parts, HeldEffect DEF ReconcileApply
  <2>2. UNCHANGED <<req, tally, counted>>
    BY <1>7, ApplyEffect DEF coreVars
  <2>. QED
    BY <1>0, <2>1, <2>2 DEF CountedOK
<1>8. ASSUME ClockTick \/ UNCHANGED vars PROVE CountedOK'
  BY <1>8 DEF CountedOK, ClockTick, vars, coreVars, readVars
<1>. QED
  BY <1>1, <1>2, <1>3, <1>4, <1>5, <1>6, <1>7, <1>8
     DEF Next, Continuation, Event, VoteStep, EntryAction

(* A delivery is only ever claimed of an accepted or an observed vote.     *)
LEMMA DeliveredStep ==
  TypeOK /\ RequestsOK /\ CountedOK /\ DeliveredWasCounted /\ [Next]_vars => DeliveredWasCounted'
<1>. SUFFICES ASSUME TypeOK, RequestsOK, CountedOK, DeliveredWasCounted, [Next]_vars, NEW o \in Outpoints,
                     receipts'[o].status \in {"relayed", "confirmed"}
              PROVE  receipts'[o].vote \in counted'[o]
  BY DEF DeliveredWasCounted
<1>0. counted[o] \subseteq counted'[o]
  BY CountedGrows
<1>1. CASE receipts'[o] = receipts[o]
  BY <1>0, <1>1 DEF DeliveredWasCounted
<1>2. ASSUME NEW r \in Requests, NEW x \in Outpoints, NEW s \in Status, Writes(r, x, s),
             receipts'[o] # receipts[o]
      PROVE  receipts'[o].vote \in counted'[o]
  <2>1. x = o /\ receipts'[o].vote = req[r].vote /\ s = "relayed"
    BY <1>2, UpsertEffect DEF Writes
  <2>. QED
    BY <1>0, <1>2, <2>1 DEF Writes, CountedOK
<1>3. ASSUME NEW q \in Reconcilers, ReconcileApply(q), receipts'[o] # receipts[o]
      PROVE  receipts'[o].vote \in counted'[o]
  <2>. DEFINE c == read[rec[q].read].votes[o]
  <2>1. /\ rec[q].read \in Reads /\ receipts[o].status # "none" /\ receipts[o] \in Receipt
        /\ receipts'[o] = Reconciled(receipts[o], c, rec[q].fresh, rec[q].begun)
    BY <1>3, ApplyEffect, Parts
  <2>2. CASE Settles(receipts[o], c)
    <3>1. c # None
      BY <2>2 DEF Settles
    <3>2. receipts'[o].vote = c
      BY <2>1, <2>2 DEF Reconciled, Confirmed, Receipt, NoReceipt
    <3>. QED
      BY <1>0, <2>1, <3>1, <3>2 DEF CountedOK
  <2>3. CASE ~Settles(receipts[o], c)
    <3>1. receipts'[o] = [receipts[o] EXCEPT !.status = "stale"]
      BY <1>3, <2>1, <2>3 DEF Reconciled
    <3>. QED
      BY <2>1, <3>1 DEF Receipt, NoReceipt
  <2>. QED
    BY <2>2, <2>3
<1>. QED
  BY <1>1, <1>2, <1>3, ReceiptStep

(* Calls end in time and entries expire in time.                           *)
LEMMA ReadsStep == TypeOK /\ RequestsOK /\ ReadsOK /\ [Next]_vars => ReadsOK'
<1>. SUFFICES ASSUME TypeOK, RequestsOK, ReadsOK, [Next]_vars PROVE ReadsOK'
  OBVIOUS
<1>0. /\ now \in Nat /\ RpcTimeout \in Nat /\ Ttl \in Nat /\ NoRead.pc = "free"
      /\ \A n \in Reads : read[n].begun \in Nat /\ read[n].at \in Nat
  BY Parts, Numbers DEF Read, NoRead
<1>1. ASSUME now' = now, \A n \in Reads : read'[n] \in {read[n], NoRead} PROVE ReadsOK'
  BY <1>0, <1>1 DEF ReadsOK
<1>2. ASSUME NEW r \in Requests, VoteReply(r) PROVE ReadsOK'
  BY <1>1, <1>2, Parts, HeldEffect DEF VoteReply
<1>3. ASSUME NEW q \in Reconcilers, NEW refresh \in BOOLEAN, ReconcileStart(q, refresh) PROVE ReadsOK'
  <2>1. now' = now /\ \A n \in Reads : read'[n] \in {read[n], NoRead, Pended}
    BY <1>3, StartEffect
  <2>. QED
    BY <1>0, <2>1, PendedTypes DEF ReadsOK
<1>4. ASSUME NEW n \in Reads, ReadStep(n) PROVE ReadsOK'
  <2>1. now' = now /\ \A m \in Reads \ {n} : read'[m] = read[m]
    BY <1>4, ReadEffect
  <2>2. CASE read[n].pc = "pending" /\ read'[n].pc = "answered" /\ read'[n].at = now /\ read'[n].begun = read[n].begun
    BY <1>0, <2>1, <2>2 DEF ReadsOK
  <2>3. CASE read[n].pc = "answered" /\ read'[n].pc = "ready" /\ read'[n].at = read[n].at /\ read'[n].expires = now + Ttl
    BY <1>0, <2>1, <2>3 DEF ReadsOK
  <2>4. CASE read'[n] = NoRead
    BY <1>0, <2>1, <2>4 DEF ReadsOK
  <2>. QED
    BY <1>4, <2>2, <2>3, <2>4, ReadEffect
<1>5. ASSUME NEW q \in Reconcilers, ReconcileApply(q) PROVE ReadsOK'
  BY <1>1, <1>5, Parts, HeldEffect DEF ReconcileApply
<1>6. ASSUME ClockTick PROVE ReadsOK'
  BY <1>0, <1>6 DEF ReadsOK, ClockTick, readVars
<1>7. ASSUME NEW r \in Requests, NEW o \in Outpoints, EntryAction(r, o) PROVE ReadsOK'
  BY <1>1, <1>7, EntryEffect DEF readVars
<1>8. ASSUME NEW o \in Outpoints, CoreStep(o) PROVE ReadsOK'
  BY <1>1, <1>8, CoreEffect DEF readVars
<1>. QED
  BY <1>1, <1>2, <1>3, <1>4, <1>5, <1>6, <1>7, <1>8
     DEF Next, Continuation, Event, VoteStep, EntryAction, VoteStart, VoteAbort, vars, readVars

(* A reconciliation runs before its observation expires.                   *)
LEMMA RecsStep == TypeOK /\ RequestsOK /\ ReadsOK /\ RecsOK /\ [Next]_vars => RecsOK'
<1>. SUFFICES ASSUME TypeOK, RequestsOK, ReadsOK, RecsOK, [Next]_vars PROVE RecsOK'
  OBVIOUS
<1>0. /\ now \in Nat /\ Ttl \in Nat /\ NoRead.pc = "free" /\ NoReconcile.read = None
      /\ \A n \in Reads : read[n].begun \in Nat /\ read[n].at \in Nat /\ read[n].expires \in Nat
      /\ \A q \in Reconcilers : rec[q].read \in Reads \cup {None} /\ rec[q].begun \in Nat
  BY Parts, Numbers DEF Read, NoRead, NoReconcile, Reconcile
<1>1. ASSUME now' = now, \A q \in Reconcilers : rec'[q] \in {rec[q], NoReconcile},
             \A n \in Reads : read'[n] \in {read[n], NoRead} PROVE RecsOK'
  BY <1>0, <1>1 DEF RecsOK
<1>2. ASSUME NEW r \in Requests, VoteReply(r) PROVE RecsOK'
  BY <1>1, <1>2, Parts, HeldEffect DEF VoteReply
<1>3. ASSUME NEW q \in Reconcilers, NEW refresh \in BOOLEAN, ReconcileStart(q, refresh) PROVE RecsOK'
  <2>1. PICK n \in Reads :
          /\ rec'[q] = Awaits(q, n, refresh)
          /\ \/ read' = read /\ ~refresh /\ (read[n].pc = "ready" => read[n].expires > now)
             \/ read'[n] = Pended /\ \A m \in Reads \ {n} : read'[m] \in {read[m], NoRead}
    BY <1>3, StartEffect
  <2>2. now' = now /\ \A x \in Reconcilers \ {q} : rec'[x] = rec[x]
    BY <1>3, StartEffect
  <2>3. \A m \in Reads : read'[m] \in {read[m], NoRead} \/ read'[m] = Pended
    BY <2>1
  <2>4. Pended.pc = "pending"
    BY PendedTypes
  <2>. SUFFICES ASSUME NEW x \in Reconcilers, rec'[x].read # None
                PROVE  LET seen == read'[rec'[x].read]
                       IN /\ seen.pc = "ready" => now <= seen.expires
                          /\ rec'[x].fresh =>
                               /\ rec'[x].begun <= now
                               /\ seen.pc \in {"answered", "ready"} => rec'[x].begun <= seen.at
    BY <2>2 DEF RecsOK
  <2>5. CASE x # q
    BY <1>0, <2>2, <2>3, <2>4, <2>5 DEF RecsOK
  <2>6. CASE x = q
    <3>1. rec'[x].read = n /\ rec'[x].fresh = refresh /\ rec'[x].begun = now
      BY <2>1, <2>6 DEF Awaits
    <3>. QED
      BY <1>0, <2>1, <2>4, <3>1
  <2>. QED
    BY <2>5, <2>6
<1>4. ASSUME NEW n \in Reads, ReadStep(n) PROVE RecsOK'
  <2>1. /\ now' = now /\ \A m \in Reads \ {n} : read'[m] = read[m]
        /\ \A x \in Reconcilers : rec'[x] = rec[x] \/ rec'[x] = NoReconcile
    BY <1>4, ReadEffect
  <2>2. CASE read[n].pc = "pending" /\ read'[n].pc = "answered" /\ read'[n].at = now
    BY <1>0, <2>1, <2>2 DEF RecsOK
  <2>3. CASE read[n].pc = "answered" /\ read'[n].pc = "ready" /\ read'[n].at = read[n].at /\ read'[n].expires = now + Ttl
    BY <1>0, <2>1, <2>3 DEF RecsOK
  <2>4. CASE read'[n] = NoRead
    BY <1>0, <2>1, <2>4 DEF RecsOK
  <2>. QED
    BY <1>4, <2>2, <2>3, <2>4, ReadEffect
<1>5. ASSUME NEW q \in Reconcilers, ReconcileApply(q) PROVE RecsOK'
  BY <1>1, <1>5, Parts, ApplyEffect, HeldEffect DEF ReconcileApply
<1>6. ASSUME ClockTick, ~Settling PROVE RecsOK'
  <2>1. \A q \in Reconcilers : rec[q].read # None => read[rec[q].read].pc # "ready"
    BY <1>6 DEF Settling, Ready
  <2>. QED
    BY <1>0, <1>6, <2>1 DEF RecsOK, ClockTick, readVars
<1>7. ASSUME NEW r \in Requests, NEW o \in Outpoints, EntryAction(r, o) PROVE RecsOK'
  BY <1>1, <1>7, EntryEffect DEF readVars
<1>8. ASSUME NEW o \in Outpoints, CoreStep(o) PROVE RecsOK'
  BY <1>1, <1>8, CoreEffect DEF readVars
<1>. QED
  BY <1>1, <1>2, <1>3, <1>4, <1>5, <1>6, <1>7, <1>8
     DEF Next, Continuation, Event, VoteStep, EntryAction, VoteStart, VoteAbort, vars, readVars

LEMMA VotesInit == Init => VotesInv
<1>. SUFFICES ASSUME Init PROVE VotesInv
  OBVIOUS
<1>1. \A r \in Requests, o \in Outpoints : req[r].entries[o] = "absent"
  BY DEF Init, Idle
<1>2. \A n \in Reads : read[n].pc = "free" /\ \A o \in Outpoints : read[n].votes[o] = None
  BY DEF Init, NoRead, NoVotes
<1>3. \A o \in Outpoints : tally[o] = None /\ receipts[o].status = "none"
  BY DEF Init, NoReceipt
<1>4. \A q \in Reconcilers : rec[q].read = None
  BY DEF Init, NoReconcile
<1>. QED
  BY <1>1, <1>2, <1>3, <1>4, TypeInit
     DEF VotesInv, RequestsOK, InFlight, CountedOK, DeliveredWasCounted, ReadsOK, RecsOK

LEMMA VotesStep == VotesInv /\ [Next]_vars => VotesInv'
  BY TypeStep, RequestsStep, CountedStep, DeliveredStep, ReadsStep, RecsStep DEF VotesInv

(* Every receipt, request, call and observation keeps its shape, and what  *)
(* the service shows of Core was counted by it and is not out of date, in  *)
(* every reachable state of routes/gov.js and lib/voteReceipts.js.         *)
THEOREM VotesInvariant == Spec => []VotesInv
<1>. QED
  BY VotesInit, VotesStep, PTL DEF Spec

(* The rows, batches, calls and observations never leave their types.      *)
THEOREM TypeCorrect == Spec => []TypeOK
<1>1. VotesInv => TypeOK
  BY DEF VotesInv
<1>. QED
  BY <1>1, VotesInvariant, PTL

(* A receipt that the service shows as relayed or confirmed is one of a    *)
(* vote Core counted: neither a refusal, nor a lost answer, nor a batch    *)
(* that overtakes another is ever shown as a delivery.                     *)
THEOREM DeliveredWasCountedAlways == Spec => []DeliveredWasCounted
<1>1. VotesInv => DeliveredWasCounted
  BY DEF VotesInv
<1>. QED
  BY <1>1, VotesInvariant, PTL

(* Which write changed a receipt.                                          *)
LEMMA WriteParts ==
  ASSUME TypeOK, NEW r \in Requests, NEW x \in Outpoints, NEW s \in Status, Writes(r, x, s),
         NEW o \in Outpoints, receipts'[o] # receipts[o]
  PROVE  /\ s \in {"relayed", "failed", "unknown"}
         /\ Overrides(req[r].vote, s, receipts[o])
         /\ receipts'[o].vote = req[r].vote /\ receipts'[o].status = s
  BY UpsertEffect DEF Writes

(* A reconciliation gives up what it awaited.                              *)
LEMMA ApplyEnds ==
  ASSUME TypeOK, NEW q \in Reconcilers, ReconcileApply(q)
  PROVE  rec[q].read # None /\ rec'[q].read = None /\ \A p \in Reconcilers \ {q} : rec'[p] = rec[p]
  BY ApplyEffect DEF NoReconcile

(* However the calls of several batches complete, the WHERE of upsert in   *)
(* lib/voteReceipts.js keeps a receipt from going back to an earlier       *)
(* intent.                                                                 *)
THEOREM NewerIntentKeptAlways == Spec => NewerIntentKept
<1>. DEFINE A == \A o \in Outpoints :
                   rec' = rec /\ receipts[o].status # "none" =>
                     \/ receipts'[o].vote = receipts[o].vote
                     \/ Later(receipts'[o].vote, receipts[o].vote)
<1>1. VotesInv /\ [Next]_vars => [A]_vars
  <2>. SUFFICES ASSUME TypeOK, RequestsOK, [Next]_vars, NEW o \in Outpoints, rec' = rec,
                       receipts[o].status # "none", receipts'[o] # receipts[o]
                PROVE  \/ receipts'[o].vote = receipts[o].vote
                       \/ Later(receipts'[o].vote, receipts[o].vote)
    BY DEF VotesInv
  <2>1. \E r \in Requests, x \in Outpoints, s \in Status : Writes(r, x, s)
    BY ReceiptStep, ApplyEnds
  <2>. QED
    BY <2>1, WriteParts DEF Overrides
<1>. QED
  BY <1>1, VotesInvariant, PTL DEF Spec, NewerIntentKept

(* A receipt in doubt is settled by the delivery of that very vote, by a   *)
(* later one, or by its absence: never by the refusal of the same vote and *)
(* never by an earlier one.                                                *)
THEOREM UnknownSettledForwardAlways == Spec => UnknownSettledForward
<1>. DEFINE Forward(old, new) ==
              \/ Later(new.vote, old.vote)
              \/ new.vote = old.vote /\ new.status \in {"relayed", "confirmed", "stale"}
<1>1. VotesInv /\ [Next]_vars =>
        [\A o \in Outpoints :
           LET old == receipts[o]
               new == receipts'[o]
           IN old.status = "unknown" /\ new # old =>
                \/ Later(new.vote, old.vote)
                \/ new.vote = old.vote
                   /\ new.status \in {"relayed", "confirmed", "stale"}]_vars
  <2>. SUFFICES ASSUME TypeOK, RequestsOK, [Next]_vars, NEW o \in Outpoints,
                       receipts[o].status = "unknown", receipts'[o] # receipts[o]
                PROVE  Forward(receipts[o], receipts'[o])
    BY DEF VotesInv
  <2>1. ASSUME NEW r \in Requests, NEW x \in Outpoints, NEW s \in Status, Writes(r, x, s)
        PROVE  Forward(receipts[o], receipts'[o])
    <3>1. s \in {"failed", "unknown"} => ~(Evidence(s) > Evidence("unknown"))
      BY DEF Evidence
    <3>. QED
      BY <2>1, <3>1, WriteParts DEF Overrides
  <2>2. ASSUME NEW q \in Reconcilers, ReconcileApply(q) PROVE Forward(receipts[o], receipts'[o])
    <3>. DEFINE c == read[rec[q].read].votes[o]
    <3>1. /\ receipts[o] \in Receipt
          /\ receipts'[o] = Reconciled(receipts[o], c, rec[q].fresh, rec[q].begun)
      BY <2>2, ApplyEffect, Parts
    <3>2. CASE Settles(receipts[o], c)
      <4>1. c = receipts[o].vote \/ Later(c, receipts[o].vote)
        BY <3>2 DEF Settles
      <4>2. receipts'[o].vote = c /\ receipts'[o].status = "confirmed"
        BY <3>1, <3>2 DEF Reconciled, Confirmed, Receipt, NoReceipt
      <4>. QED
        BY <4>1, <4>2
    <3>3. CASE ~Settles(receipts[o], c)
      <4>1. receipts'[o] = [receipts[o] EXCEPT !.status = "stale"]
        BY <3>1, <3>3 DEF Reconciled
      <4>. QED
        BY <3>1, <4>1 DEF Receipt, NoReceipt
    <3>. QED
      BY <3>2, <3>3
  <2>. QED
    BY <2>1, <2>2, ReceiptStep
<1>. QED
  BY <1>1, VotesInvariant, PTL DEF Spec, UnknownSettledForward

(* No receipt is given up on an observation that is too old to say so: the *)
(* cache may serve Core's answer for Ttl and a call may take RpcTimeout,   *)
(* but together they stay within the grace period (GraceAssumption), so    *)
(* Core was looked at after the last submission; a vote in doubt is given  *)
(* up only by a reconciliation whose own look came a grace period later.   *)
THEOREM StaleOnEvidenceAlways == Spec => StaleOnEvidence
<1>1. VotesInv /\ [Next]_vars =>
        [\A o \in Outpoints, q \in Reconcilers :
           LET seen == read[rec[q].read]
               old  == receipts[o]
           IN rec[q].read # None /\ rec'[q].read = None
              /\ receipts'[o].status = "stale" /\ old.status # "stale" =>
                /\ seen.votes[o] # old.vote
                /\ old.status = "relayed" => seen.at > old.submitted
                /\ old.status = "unknown" => seen.at > old.submitted + Grace]_vars
  <2>. SUFFICES ASSUME TypeOK, RequestsOK, ReadsOK, RecsOK, [Next]_vars, NEW o \in Outpoints,
                       NEW q \in Reconcilers, rec[q].read # None, rec'[q].read = None,
                       receipts'[o].status = "stale", receipts[o].status # "stale"
                PROVE  LET seen == read[rec[q].read]
                           old  == receipts[o]
                       IN /\ seen.votes[o] # old.vote
                          /\ old.status = "relayed" => seen.at > old.submitted
                          /\ old.status = "unknown" => seen.at > old.submitted + Grace
    BY DEF VotesInv
  <2>. DEFINE seen == read[rec[q].read]
              old  == receipts[o]
              c    == seen.votes[o]
  <2>1. ReconcileApply(q)
    BY ReceiptStep, ApplyEnds
  <2>2. /\ old.status # "none" /\ old \in Receipt /\ seen.pc = "ready" /\ rec[q].read \in Reads
        /\ receipts'[o] = Reconciled(old, c, rec[q].fresh, rec[q].begun)
    BY <2>1, ApplyEffect, Parts
  <2>3. ~Settles(old, c)
    <3>1. Settles(old, c) => receipts'[o].status = "confirmed"
      BY <2>2 DEF Reconciled, Confirmed, Receipt, NoReceipt
    <3>. QED
      BY <3>1
  <2>4. Retires(old, rec[q].fresh, rec[q].begun)
    BY <2>2, <2>3 DEF Reconciled
  <2>5. c # old.vote
    <3>1. old.vote \in Vote
      BY <2>2, ReceiptParts
    <3>. QED
      BY <2>3, <3>1 DEF Settles
  <2>6. /\ old.submitted \in Nat /\ now \in Nat /\ seen.at \in Nat /\ rec[q].begun \in Nat
        /\ seen.expires \in Nat /\ Grace \in Nat /\ RpcTimeout \in Nat /\ Ttl \in Nat
    BY <2>2, ReceiptParts, Parts, Numbers DEF Read, Reconcile
  <2>7. /\ now <= seen.expires /\ seen.expires <= seen.at + RpcTimeout + Ttl
        /\ rec[q].fresh => rec[q].begun <= seen.at
    BY <2>2 DEF ReadsOK, RecsOK
  <2>8. old.status = "relayed" => seen.at > old.submitted
    <3>1. old.status = "relayed" => old.submitted + Grace < now
      BY <2>4 DEF Retires
    <3>. QED
      BY <2>6, <2>7, <3>1, GraceAssumption
  <2>9. old.status = "unknown" => seen.at > old.submitted + Grace
    <3>1. old.status = "unknown" => rec[q].fresh /\ old.submitted + Grace < rec[q].begun
      BY <2>4 DEF Retires
    <3>. QED
      BY <2>6, <2>7, <3>1
  <2>. QED
    BY <2>5, <2>8, <2>9
<1>. QED
  BY <1>1, VotesInvariant, PTL DEF Spec, StaleOnEvidence
=============================================================================
