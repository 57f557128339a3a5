-------------------------------- MODULE Votes --------------------------------
(***************************************************************************)
(* Governance votes of one user on one proposal: POST /gov/vote            *)
(* (routes/gov.js) relays a batch of signed votes with relayVotes          *)
(* (lib/gov.js), keeps a receipt per masternode (lib/voteReceipts.js), and *)
(* POST /gov/receipts/reconcile compares the receipts with Core's current  *)
(* votes, read through a per-process cache of gobject_getcurrentvotes.     *)
(*                                                                         *)
(* Grain of atomicity.  The service is one Node.js process: a step is what *)
(* runs between two awaits.  Promise continuations run before the next     *)
(* event is taken from the loop, so Next prefers them (Continuation).      *)
(* A vote is its time and outcome; the signal is always "funding".         *)
(***************************************************************************)
EXTENDS Integers, FiniteSets

CONSTANTS
  Outpoints,    \* the user's masternodes
  VoteTimes,    \* times the client signs into votes
  Outcomes,     \* by Core's order: 1 yes, 2 no, 3 abstain
  Requests,     \* POST /gov/vote in flight
  Reconcilers,  \* POST /gov/receipts/reconcile in flight
  Reads,        \* gobject_getcurrentvotes calls in flight or cached
  None,
  Concurrency,  \* entries relayed at a time
  Grace,        \* staleGraceMs
  Recent,       \* recentRelayMs
  SkipFresh,    \* confirmedSkipFreshnessMs
  RouteFresh,   \* receiptsFreshnessMs
  Ttl,          \* ttlMs of the cache
  RpcTimeout,   \* a call to Core takes no longer than this
  MaxTime       \* bound: the clock stops here

ASSUME VotesAssumption ==
  /\ VoteTimes \subseteq Nat
  /\ Outcomes \subseteq 1..3
  /\ Concurrency \in Nat \ {0}
  /\ {Grace, Recent, SkipFresh, RouteFresh, Ttl, RpcTimeout} \subseteq Nat
  /\ MaxTime \in Nat \ {0}

\* What the defaults keep apart: no observation the cache can serve is older
\* than the grace period (2 min + 10 s against 10 min).
ASSUME GraceAssumption == Ttl + RpcTimeout <= Grace

Vote == [time: VoteTimes, outcome: Outcomes]

ASSUME NoneIsNoVote == None \notin Vote \cup Reads

VARIABLES
  receipts,  \* vote_receipts: per outpoint
  req,       \* per vote request: the vote, its entries, and what was decided
  late,      \* calls the service gave up on and Core may still execute
  tally,     \* Core: the vote that counts, per outpoint
  counted,   \* Core: every vote it ever counted (history)
  read,      \* per read: where it stands and what Core answered
  entry,     \* the cache's entry: the read it holds
  rec,       \* per reconcile request: what it read, and the read it awaits
  now        \* the clock

coreVars  == <<tally, counted, late>>
readVars  == <<read, entry, rec>>
vars == <<receipts, req, late, tally, counted, read, entry, rec, now>>

-----------------------------------------------------------------------------
Times  == 0..MaxTime
Status == {"relayed", "confirmed", "stale", "failed", "unknown"}

\* verified 0 is NULL; the clock starts at 1.
NoReceipt == [vote |-> None, status |-> "none", submitted |-> 0, verified |-> 0]
Receipt == {NoReceipt} \cup
  [vote: Vote, status: Status, submitted: Times, verified: Times]

EntryState == {"absent", "queued", "sent", "accepted", "duplicate", "rejected",
               "done"}
InFlight == {"sent", "accepted", "duplicate", "rejected"}
Request == [pc: {"idle", "open", "aborted"}, vote: Vote \cup {None},
            entries: [Outpoints -> EntryState], good: SUBSET Outpoints]
Idle == [pc |-> "idle", vote |-> None,
         entries |-> [o \in Outpoints |-> "absent"], good |-> {}]

\* Observation of Core: its answer and when it was given.
NoVotes == [o \in Outpoints |-> None]
Read == [pc: {"free", "pending", "answered", "ready"}, begun: Times, at: Times,
         votes: [Outpoints -> Vote \cup {None}], expires: Nat]
NoRead == [pc |-> "free", begun |-> 0, at |-> 0, votes |-> NoVotes, expires |-> 0]

Reconcile == [read: Reads \cup {None}, fresh: BOOLEAN, begun: Times,
              seen: [Outpoints -> Receipt]]
NoReconcile == [read |-> None, fresh |-> FALSE, begun |-> 0,
                seen |-> [o \in Outpoints |-> NoReceipt]]

\* supersedesIntent: v is a later intent than w, in Core's order.
Later(v, w) == \/ v.time > w.time
               \/ v.time = w.time /\ v.outcome > w.outcome

\* The strength of a status as evidence of delivery.
Evidence(s) == CASE s = "confirmed" -> 4
                 [] s = "relayed"   -> 3
                 [] s = "unknown"   -> 2
                 [] OTHER           -> 1

-----------------------------------------------------------------------------
Init ==
  /\ receipts = [o \in Outpoints |-> NoReceipt]
  /\ req = [r \in Requests |-> Idle]
  /\ late = {}
  /\ tally = [o \in Outpoints |-> None]
  /\ counted = [o \in Outpoints |-> {}]
  /\ read = [n \in Reads |-> NoRead]
  /\ entry = None
  /\ rec = [q \in Reconcilers |-> NoReconcile]
  /\ now = 1

-----------------------------------------------------------------------------
(* The receipts repository.                                                *)

\* upsert: when the new vote and status replace the stored row.
AlwaysOverrides(v, s, old) == TRUE   \* variant: the UPDATE has no WHERE
Overrides(v, s, old) ==
  old.status # "none" =>
    \/ Later(v, old.vote)
    \/ v = old.vote /\ Evidence(s) > Evidence(old.status)
    \/ v = old.vote /\ {s, old.status} \subseteq {"failed", "stale"}

\* persistReceipt: a write that fails is logged and forgotten.
Upsert(o, v, s) ==
  \/ /\ Overrides(v, s, receipts[o])
     /\ receipts' = [receipts EXCEPT ![o] = [vote |-> v, status |-> s,
                                             submitted |-> now, verified |-> 0]]
  \/ UNCHANGED receipts

\* decideRelay.
Hold(o) == receipts[o].status = "unknown"
Skip(o, v) ==
  LET r == receipts[o] IN
  /\ r.status # "none" /\ r.vote.outcome = v.outcome
  /\ \/ /\ r.status = "confirmed"
        /\ r.verified > 0
        /\ now - r.verified < SkipFresh
     \/ /\ r.status = "relayed"
        /\ now - r.submitted < Recent
Relay(o, v) == ~Hold(o) /\ ~Skip(o, v)

-----------------------------------------------------------------------------
(* POST /gov/vote.  The decisions for the whole batch are taken before the *)
(* first call; the receipt each was based on is not read again.            *)

Pending(r) == \E o \in Outpoints : req[r].entries[o] \in InFlight \cup {"queued"}

\* mapLimited has a worker free for one more entry.
SlotFree(r) ==
  Cardinality({o \in Outpoints : req[r].entries[o] \in InFlight}) < Concurrency

VoteStart(r, v, S) ==
  /\ req[r].pc = "idle"
  /\ S # {}
  /\ req' = [req EXCEPT ![r] =
       [pc |-> "open", vote |-> v,
        entries |-> [o \in Outpoints |-> IF o \notin S    THEN "absent"
                                         ELSE IF Relay(o, v) THEN "queued"
                                         ELSE "done"],
        good |-> {o \in S : receipts[o].status \in {"confirmed", "relayed"}}]]
  /\ UNCHANGED <<receipts, coreVars, readVars, now>>

SetEntry(r, o, s) == req' = [req EXCEPT ![r].entries[o] = s]

\* mapLimited hands the next entry to a worker, which calls voteraw.
VoteSend(r, o) ==
  /\ req[r].pc = "open"
  /\ req[r].entries[o] = "queued"
  /\ SlotFree(r)
  /\ SetEntry(r, o, "sent")
  /\ UNCHANGED <<receipts, coreVars, readVars, now>>

\* The batch deadline passed before the entry's turn, or the transport knows
\* that the call never left: no receipt is written.
VoteNotSent(r, o) ==
  /\ \/ req[r].pc = "aborted" /\ req[r].entries[o] = "queued"
     \/ req[r].pc = "open" /\ req[r].entries[o] = "sent"
  /\ SetEntry(r, o, "done")
  /\ UNCHANGED <<receipts, coreVars, readVars, now>>

\* voteraw resolves before the deadline.
VoteRelayed(r, o) ==
  /\ req[r].pc = "open"
  /\ req[r].entries[o] = "accepted"
  /\ Upsert(o, req[r].vote, "relayed")
  /\ SetEntry(r, o, "done")
  /\ UNCHANGED <<coreVars, readVars, now>>

\* already_voted or vote_too_often: no receipt when the one read by the
\* decision was confirmed or relayed.
\* Variant: the duplicate is taken for a success.
DuplicateIsRelayed(r, o) ==
  /\ req[r].pc = "open"
  /\ req[r].entries[o] = "duplicate"
  /\ Upsert(o, req[r].vote, "relayed")
  /\ SetEntry(r, o, "done")
  /\ UNCHANGED <<coreVars, readVars, now>>

VoteDuplicate(r, o) ==
  /\ req[r].pc = "open"
  /\ req[r].entries[o] = "duplicate"
  /\ IF o \in req[r].good THEN UNCHANGED receipts
                          ELSE Upsert(o, req[r].vote, "failed")
  /\ SetEntry(r, o, "done")
  /\ UNCHANGED <<coreVars, readVars, now>>

\* Any other definite rejection.
VoteRejected(r, o) ==
  /\ req[r].pc = "open"
  /\ req[r].entries[o] = "rejected"
  /\ Upsert(o, req[r].vote, "failed")
  /\ SetEntry(r, o, "done")
  /\ UNCHANGED <<coreVars, readVars, now>>

\* A transport error, an unrecognised one, or the deadline: the call may or
\* may not have been executed, and may still be.
VoteUncertain(r, o) ==
  LET e == req[r].entries[o] IN
  /\ e \in InFlight
  /\ Upsert(o, req[r].vote, "unknown")
  /\ SetEntry(r, o, "done")
  /\ late' = IF e = "sent" THEN late \cup {<<o, req[r].vote>>} ELSE late
  /\ UNCHANGED <<tally, counted, readVars, now>>

\* The batch deadline.
\* Variant: it is looked at between entries only.
AbortBetweenEntries(r) ==
  /\ req[r].pc = "open"
  /\ \E o \in Outpoints : req[r].entries[o] = "queued"
  /\ req' = [req EXCEPT ![r].pc = "aborted"]
  /\ UNCHANGED <<receipts, coreVars, readVars, now>>

VoteAbort(r) ==
  /\ req[r].pc = "open"
  /\ Pending(r)
  /\ req' = [req EXCEPT ![r].pc = "aborted"]
  /\ UNCHANGED <<receipts, coreVars, readVars, now>>

\* A cache record nobody holds is gone.
Held(rd, e, rc) == [n \in Reads |-> IF n = e \/ \E q \in Reconcilers : rc[q].read = n
                                      THEN rd[n] ELSE NoRead]

\* All entries are settled: drop the cached votes of the proposal and answer.
VoteReply(r) ==
  /\ req[r].pc # "idle"
  /\ ~Pending(r)
  /\ req' = [req EXCEPT ![r] = Idle]
  /\ entry' = None
  /\ read' = Held(read, None, rec)
  /\ UNCHANGED <<receipts, coreVars, rec, now>>

-----------------------------------------------------------------------------
(* Core.  A vote counts when it is later than the one that counts now; a   *)
(* known or a too frequent vote is refused; old votes are dropped.         *)

Takes(o, v) == v \notin counted[o] /\ (tally[o] # None => Later(v, tally[o]))
Count(o, v) == /\ tally' = [tally EXCEPT ![o] = v]
               /\ counted' = [counted EXCEPT ![o] = @ \cup {v}]

CoreAccepts(r, o) ==
  /\ req[r].entries[o] = "sent"
  /\ Takes(o, req[r].vote)
  /\ Count(o, req[r].vote)
  /\ SetEntry(r, o, "accepted")
  /\ UNCHANGED <<receipts, late, readVars, now>>

CoreRefuses(r, o) ==
  /\ req[r].entries[o] = "sent"
  /\ \E s \in {"duplicate", "rejected"} :
       /\ s = "duplicate" => counted[o] # {}
       /\ SetEntry(r, o, s)
  /\ UNCHANGED <<receipts, coreVars, readVars, now>>

\* A call the service gave up on is executed, or is lost.
LateDelivery(o, v) ==
  /\ <<o, v>> \in late
  /\ late' = late \ {<<o, v>>}
  /\ \/ Takes(o, v) /\ Count(o, v)
     \/ UNCHANGED <<tally, counted>>
  /\ UNCHANGED <<receipts, req, readVars, now>>

\* The user votes from another wallet.
VoteElsewhere(o, v) ==
  /\ Takes(o, v)
  /\ Count(o, v)
  /\ UNCHANGED <<receipts, req, late, readVars, now>>

VoteDropped(o) ==
  /\ tally[o] # None
  /\ tally' = [tally EXCEPT ![o] = None]
  /\ UNCHANGED <<receipts, req, late, counted, readVars, now>>

-----------------------------------------------------------------------------
(* POST /gov/receipts/reconcile and the cache.                             *)

Stored == {o \in Outpoints : receipts[o].status # "none"}
AllFresh == \A o \in Stored : /\ receipts[o].status = "confirmed"
                              /\ now - receipts[o].verified < RouteFresh

\* cache.get may return the entry: a pending read does not expire.
HitForEver == entry # None   \* variant: the expiry is not looked at
Hit == entry # None /\ (read[entry].pc = "ready" => read[entry].expires > now)

\* Read the receipts, then the cache, or start a read and cache it.
ReconcileStart(q, refresh) ==
  LET waits(n) == [rec EXCEPT ![q] = [read |-> n, fresh |-> refresh,
                                      begun |-> now, seen |-> receipts]]
  IN
  /\ rec[q].read = None
  /\ Stored # {}
  /\ refresh \/ ~AllFresh
  /\ \/ /\ Hit /\ ~refresh
        /\ rec' = waits(entry)
        /\ UNCHANGED <<read, entry>>
     \/ /\ ~Hit \/ refresh
        /\ \E n \in Reads :
             /\ read[n] = NoRead
             /\ rec' = waits(n)
             /\ entry' = n
             /\ read' = Held([read EXCEPT ![n] = [NoRead EXCEPT !.pc = "pending",
                                                               !.begun = now]],
                             n, rec')
  /\ UNCHANGED <<receipts, req, coreVars, now>>

\* Core answers with the votes that count at this moment.
CoreReads(n) ==
  /\ read[n].pc = "pending"
  /\ read' = [read EXCEPT ![n].pc = "answered", ![n].votes = tally, ![n].at = now]
  /\ UNCHANGED <<receipts, req, coreVars, entry, rec, now>>

\* The answer arrives: the entry's time to live starts now.
ReadResolves(n) ==
  /\ read[n].pc = "answered"
  /\ read' = [read EXCEPT ![n].pc = "ready", ![n].begun = 0,
                          ![n].expires = now + Ttl]
  /\ UNCHANGED <<receipts, req, coreVars, entry, rec, now>>

\* The call fails: the record leaves the cache if it is still the entry, and
\* its callers report the failure and change nothing.
ReadFails(n) ==
  /\ read[n].pc \in {"pending", "answered"}
  /\ entry' = IF entry = n THEN None ELSE entry
  /\ rec' = [q \in Reconcilers |-> IF rec[q].read = n THEN NoReconcile ELSE rec[q]]
  /\ read' = [read EXCEPT ![n] = NoRead]
  /\ UNCHANGED <<receipts, req, coreVars, now>>

\* Core's vote c for receipt r is what it is to show: any vote, but for an
\* unresolved submission only that very vote or a later one.
AnyVoteSettles(r, c) == c # None   \* variant: any vote settles everything
AbsenceSettles(r, c) ==   \* variant: not even a vote is needed
  r.status = "unknown" => c = r.vote
Settles(r, c) ==
  c # None /\ (r.status = "unknown" => c = r.vote \/ Later(c, r.vote))

\* Receipt r, which Core does not show, has waited long enough: by now, or for
\* an unresolved submission before a fresh observation began.
CachedRetires(r, fresh, begun) ==   \* variant: also a cached observation
  \/ r.status = "relayed" /\ r.submitted + Grace < now
  \/ r.status = "unknown" /\ r.submitted + Grace < begun
Retires(r, fresh, begun) ==
  \/ r.status = "relayed" /\ r.submitted + Grace < now
  \/ r.status = "unknown" /\ fresh /\ r.submitted + Grace < begun

OwnVoteConfirmed(r, c) ==   \* variant: the chain's outcome is not adopted
  [r EXCEPT !.status = "confirmed", !.verified = now]
Confirmed(r, c) == [r EXCEPT !.vote = c, !.status = "confirmed", !.verified = now]

Reconciled(r, c, fresh, begun) ==
  IF Settles(r, c) THEN Confirmed(r, c)
  ELSE IF Retires(r, fresh, begun) THEN [r EXCEPT !.status = "stale"]
  ELSE r

\* The row is still the one that was read.
SameRow(o, r) == /\ receipts[o].vote = r.vote
                 /\ receipts[o].status = r.status
                 /\ receipts[o].submitted = r.submitted

Ready(q) == rec[q].read # None /\ read[rec[q].read].pc = "ready"

\* The transaction over all the receipts that were read.
ReconcileApply(q) ==
  LET c == rec[q] IN
  /\ Ready(q)
  /\ receipts' = [o \in Outpoints |->
       IF c.seen[o].status # "none" /\ SameRow(o, c.seen[o])
         THEN Reconciled(receipts[o], read[c.read].votes[o], c.fresh, c.begun)
         ELSE receipts[o]]
  /\ rec' = [rec EXCEPT ![q] = NoReconcile]
  /\ read' = Held(read, entry, rec')
  /\ UNCHANGED <<req, coreVars, entry, now>>

\* A call to Core fails rather than take longer than RpcTimeout.
ClockTick ==
  /\ now < MaxTime
  /\ \A n \in Reads : read[n].pc \in {"pending", "answered"} =>
                        now < read[n].begun + RpcTimeout
  /\ now' = now + 1
  /\ UNCHANGED <<receipts, req, coreVars, readVars>>

-----------------------------------------------------------------------------
\* What is left to run before the loop takes the next event: entries that a
\* worker takes or that the deadline settled, replies, and reconciliations.
Runnable(r, o) == \/ req[r].entries[o] = "queued" /\ SlotFree(r)
                  \/ req[r].pc = "aborted"
                     /\ req[r].entries[o] \in InFlight \cup {"queued"}
Settling == \/ \E r \in Requests : req[r].pc # "idle" /\ ~Pending(r)
            \/ \E r \in Requests, o \in Outpoints : Runnable(r, o)
            \/ \E q \in Reconcilers : Ready(q)

Continuation ==
  \/ \E r \in Requests :
       \/ VoteReply(r)
       \/ \E o \in Outpoints :
            /\ Runnable(r, o)
            /\ VoteSend(r, o) \/ VoteNotSent(r, o) \/ VoteUncertain(r, o)
  \/ \E q \in Reconcilers : ReconcileApply(q)

VoteStep(r) ==
  \/ \E v \in Vote, S \in SUBSET Outpoints : VoteStart(r, v, S)
  \/ VoteAbort(r)
  \/ \E o \in Outpoints :
       \/ VoteNotSent(r, o)
       \/ VoteRelayed(r, o)
       \/ VoteDuplicate(r, o)
       \/ VoteRejected(r, o)
       \/ VoteUncertain(r, o)
       \/ CoreAccepts(r, o)
       \/ CoreRefuses(r, o)

CoreStep(o) ==
  \/ \E v \in Vote : LateDelivery(o, v) \/ VoteElsewhere(o, v)
  \/ VoteDropped(o)

ReadStep(n) == CoreReads(n) \/ ReadResolves(n) \/ ReadFails(n)

Event ==
  \/ \E r \in Requests : VoteStep(r)
  \/ \E o \in Outpoints : CoreStep(o)
  \/ \E q \in Reconcilers, refresh \in BOOLEAN : ReconcileStart(q, refresh)
  \/ \E n \in Reads : ReadStep(n)
  \/ ClockTick

Next == Continuation \/ (~Settling /\ Event)

Spec == Init /\ [][Next]_vars

-----------------------------------------------------------------------------
(* Properties.                                                             *)

TypeOK ==
  /\ receipts \in [Outpoints -> Receipt]
  /\ req \in [Requests -> Request]
  /\ late \subseteq Outpoints \X Vote
  /\ tally \in [Outpoints -> Vote \cup {None}]
  /\ counted \in [Outpoints -> SUBSET Vote]
  /\ read \in [Reads -> Read]
  /\ entry \in Reads \cup {None}
  /\ rec \in [Reconcilers -> Reconcile]
  /\ now \in Times

\* A receipt shown as relayed or confirmed names a vote that Core counted: a
\* refused vote, or one whose answer was lost, is never shown as delivered.
DeliveredWasCounted ==
  \A o \in Outpoints : receipts[o].status \in {"relayed", "confirmed"} =>
    receipts[o].vote \in counted[o]

\* Completion order is not intent order: however the calls of two batches
\* complete, no relay replaces a receipt by an earlier intent.
NewerIntentKept ==
  [][\A o \in Outpoints :
       rec' = rec /\ receipts[o].status # "none" =>
         \/ receipts'[o].vote = receipts[o].vote
         \/ Later(receipts'[o].vote, receipts[o].vote)]_vars

\* An unresolved submission is settled only by its own delivery or by a later
\* vote: neither a relay nor a reconciliation takes it back to an earlier one
\* or to a rejection of the same vote.
UnknownSettledForward ==
  [][\A o \in Outpoints :
       LET old == receipts[o]
           new == receipts'[o]
       IN old.status = "unknown" /\ new # old =>
            \/ Later(new.vote, old.vote)
            \/ new.vote = old.vote
               /\ new.status \in {"relayed", "confirmed", "stale"}]_vars

\* A receipt is called stale on evidence: Core was observed without the vote
\* after it was last submitted, and for an unresolved submission only after the
\* grace period, although the observation may come from the cache and may have
\* taken any time to arrive.
StaleOnEvidence ==
  [][\A o \in Outpoints, q \in Reconcilers :
       LET seen == read[rec[q].read]
           old  == receipts[o]
       IN rec[q].read # None /\ rec'[q].read = None
          /\ receipts'[o].status = "stale" /\ old.status # "stale" =>
            /\ seen.votes[o] # old.vote
            /\ old.status = "relayed" => seen.at > old.submitted
            /\ old.status = "unknown" => seen.at > old.submitted + Grace]_vars

-----------------------------------------------------------------------------
(* Statements of the repository's comments that the code does not keep.    *)

\* A duplicate answer of Core never turns a good receipt into a failed one.
DuplicateKeepsGood ==
  [][\A r \in Requests, o \in Outpoints :
       req[r].entries[o] = "duplicate"
       /\ receipts[o].status \in {"relayed", "confirmed"} =>
         receipts'[o].status # "failed"]_vars

\* After a vote change, reconciliation does not confirm the old outcome from a
\* snapshot taken before the change.
OldVoteNotReconfirmed ==
  [][\A o \in Outpoints :
       receipts[o].status = "relayed" /\ receipts'[o].status = "confirmed"
       /\ tally[o] = receipts[o].vote =>
         receipts'[o].vote = receipts[o].vote]_vars

\* A vote is not sent again over an unresolved submission.
UnknownNotRelayed ==
  [][\A r \in Requests, o \in Outpoints :
       req[r].entries[o] = "queued" /\ req'[r].entries[o] = "sent" =>
         receipts[o].status # "unknown"]_vars

-----------------------------------------------------------------------------
(* Liveness.  Continuations run; the batch timer fires and a read is       *)
(* answered or times out although continuations and other events keep      *)
(* coming in between (the loop's queues are first in, first out, hence     *)
(* strong fairness).  Nothing is assumed of Core's answers to votes.       *)

FairSpec ==
  /\ Spec
  /\ WF_vars(Continuation)
  /\ \A r \in Requests : SF_vars(~Settling /\ VoteAbort(r))
  /\ \A n \in Reads : SF_vars(~Settling /\ (ReadResolves(n) \/ ReadFails(n)))

\* Every request is answered, even if Core and the transport never settle a
\* call: the batch deadline bounds it.
Answered ==
  /\ \A r \in Requests : req[r].pc # "idle" ~> req[r].pc = "idle"
  /\ \A q \in Reconcilers : rec[q].read # None ~> rec[q].read = None

-----------------------------------------------------------------------------
(* The inductive invariant.                                                *)

\* An entry that was taken up belongs to a request with a vote.
RequestsOK ==
  \A r \in Requests, o \in Outpoints :
    req[r].entries[o] \in InFlight \cup {"queued"} => req[r].vote \in Vote

\* What Core shows, showed, or has accepted was counted.
CountedOK ==
  /\ \A o \in Outpoints : tally[o] # None => tally[o] \in counted[o]
  /\ \A n \in Reads, o \in Outpoints :
       read[n].votes[o] # None => read[n].votes[o] \in counted[o]
  /\ \A r \in Requests, o \in Outpoints :
       req[r].entries[o] = "accepted" => req[r].vote \in counted[o]

\* A call takes no longer than RpcTimeout, and what it returned is not served
\* longer than Ttl.
ReadsOK ==
  \A n \in Reads :
    /\ read[n].pc \in {"pending", "answered"} =>
         read[n].begun <= now /\ now <= read[n].begun + RpcTimeout
    /\ read[n].pc = "answered" => read[n].begun <= read[n].at
    /\ read[n].pc = "ready" => read[n].expires <= read[n].at + RpcTimeout + Ttl

\* A reconciliation is done before its observation expires, and one that asked
\* for a fresh observation has one that was not made before it asked.
RecsOK ==
  \A q \in Reconcilers : rec[q].read # None =>
    LET seen == read[rec[q].read]
    IN /\ seen.pc = "ready" => now <= seen.expires
       /\ rec[q].fresh =>
            /\ rec[q].begun <= now
            /\ seen.pc \in {"answered", "ready"} => rec[q].begun <= seen.at

VotesInv ==
  TypeOK /\ RequestsOK /\ CountedOK /\ DeliveredWasCounted /\ ReadsOK /\ RecsOK
=============================================================================
