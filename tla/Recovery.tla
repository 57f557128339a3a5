------------------------------ MODULE Recovery ------------------------------
(***************************************************************************)
(* Email alerts for one smart-account wallet: enrolment with a signed      *)
(* challenge (routes/recovery.js), the monitor that reads the recovery     *)
(* module on chain (recoveryMonitor.js, recoveryRpc.js) and the outbox     *)
(* from which alerts are delivered (recoveryRepository.js).                *)
(*                                                                         *)
(* One subscription and one recovery operation of that wallet.  Time on    *)
(* chain is counted in blocks.  The chain has two branches that share      *)
(* their first block; a reorganisation makes the other branch the live     *)
(* one, so that a branch can also be restored block for block.             *)
(***************************************************************************)
EXTENDS Integers, Sequences, FiniteSets

CONSTANTS
  Calls,          \* concurrent POST /recovery/subscriptions
  None,
  Delay,          \* blocks from scheduling to the executable state
  Expiration,     \* blocks from there to expiry
  Page,           \* blocks of logs read by one update (2000)
  Parallel,       \* notices delivered at a time (3)
  OpenLimit,      \* challenges a user may hold (5)
  MaxChallenges,  \* bound: challenges ever issued, hence enrolments
  Events,         \* bound: what may happen to the operation on chain
  MaxHeight,      \* bound: length of a branch
  MaxSwitches,    \* bound: reorganisations
  MaxChanges      \* bound: challenges and reorganisations together

ASSUME RecoveryAssumption ==
  /\ Delay \in Nat \ {0} /\ Expiration \in Nat \ {0} /\ Page \in Nat \ {0}
  /\ OpenLimit \in Nat \ {0} /\ Parallel \in Nat \ {0}
  /\ MaxChallenges \in Nat
  /\ Events \subseteq {"schedule", "canceled", "executed", "removed"}
  /\ MaxHeight \in Nat \ {0} /\ MaxSwitches \in Nat /\ MaxChanges \in Nat

VARIABLES
  branch,    \* the events of each branch, one per block
  live,      \* the canonical branch
  switches,
  sub,       \* the row of recovery_subscriptions
  op,        \* the row of recovery_operations
  outbox,    \* recovery_outbox, by AUTOINCREMENT id
  mon,       \* the tick under way
  call,      \* subscribe handlers
  issued,    \* challenges issued: 1..issued
  spent      \* those consumed or expired

chainVars == <<branch, live, switches>>
tables == <<sub, op, outbox>>
proofs == <<call, issued, spent>>
vars == <<branch, live, switches, sub, op, outbox, mon, call, issued, spent>>

Active == {"pending", "ready"}
Ended == {"executed", "canceled", "expired", "invalidated", "orphaned"}
Initiations == {"scheduled", "timing_changed", "reminder"}
AboutOp == Initiations \cup Ended
Kinds == AboutOp \cup {"enabled", "disabled", "reorg"}
Awaiting == {"head", "snapshot", "check", "reconcile", "logs", "end", "assert"}

NoOp == [state |-> "none", exec |-> 0, exp |-> 0]
NoSub == [en |-> FALSE, gen |-> 0, cursor |-> 0, hash |-> None, anchor |-> 0,
          status |-> "disabled", rec |-> FALSE]
Idle == [pc |-> "idle", gen |-> 0, cursor |-> 0, hash |-> None, anchor |-> 0,
         needs |-> FALSE, reorg |-> FALSE, retry |-> FALSE, rec |-> FALSE,
         head |-> None, log |-> 0, endHash |-> None]
Delivering == [Idle EXCEPT !.pc = "deliver"]
NoCall == [ch |-> 0, head |-> None]

Lower(a, b) == IF a < b THEN a ELSE b
-----------------------------------------------------------------------------
(* The chain.  A block is named by its height and its branch, 0 for the    *)
(* shared first block.                                                     *)

Height == Len(branch[live])
Hash(b, n) == <<n, IF n = 1 THEN 0 ELSE b>>
Tip == Hash(live, Height)
Canonical(h) == h[1] <= Height /\ h = Hash(live, h[1])

\* The height at which one of evs happened on the branch of h, 0 if it did not.
At(h, evs) ==
  LET b == IF h[2] = 0 THEN live ELSE h[2]
      hits == {i \in 1..h[1] : branch[b][i] \in evs}
  IN IF hits = {} THEN 0 ELSE CHOOSE i \in hits : TRUE

\* What snapshot() reports of the operation at block h.
ViewAt(h) ==
  LET end == At(h, {"executed", "canceled", "removed"})
      b == IF h[2] = 0 THEN live ELSE h[2]
  IN [at |-> At(h, {"schedule"}), time |-> h[1],
      end |-> IF end = 0 THEN "open" ELSE branch[b][end]]

IsCurrent(v) == v.at > 0 /\ v.end = "open"
Installed(v) == v.end # "removed"

StateFor(v, old) ==
  CASE v.at = 0 -> "orphaned"
    [] v.at > 0 /\ v.end \in {"executed", "canceled"} -> v.end
    [] v.at > 0 /\ v.end = "removed" ->
         IF old.exp > 0 /\ v.time >= old.exp THEN "expired" ELSE "invalidated"
    [] IsCurrent(v) /\ v.time >= v.at + Delay + Expiration -> "expired"
    [] IsCurrent(v) /\ v.time < v.at + Delay -> "pending"
    [] OTHER -> "ready"

\* Events the recovery module can emit in the next block.
Possible ==
  LET v == ViewAt(Tip)
  IN {"none"} \cup (Events \cap ((IF v.at = 0 THEN {"schedule"} ELSE {})
      \cup (IF IsCurrent(v) THEN {"canceled", "removed"} ELSE {})
      \cup (IF StateFor(v, NoOp) = "ready" THEN {"executed"} ELSE {})))

Mine(e) ==
  /\ Height < MaxHeight
  /\ e \in Possible
  /\ branch' = [branch EXCEPT ![live] = Append(@, e)]
  /\ UNCHANGED <<live, switches, tables, mon, proofs>>

Reorganise ==
  /\ switches < MaxSwitches /\ switches + issued < MaxChanges
  /\ live' = 3 - live
  /\ switches' = switches + 1
  /\ UNCHANGED <<branch, tables, mon, proofs>>
-----------------------------------------------------------------------------
(* The outbox.  via stands for the part of event_key that is not the kind: *)
(* a transition is keyed by its predecessor, a reorg by the head's hash.   *)

First == <<-1, 0>>
Of(q, g, kinds) == {i \in DOMAIN q : q[i].gen = g /\ q[i].kind \in kinds}
Newest(ids) == IF ids = {} THEN 0 ELSE CHOOSE i \in ids : \A j \in ids : j <= i
In(q, ids, st) == {i \in ids : q[i].st = st}
Notified(q, g, kind) == In(q, Of(q, g, {kind}), "sent") # {}

\* INSERT OR IGNORE under UNIQUE(event_key).
Queue(q, g, kind, via) ==
  IF \E i \in Of(q, g, {kind}) : q[i].via = via THEN q
  ELSE Append(q, [gen |-> g, kind |-> kind, via |-> via, st |-> "pending",
                  doing |-> "none", mailed |-> FALSE])

QueueTransition(q, g, kind) == Queue(q, g, kind, <<Newest(Of(q, g, AboutOp)), 0>>)

Rearmed(q, ids) ==
  [i \in DOMAIN q |-> IF i \in ids /\ q[i].st = "superseded"
                      THEN [q[i] EXCEPT !.st = "pending"] ELSE q[i]]

\* Mutant of QueueUnsent: what delivery superseded is not re-armed.
QueueUnsentOnce(q, g, kind) ==
  IF Notified(q, g, kind) \/ In(q, Of(q, g, {kind}), "pending") # {} THEN q
  ELSE Queue(q, g, kind, First)

\* queueUnsentActiveNotice
QueueUnsent(q, g, kind) ==
  IF Notified(q, g, kind) \/ In(q, Of(q, g, {kind}), "pending") # {} THEN q
  ELSE LET r == Queue(q, g, kind, First)
       IN Rearmed(r, {i \in Of(r, g, {kind}) : r[i].via = First})

\* The newest notice of a terminal state, if it was superseded unsent and
\* nothing about the operation was sent after it.
Unnotified(q, g, state) ==
  LET n == Newest(Of(q, g, {state}))
  IN IF /\ state \in Ended /\ n > 0 /\ q[n].st = "superseded"
        /\ n > Newest(In(q, Of(q, g, AboutOp), "sent"))
     THEN {n} ELSE {}

Superseded(q) ==
  [i \in DOMAIN q |-> IF q[i].st = "pending"
                      THEN [q[i] EXCEPT !.st = "superseded"] ELSE q[i]]
-----------------------------------------------------------------------------
(* recordSnapshot: which rows a snapshot is recorded for, the row it       *)
(* leaves, and the notices it queues.                                      *)

Recorded(v, o, extra) ==
  IsCurrent(v) \/ (o # NoOp /\ (o.state \in Active \/ extra))

RowFor(v, o) ==
  [state |-> StateFor(v, o),
   exec |-> IF IsCurrent(v) THEN v.at + Delay ELSE o.exec,
   exp |-> IF IsCurrent(v) THEN v.at + Delay + Expiration ELSE o.exp]

ReminderAt(row) == row.exec - (Delay \div 2)

Noticed(v, o, q, g) ==
  LET n == RowFor(v, o)
      s == n.state
      known == o # NoOp
      Then(c, new, old) == IF c THEN new ELSE old
      q1 == Then(known /\ o.state \in Active /\ s \in Active,
                 QueueUnsent(q, g, "scheduled"), q)
      q2 == Then(known /\ o.state = s /\ s \in Ended,
                 Rearmed(q1, Unnotified(q1, g, s)), q1)
      q3 == Then(known /\ s \in Active /\ o.exec # n.exec,
                 QueueTransition(q2, g, "timing_changed"), q2)
      q4 == Then(~known /\ s # "orphaned",
                 Queue(q3, g, IF s \in Active THEN "scheduled" ELSE s, First), q3)
      q5 == Then(known /\ o.state \in Ended /\ s \in Active,
                 QueueTransition(q4, g, "scheduled"), q4)
      q6 == Then(known /\ o.state # s /\ s \in Ended,
                 QueueTransition(q5, g, s), q5)
  IN Then(s = "pending" /\ v.time >= ReminderAt(n) /\ Notified(q6, g, "scheduled"),
          QueueUnsent(q6, g, "reminder"), q6)

\* Mutant of Fresh: only that some enrolment is enabled.
FreshEnabled(m) == sub.en

\* The guard of every write of the tick m.
Fresh(m) == sub.en /\ sub.gen = m.gen

Terminal(m, extra) ==
  LET v == ViewAt(m.head)
  IN Recorded(v, op, extra) /\ StateFor(v, op) \in Ended

\* observedTerminal with a head past the cursor asks for a reconciliation.
Provisional(m, extra) == Terminal(m, extra) /\ m.head[1] > m.cursor

\* The transaction of persistObservation.
Persist(m, extra, marked) ==
  IF Fresh(m)
  THEN LET v == ViewAt(m.head)
           q == IF m.reorg THEN Queue(outbox, sub.gen, "reorg", m.head) ELSE outbox
       IN /\ sub' = [sub EXCEPT !.rec = @ \/ marked \/ Provisional(m, extra)]
          /\ IF Recorded(v, op, extra)
             THEN op' = RowFor(v, op) /\ outbox' = Noticed(v, op, q, sub.gen)
             ELSE op' = op /\ outbox' = q
  ELSE UNCHANGED tables
-----------------------------------------------------------------------------
(* The tick: one update of the subscription, then one delivery pass.       *)

TickStart ==
  /\ mon.pc = "idle"
  /\ mon' = IF sub.en
            THEN [Idle EXCEPT !.pc = "head", !.gen = sub.gen, !.cursor = sub.cursor,
                              !.hash = sub.hash, !.anchor = sub.anchor,
                              !.needs = sub.rec]
            ELSE Delivering
  /\ UNCHANGED <<chainVars, tables, proofs>>

\* An RPC fails or reports another block than expected: degraded().
TickFails ==
  /\ mon.pc \in Awaiting
  /\ sub' = IF Fresh(mon) THEN [sub EXCEPT !.status = "degraded"] ELSE sub
  /\ mon' = Delivering
  /\ UNCHANGED <<chainVars, op, outbox, proofs>>

HeadAnswered ==
  /\ mon.pc = "head"
  /\ mon' = [mon EXCEPT !.pc = "snapshot", !.head = Tip,
       !.retry = sub.en /\ Unnotified(outbox, sub.gen, op.state) # {}]
  /\ UNCHANGED <<chainVars, tables, proofs>>

SnapshotAnswered ==
  /\ mon.pc = "snapshot"
  /\ Canonical(mon.head)
  /\ Persist(mon, mon.retry, FALSE)
  /\ mon' = [mon EXCEPT !.pc = "check",
       !.needs = @ \/ (Fresh(mon) /\ Provisional(mon, mon.retry))]
  /\ UNCHANGED <<chainVars, proofs>>

\* Past the check of the cursor's block: read what to reconcile, then either
\* await a wider snapshot or, after a reorganisation, persist again at once.
AfterCheck(m, marked) ==
  LET rec == m.needs /\ op # NoOp
  IN /\ mon' = [m EXCEPT !.rec = rec, !.pc = IF rec THEN "reconcile" ELSE "logs"]
     /\ IF m.reorg /\ ~rec THEN Persist(m, m.retry, marked)
        ELSE /\ sub' = [sub EXCEPT !.rec = @ \/ marked]
             /\ UNCHANGED <<op, outbox>>

CursorHolds ==
  /\ mon.pc = "check"
  /\ mon.hash # None => mon.cursor <= mon.head[1] /\ Canonical(mon.hash)
  /\ AfterCheck(mon, FALSE)
  /\ UNCHANGED <<chainVars, proofs>>

\* markReconcileNeeded is where an update for an outdated enrolment stops.
CursorGone ==
  /\ mon.pc = "check" /\ mon.hash # None
  /\ \/ mon.cursor > mon.head[1]
     \/ mon.cursor <= Height /\ ~Canonical(mon.hash)
  /\ IF Fresh(mon)
     THEN AfterCheck([mon EXCEPT !.reorg = TRUE, !.needs = TRUE,
            !.cursor = Lower(mon.anchor - 1, mon.head[1] - 1)], TRUE)
     ELSE mon' = Delivering /\ UNCHANGED tables
  /\ UNCHANGED <<chainVars, proofs>>

ReconcileAnswered ==
  /\ mon.pc = "reconcile"
  /\ Canonical(mon.head)
  /\ Persist(mon, TRUE, FALSE)
  /\ mon' = [mon EXCEPT !.pc = "logs"]
  /\ UNCHANGED <<chainVars, proofs>>

End(m) == Lower(m.head[1], m.cursor + Page)

\* The logs are those of whichever branch is live now.
LogsAnswered ==
  /\ mon.pc = "logs"
  /\ LET at == At(Tip, {"schedule"})
     IN mon' = [mon EXCEPT !.pc = "end",
          !.log = IF at \in (mon.cursor + 1)..End(mon) THEN at ELSE 0]
  /\ UNCHANGED <<chainVars, tables, proofs>>

EndAnswered ==
  /\ mon.pc = "end" /\ End(mon) <= Height
  /\ mon' = [mon EXCEPT !.pc = "assert", !.endHash = Hash(live, End(mon))]
  /\ UNCHANGED <<chainVars, tables, proofs>>

\* A RecoveryScheduled log rewrites the row with the event's own timing.
Logged(m, v, o) ==
  [state |-> StateFor(v, o), exec |-> m.log + Delay, exp |-> o.exp]

Covers(m) == End(m) = m.head[1]

\* assertBlock(head) holds: the final transaction of update().
CommitUpdate ==
  LET m == mon
      v == ViewAt(m.head)
      extra == m.retry \/ m.rec
      o1 == IF Recorded(v, op, extra) THEN RowFor(v, op) ELSE op
      q1 == IF Recorded(v, op, extra) THEN Noticed(v, op, outbox, sub.gen) ELSE outbox
      logs == m.log > 0 /\ v.at > 0
      s == StateFor(v, o1)
  IN /\ m.pc = "assert" /\ Canonical(m.head)
     /\ IF Fresh(m)
        THEN /\ op' = IF logs THEN Logged(m, v, o1) ELSE o1
             /\ outbox' = IF logs /\ o1 = NoOp
                          THEN Queue(q1, sub.gen, IF s \in Active THEN "scheduled" ELSE s, First)
                          ELSE q1
             /\ sub' = [sub EXCEPT
                  !.status = IF Covers(m) THEN "active" ELSE "catching_up",
                  !.cursor = End(m), !.hash = m.endHash,
                  !.rec = ~Covers(m) /\ (@ \/ (logs /\ s \in Ended))]
        ELSE UNCHANGED tables
     /\ mon' = Delivering
     /\ UNCHANGED <<chainVars, proofs>>

TickEnds ==
  /\ mon.pc = "deliver"
  /\ \A i \in DOMAIN outbox : outbox[i].doing = "none"
  /\ mon' = Idle
  /\ UNCHANGED <<chainVars, tables, proofs>>
-----------------------------------------------------------------------------
(* deliverOne.  Which pending notices are due is left open: next_attempt_at *)
(* and attempts only say when, so defer and retry leave a notice pending.  *)

\* Mutant of Addressed: the end of an enrolment is not looked at.
AddressedByGeneration(n) == n.gen = sub.gen

Addressed(n) == n.gen = sub.gen /\ sub.en = (n.kind # "disabled")

Set(i, n) == outbox' = [outbox EXCEPT ![i] = n]
Supersede(n) == [n EXCEPT !.doing = "none",
                          !.st = IF @ = "pending" THEN "superseded" ELSE @]
\* mailed is remembered for the notices that a property asks about.
Mailing(n) == [n EXCEPT !.doing = "mail", !.mailed = n.kind \notin {"enabled", "reorg"}]
Later(n) == [n EXCEPT !.doing = "none"]

DeliverStart(i) ==
  LET n == outbox[i]
  IN /\ mon.pc = "deliver" /\ n.st = "pending" /\ n.doing = "none"
     /\ Cardinality({j \in DOMAIN outbox : outbox[j].doing # "none"}) < Parallel
     /\ Set(i, CASE ~Addressed(n) -> Supersede(n)
                 [] Addressed(n) /\ n.kind \in {"reorg", "disabled"} -> Mailing(n)
                 [] Addressed(n) /\ n.kind = "enabled" /\ sub.status # "active" -> Later(n)
                 [] OTHER -> [n EXCEPT !.doing = "check"])
     /\ UNCHANGED <<chainVars, sub, op, mon, proofs>>

\* What the chain has to say for a notice to be true now.
ValidNow(kind, state) ==
  IF kind \in {"scheduled", "timing_changed"} THEN state \in Active
  ELSE IF kind = "reminder" THEN state = "pending"
  ELSE kind = state

DeliverChecked(i) ==
  LET n == outbox[i]
      v == ViewAt(Tip)
      s == StateFor(v, op)
  IN /\ n.doing = "check"
     /\ Set(i, CASE n.kind \in AboutOp /\ ~ValidNow(n.kind, s) -> Supersede(n)
                 [] /\ n.kind = "reminder" /\ s = "pending"
                    /\ v.time < ReminderAt(RowFor(v, op)) -> Later(n)
                 [] ~Addressed(n) -> Supersede(n)
                 [] OTHER -> Mailing(n))
     /\ UNCHANGED <<chainVars, sub, op, mon, proofs>>

\* The check or the mailer fails, or the mailer's answer is lost.
DeliverFails(i) ==
  /\ outbox[i].doing # "none"
  /\ Set(i, Later(outbox[i]))
  /\ UNCHANGED <<chainVars, sub, op, mon, proofs>>

Delivered(i) ==
  LET n == outbox[i]
  IN /\ n.doing = "mail"
     /\ Set(i, [n EXCEPT !.doing = "none", !.st = IF @ = "pending" THEN "sent" ELSE @])
     /\ UNCHANGED <<chainVars, sub, op, mon, proofs>>
-----------------------------------------------------------------------------
(* The routes.                                                             *)

OpenChallenges == (1..issued) \ spent

IssueChallenge ==
  /\ issued < MaxChallenges /\ switches + issued < MaxChanges
  /\ Installed(ViewAt(Tip))
  /\ Cardinality(OpenChallenges) < OpenLimit
  /\ issued' = issued + 1
  /\ UNCHANGED <<chainVars, tables, mon, call, spent>>

\* Time runs out: consume and the count of open challenges ignore it from now on.
ChallengeExpires ==
  /\ \E n \in OpenChallenges : spent' = spent \cup {n}
  /\ UNCHANGED <<chainVars, tables, mon, call, issued>>

\* The challenge is looked up and a snapshot awaited; consume will look at the
\* challenge again, so that it was open before the await says nothing more.
SubscribeStart(c, n) ==
  /\ call[c] = NoCall
  /\ n \in OpenChallenges
  /\ Installed(ViewAt(Tip))
  /\ call' = [call EXCEPT ![c] = [ch |-> n, head |-> Tip]]
  /\ UNCHANGED <<chainVars, tables, mon, issued, spent>>

\* Not installed, RPC failure, a bad signature, an ended session.
SubscribeFails(c) ==
  /\ call[c] # NoCall
  /\ call' = [call EXCEPT ![c] = NoCall]
  /\ UNCHANGED <<chainVars, tables, mon, issued, spent>>

\* consume: UPDATE ... WHERE consumed_at IS NULL AND expires_at > now
Consumable(n) == n \notin spent

\* Mutant of Enrolled: the cursor starts a block too early.
EnrolledEarly(h) ==
  [en |-> TRUE, gen |-> sub.gen + 1, cursor |-> h[1] - 2, hash |-> None,
   anchor |-> h[1], status |-> "catching_up", rec |-> FALSE]

\* The row subscribe() leaves: a new one or the old one re-enabled.
Enrolled(h) ==
  [en |-> TRUE, gen |-> sub.gen + 1, cursor |-> h[1] - 1, hash |-> None,
   anchor |-> h[1], status |-> "catching_up",
   rec |-> StateFor(ViewAt(h), NoOp) \in Ended /\ IsCurrent(ViewAt(h))]

SubscribeDone(c) ==
  LET h == call[c].head
      v == ViewAt(h)
      g == sub.gen + 1
      q == Queue(Superseded(outbox), g, "enabled", First)
  IN /\ call[c] # NoCall /\ Canonical(h)
     /\ call' = [call EXCEPT ![c] = NoCall]
     /\ IF Consumable(call[c].ch) /\ ~sub.en
        THEN /\ spent' = spent \cup {call[c].ch}
             /\ sub' = Enrolled(h)
             /\ op' = IF IsCurrent(v) THEN RowFor(v, NoOp) ELSE NoOp
             /\ outbox' = IF IsCurrent(v) THEN Noticed(v, NoOp, q, g) ELSE q
        ELSE UNCHANGED <<tables, spent>>
     /\ UNCHANGED <<chainVars, mon, issued>>

Disable ==
  /\ sub.en
  /\ sub' = [sub EXCEPT !.en = FALSE, !.status = "disabled"]
  /\ outbox' = Queue(Superseded(outbox), sub.gen, "disabled", First)
  /\ UNCHANGED <<chainVars, op, mon, proofs>>

\* The process stops and starts again: only the tables survive.
Restart ==
  /\ mon' = Idle
  /\ call' = [c \in Calls |-> NoCall]
  /\ outbox' = [i \in DOMAIN outbox |-> Later(outbox[i])]
  /\ UNCHANGED <<chainVars, sub, op, issued, spent>>
-----------------------------------------------------------------------------
Init ==
  /\ \E e \in {"none"} \cup (Events \cap {"schedule"}) : branch = [b \in {1, 2} |-> <<e>>]
  /\ live = 1 /\ switches = 0
  /\ sub = NoSub /\ op = NoOp /\ outbox = <<>>
  /\ mon = Idle
  /\ call = [c \in Calls |-> NoCall]
  /\ issued = 0 /\ spent = {}

Environment ==
  \/ \E e \in Events \cup {"none"} : Mine(e)
  \/ Reorganise

Update ==
  \/ TickStart \/ TickFails \/ HeadAnswered \/ SnapshotAnswered
  \/ CursorHolds \/ CursorGone \/ ReconcileAnswered
  \/ LogsAnswered \/ EndAnswered \/ CommitUpdate \/ TickEnds

Deliver ==
  \E i \in DOMAIN outbox :
    DeliverStart(i) \/ DeliverChecked(i) \/ DeliverFails(i) \/ Delivered(i)

Routes ==
  \/ IssueChallenge \/ ChallengeExpires \/ Disable
  \/ \E c \in Calls :
       \/ \E n \in 1..issued : SubscribeStart(c, n)
       \/ SubscribeFails(c) \/ SubscribeDone(c)

Next == Environment \/ Update \/ Deliver \/ Routes \/ Restart
Spec == Init /\ [][Next]_vars
-----------------------------------------------------------------------------
Blocks == {<<n, b>> : n \in 1..MaxHeight, b \in 0..2} \cup {None}

TypeOK ==
  /\ branch \in [{1, 2} -> Seq({"none", "schedule", "canceled", "executed", "removed"})]
  /\ live \in {1, 2} /\ switches \in 0..MaxSwitches
  /\ sub \in [en : BOOLEAN, gen : 0..MaxChallenges, cursor : 0..MaxHeight, hash : Blocks,
              anchor : 0..MaxHeight, rec : BOOLEAN,
              status : {"active", "catching_up", "degraded", "disabled"}]
  /\ op \in [state : Active \cup Ended \cup {"none"}, exec : Nat, exp : Nat]
  /\ outbox \in Seq([gen : 1..MaxChallenges, kind : Kinds, via : Int \X Nat,
                    st : {"pending", "sent", "superseded"},
                    doing : {"none", "check", "mail"}, mailed : BOOLEAN])
  /\ mon.pc \in Awaiting \cup {"idle", "deliver"}
  /\ mon.gen \in 0..MaxChallenges /\ mon.cursor \in 0..MaxHeight
  /\ call \in [Calls -> [ch : 0..MaxChallenges, head : Blocks]]
  /\ issued \in 0..MaxChallenges /\ spent \subseteq 1..issued

\* The mails of an enrolment about the operation that stand: handed over and
\* marked, or still to come.
Standing(q, g) ==
  {i \in Of(q, g, AboutOp) : q[i].st = "pending" \/ (q[i].st = "sent" /\ q[i].mailed)}

\* The enrolment the update works for is the one in the table.
SameEnrolment == sub.en /\ sub.gen = mon.gen

Commits == mon.pc = "assert" /\ SameEnrolment /\ mon'.pc = "deliver" /\ sub'.status # "degraded"

\* A recovery that is under way is announced: after every update that ends
\* well, a notice of this enrolment that it was initiated stands
\* (recoveryMonitor.js:81-85).  Delivery, forks and crashes may have come
\* between.
AlertNotLost ==
  [][Commits /\ op'.state \in Active
     => \E i \in Standing(outbox', sub'.gen) : outbox'[i].kind \in Initiations]_vars

\* A user who was told that the operation is under way is told how it ended:
\* the newest standing notice names the recorded end (recoveryMonitor.js:249).
OutcomeNotLost ==
  [][Commits /\ op'.state \in Ended
       /\ (\E i \in Of(outbox', sub'.gen, Initiations) : outbox'[i].st = "sent")
     => outbox'[Newest(Standing(outbox', sub'.gen))].kind = op'.state]_vars

\* After a committed update, a user whose newest mail says that the operation
\* has ended, although it is under way, is still going to be told
\* (recoveryMonitor.js:81-85).
MailedAboutOp(q, g) == {i \in Of(q, g, AboutOp) : q[i].mailed}
LastWordAgrees ==
  [][Commits /\ op'.state \in Active
       /\ Newest(MailedAboutOp(outbox', sub'.gen)) \in Of(outbox', sub'.gen, Ended)
     => In(outbox', Of(outbox', sub'.gen, Initiations), "pending") # {}]_vars

\* An ended operation is not looked at again, so its end must be right: an
\* update that reaches the head and owes no reconciliation leaves no end on
\* record that is not the operation's at that head (recoveryMonitor.js:186-187).
EndConfirmed ==
  [][Commits /\ ~sub'.rec /\ op'.state \in Ended
     => LET s == StateFor(ViewAt(mon.head), op)
        IN s = op'.state \/ {s, op'.state} = {"expired", "invalidated"}]_vars

\* Once the mail that confirms the end of an enrolment was handed over, no
\* alert of that enrolment follows, although several notices are validated at a
\* time and the user may disable during any await (recoveryMonitor.js:365-374).
FarewellIsLast ==
  [][\A i \in DOMAIN outbox :
       outbox[i].doing # "mail" /\ outbox'[i].doing = "mail"
       => \A j \in Of(outbox, outbox[i].gen, {"disabled"}) : j = i \/ ~outbox[j].mailed]_vars

\* An update that awaited an RPC while its enrolment was ended or replaced
\* leaves the tables as they are.
StaleUpdateWritesNothing ==
  [][mon.pc \in Awaiting /\ ~SameEnrolment /\ mon' # mon /\ mon'.pc # "idle"
     => UNCHANGED tables]_vars
-----------------------------------------------------------------------------
(* The inductive strengthening of the properties above.                    *)

Block == {<<n, b>> : n \in 1..MaxHeight, b \in 0..2}
Subs == [en : BOOLEAN, gen : 0..MaxChallenges, cursor : 0..MaxHeight, hash : Blocks,
         anchor : 0..MaxHeight, rec : BOOLEAN,
         status : {"active", "catching_up", "degraded", "disabled"}]
Ops == [state : Active \cup Ended \cup {"none"}, exec : Nat, exp : Nat]
Notices == [gen : 1..MaxChallenges, kind : Kinds, via : Int \X Nat,
            st : {"pending", "sent", "superseded"},
            doing : {"none", "check", "mail"}, mailed : BOOLEAN]
Ticks == [pc : Awaiting \cup {"idle", "deliver"}, gen : 0..MaxChallenges,
          cursor : 0..MaxHeight, hash : Blocks, anchor : 0..MaxHeight, needs : BOOLEAN,
          reorg : BOOLEAN, retry : BOOLEAN, rec : BOOLEAN, head : Blocks, log : Nat,
          endHash : Blocks]

ChainOK ==
  /\ branch \in [{1, 2} -> Seq({"none", "schedule", "canceled", "executed", "removed"})]
  /\ \A b \in {1, 2} : Len(branch[b]) \in 1..MaxHeight
  /\ live \in {1, 2} /\ switches \in 0..MaxSwitches

\* Every enrolment has used up a challenge.
EnrolledOK ==
  /\ sub \in Subs /\ op \in Ops /\ (op = NoOp \/ op.state \in Active \cup Ended)
  /\ sub.en => sub.gen >= 1 /\ sub.anchor >= 1
  /\ issued \in 0..MaxChallenges /\ spent \subseteq 1..issued
  /\ sub.gen <= Cardinality(spent)
  /\ call \in [Calls -> [ch : 0..MaxChallenges, head : Blocks]]
  /\ \A c \in Calls : call[c] # NoCall => call[c].ch \in 1..issued /\ call[c].head \in Block

TickOK ==
  /\ mon \in Ticks
  /\ mon.pc \in Awaiting => mon.anchor >= 1
  /\ mon.pc \in Awaiting \ {"head"} => mon.head \in Block

\* A notice about the operation follows the one it is keyed by, and is marked as
\* sent only after it was handed over.
NoticesOK ==
  /\ outbox \in Seq(Notices)
  /\ \A i \in DOMAIN outbox :
       /\ outbox[i].gen <= sub.gen
       /\ outbox[i].kind \in AboutOp =>
            /\ outbox[i].via[1] < i
            /\ outbox[i].st = "sent" \/ outbox[i].doing = "mail" => outbox[i].mailed

\* An enrolment ends once, and is over then.
FarewellOK ==
  /\ sub.en => Of(outbox, sub.gen, {"disabled"}) = {}
  /\ \A g \in 1..MaxChallenges : \A i, j \in Of(outbox, g, {"disabled"}) : i = j

\* What is not on record was never announced.
AnnouncedOK == op = NoOp => Of(outbox, sub.gen, AboutOp) = {}

RecoveryInv == ChainOK /\ EnrolledOK /\ TickOK /\ NoticesOK /\ FarewellOK /\ AnnouncedOK
=============================================================================
