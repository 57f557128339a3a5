--------------------------- MODULE SentryOperations ---------------------------
(***************************************************************************)
(* One sentry-node operation of one user: its row of sentry_operations and *)
(* the handlers submit, retry and reconcile of lib/sentryManagement.js,    *)
(* which journal at most one signed transaction, hand it to Syscoin Core   *)
(* through lib/sentryAdapter.js and read its fate back.                    *)
(*                                                                         *)
(* Grain of atomicity.  A step is what a handler runs between two awaits,  *)
(* except that readback's getrawtransaction and its context are two steps. *)
(* A signed transaction is its txid; two signed transactions of one        *)
(* operation spend the same inputs, so Core holds at most one of them.     *)
(***************************************************************************)
EXTENDS Integers

CONSTANTS
  Signed,     \* transactions the user can sign for the prepared request
  Calls,      \* HTTP requests in flight
  None,       \* SQL NULL
  Expiry,     \* 15 minutes: a prepared request may be submitted
  RetryWait,  \* 30 seconds without a change of the row before a retry
  MaxTime     \* bound: the clock stops here

ASSUME SentryAssumption ==
  /\ Expiry \in Nat
  /\ RetryWait \in Nat \ {0}
  /\ MaxTime \in Nat
  /\ None \notin Signed

VARIABLES
  op,          \* the row of sentry_operations
  call,        \* per request, where its handler stands and what it read
  chain,       \* Core: where each transaction is
  superseded,  \* Core: another transaction changed the node's state since
  hist,        \* history: bytes sent, when last, and what Core ever held
  now          \* the clock

coreVars == <<chain, superseded>>
vars == <<op, call, chain, superseded, hist, now>>

-----------------------------------------------------------------------------
Times  == 0..MaxTime
\* What claimRetry's UPDATE accepts: every status of a submitted operation.
Journaled == {"submitting", "submitted", "submission_unknown", "confirmed",
              "state_changed"}
Status == {"none", "prepared", "gone"} \cup Journaled

Op == [status: Status, tx: Signed \cup {None}, created: Times, updated: Times]
NoOp == [status |-> "none", tx |-> None, created |-> 0, updated |-> 0]
Exists == op.status \notin {"none", "gone"}

\* Where a handler waits: the check of a PSBT or of stored bytes, readback's
\* two reads, Core's answer to them, sendrawtransaction, and its answer.
CallPC == {"idle", "validate", "readback", "context", "observed", "stored",
           "broadcast", "accepted", "refused"}
Observation == {"none", "absent", "known", "matches", "differs"}
\* What a handler keeps of the row it read.
Read == [status: Status, updated: Times]
NoRead == [status |-> "none", updated |-> 0]

Call == [pc: CallPC, retry: BOOLEAN, tx: Signed \cup {None}, row: Read,
         saw: Observation]
Idle == [pc |-> "idle", retry |-> FALSE, tx |-> None, row |-> NoRead,
         saw |-> "none"]

History == [sent: SUBSET Signed, last: Times, seen: SUBSET Signed,
            mined: SUBSET Signed]

Init ==
  /\ op = NoOp
  /\ call = [c \in Calls |-> Idle]
  /\ chain = [s \in Signed |-> "absent"]
  /\ superseded = FALSE
  /\ hist = [sent |-> {}, last |-> 0, seen |-> {}, mined |-> {}]
  /\ now = 0

-----------------------------------------------------------------------------
(* The repository.                                                         *)

\* status(): UPDATE ... WHERE id = ? AND user_id = ?, whatever the row says.
SetStatus(s) == op' = IF Exists THEN [op EXCEPT !.status = s, !.updated = now]
                                ELSE op

\* The row is gone, or another submit claimed it.
ClaimUnguarded == Exists   \* variant: the UPDATE does not look at the status
Claimable == op.status = "prepared"

\* claimRetry's WHERE: the row that was read was not touched since.
RetryUnguarded(row) == op.status \in Journaled   \* variant: updated_at ignored
Reclaimable(row) == op.updated = row.updated /\ op.status \in Journaled

\* POST /operations, after the adapter prepared and reviewed the request.
Prepare ==
  /\ op.status = "none"
  /\ op' = [NoOp EXCEPT !.status = "prepared", !.created = now, !.updated = now]
  /\ UNCHANGED <<call, coreVars, hist, now>>

\* Deleting the account takes the operation along (ON DELETE CASCADE).
DeleteAccount ==
  /\ Exists
  /\ op' = [NoOp EXCEPT !.status = "gone"]
  /\ UNCHANGED <<call, coreVars, hist, now>>

-----------------------------------------------------------------------------
(* Handlers.                                                               *)

Done(c)      == call' = [call EXCEPT ![c] = Idle]
Goto(c, pc)  == call' = [call EXCEPT ![c].pc = pc]

\* sendrawtransaction is called with these bytes.
Send(c, s) ==
  /\ call' = [call EXCEPT ![c] = [Idle EXCEPT !.pc = "broadcast", !.tx = s]]
  /\ hist' = [hist EXCEPT !.sent = @ \cup {s}, !.last = now]

\* submit: the row is read, validateSigned is awaited.
SubmitStart(c, s) ==
  /\ call[c].pc = "idle"
  /\ op.status = "prepared"
  /\ now - op.created <= Expiry
  /\ call' = [call EXCEPT ![c] = [Idle EXCEPT !.pc = "validate", !.tx = s]]
  /\ UNCHANGED <<op, coreVars, hist, now>>

\* The transaction checks out: claim the row with it and broadcast.
SubmitClaim(c) ==
  /\ call[c].pc = "validate"
  /\ Claimable
  /\ op' = [op EXCEPT !.status = "submitting", !.tx = call[c].tx, !.updated = now]
  /\ Send(c, call[c].tx)
  /\ UNCHANGED <<coreVars, now>>

\* validateSigned or validateStored throws, or the claim finds the row taken.
CheckFailed(c) ==
  /\ call[c].pc \in {"validate", "stored"}
  /\ Done(c)
  /\ UNCHANGED <<op, coreVars, hist, now>>

\* sendrawtransaction returned the txid that was claimed.
BroadcastDone(c) ==
  /\ call[c].pc = "accepted"
  /\ SetStatus("submitted")
  /\ Done(c)
  /\ UNCHANGED <<coreVars, hist, now>>

\* It failed, or its answer was lost: Core may hold the transaction, or may
\* still receive it.
\* Variant: an error is taken for "already known".
BroadcastAssumed(c) ==
  /\ call[c].pc \in {"broadcast", "accepted", "refused"}
  /\ SetStatus("submitted")
  /\ Done(c)
  /\ UNCHANGED <<coreVars, hist, now>>

BroadcastFailed(c) ==
  /\ call[c].pc \in {"broadcast", "accepted", "refused"}
  /\ SetStatus("submission_unknown")
  /\ Done(c)
  /\ UNCHANGED <<coreVars, hist, now>>

\* retry and reconcile: the row is read, readback is awaited.
ReadbackStart(c, retry) ==
  /\ call[c].pc = "idle"
  /\ op.tx # None
  /\ call' = [call EXCEPT ![c] =
       [pc |-> "readback", retry |-> retry, tx |-> op.tx, saw |-> "none",
        row |-> [status |-> op.status, updated |-> op.updated]]]
  /\ UNCHANGED <<op, coreVars, hist, now>>

Saw(c, what) == call' = [call EXCEPT ![c].pc = "observed", ![c].saw = what]

\* getrawtransaction.
ReadTx(c) ==
  LET where == chain[call[c].tx] IN
  /\ call[c].pc = "readback"
  /\ \/ where = "absent"  /\ Saw(c, "absent")
     \/ where = "mempool" /\ Saw(c, "known")
     \/ where = "mined"   /\ Goto(c, "context")
  /\ UNCHANGED <<op, coreVars, hist, now>>

\* context: does the node's current state show what the operation intended?
ReadNode(c) ==
  LET matches == chain[call[c].tx] = "mined" /\ ~superseded IN
  /\ call[c].pc = "context"
  /\ Saw(c, IF matches THEN "matches" ELSE "differs")
  /\ UNCHANGED <<op, coreVars, hist, now>>

\* A read fails: the journal is left as it is.
ReadbackFailed(c) ==
  /\ call[c].pc \in {"readback", "context", "observed"}
  /\ Done(c)
  /\ UNCHANGED <<op, coreVars, hist, now>>

\* The status for a confirmed transaction.  A row that was read as confirmed
\* stays confirmed although a later update changed the node.
MinedStatus(c) ==
  IF call[c].saw = "matches" \/ call[c].row.status = "confirmed"
    THEN "confirmed" ELSE "state_changed"

SawMined(c) == call[c].saw \in {"matches", "differs"}

\* retry: the transaction is where it belongs, so nothing is sent.
RetryKnown(c) ==
  /\ call[c].pc = "observed" /\ call[c].retry
  /\ call[c].saw # "absent"
  /\ SetStatus(IF SawMined(c) THEN MinedStatus(c) ELSE "submitted")
  /\ Done(c)
  /\ UNCHANGED <<coreVars, hist, now>>

\* Core does not know it: check the stored bytes.  (Too soon: 429, the call
\* ends as ReadbackFailed does.)
RetryAbsent(c) ==
  /\ call[c].pc = "observed" /\ call[c].retry
  /\ call[c].saw = "absent"
  /\ now - call[c].row.updated >= RetryWait
  /\ Goto(c, "stored")
  /\ UNCHANGED <<op, coreVars, hist, now>>

RetryClaim(c) ==
  /\ call[c].pc = "stored"
  /\ Reclaimable(call[c].row)
  /\ op' = [op EXCEPT !.status = "submitting", !.updated = now]
  /\ Send(c, call[c].tx)
  /\ UNCHANGED <<coreVars, now>>

\* reconcile, after readback.
ReconcileApply(c) ==
  /\ call[c].pc = "observed" /\ ~call[c].retry
  /\ \/ SawMined(c) /\ SetStatus(MinedStatus(c))
     \/ /\ ~SawMined(c)
        /\ call[c].row.status \in {"confirmed", "state_changed"}
        /\ SetStatus("submission_unknown")
     \/ /\ ~SawMined(c)
        /\ call[c].row.status \notin {"confirmed", "state_changed"}
        /\ UNCHANGED op
  /\ Done(c)
  /\ UNCHANGED <<coreVars, hist, now>>

\* The process is restarted: every handler is gone, the journal stays.
Restart ==
  /\ \E c \in Calls : call[c].pc # "idle"
  /\ call' = [c \in Calls |-> Idle]
  /\ UNCHANGED <<op, coreVars, hist, now>>

-----------------------------------------------------------------------------
(* Core and the chain.                                                     *)

\* The mempool takes s: no conflicting transaction is held.
Enter(s) ==
  /\ \A t \in Signed : chain[t] = "absent"
  /\ chain' = [chain EXCEPT ![s] = "mempool"]
  /\ hist' = [hist EXCEPT !.seen = @ \cup {s}]

\* Core accepts a broadcast, also of a transaction its mempool holds.
CoreAccepts(c) ==
  LET s == call[c].tx IN
  /\ call[c].pc = "broadcast"
  /\ Enter(s) \/ (chain[s] = "mempool" /\ UNCHANGED <<chain, hist>>)
  /\ Goto(c, "accepted")
  /\ UNCHANGED <<op, superseded, now>>

CoreRefuses(c) ==
  /\ call[c].pc = "broadcast"
  /\ Goto(c, "refused")
  /\ UNCHANGED <<op, coreVars, hist, now>>

\* A signed transaction reaches Core by a call the service gave up on, by
\* another node, or from the user's own wallet.
Arrives(s) ==
  /\ op.status # "none"
  /\ Enter(s)
  /\ UNCHANGED <<op, call, superseded, now>>

Mined(s) ==
  /\ chain[s] = "mempool"
  /\ chain' = [chain EXCEPT ![s] = "mined"]
  /\ hist' = [hist EXCEPT !.mined = @ \cup {s}]
  /\ UNCHANGED <<op, call, superseded, now>>

\* Evicted from the mempool, or reorganised out of the chain.
Dropped(s) ==
  /\ \/ chain[s] # "absent" /\ chain' = [chain EXCEPT ![s] = "absent"]
     \/ chain[s] = "mined"  /\ chain' = [chain EXCEPT ![s] = "mempool"]
  /\ superseded' = FALSE
  /\ UNCHANGED <<op, call, hist, now>>

\* A later update of the same node is confirmed.
Supersede ==
  /\ \E s \in Signed : chain[s] = "mined"
  /\ superseded' = TRUE
  /\ UNCHANGED <<op, call, chain, hist, now>>

ClockTick ==
  /\ now < MaxTime
  /\ now' = now + 1
  /\ UNCHANGED <<op, call, coreVars, hist>>

-----------------------------------------------------------------------------
CallStep(c) ==
  \/ \E s \in Signed : SubmitStart(c, s)
  \/ SubmitClaim(c)
  \/ CheckFailed(c)
  \/ BroadcastDone(c)
  \/ BroadcastFailed(c)
  \/ \E retry \in BOOLEAN : ReadbackStart(c, retry)
  \/ ReadTx(c)
  \/ ReadNode(c)
  \/ ReadbackFailed(c)
  \/ RetryKnown(c)
  \/ RetryAbsent(c)
  \/ RetryClaim(c)
  \/ ReconcileApply(c)
  \/ CoreAccepts(c)
  \/ CoreRefuses(c)

TxStep(s) == Arrives(s) \/ Mined(s) \/ Dropped(s)

Next ==
  \/ Prepare
  \/ DeleteAccount
  \/ \E c \in Calls : CallStep(c)
  \/ \E s \in Signed : TxStep(s)
  \/ Restart
  \/ Supersede
  \/ ClockTick

Spec == Init /\ [][Next]_vars

-----------------------------------------------------------------------------
(* Properties.                                                             *)

TypeOK ==
  /\ op \in Op
  /\ call \in [Calls -> Call]
  /\ chain \in [Signed -> {"absent", "mempool", "mined"}]
  /\ superseded \in BOOLEAN
  /\ hist \in History
  /\ now \in Times

\* The journal publishes once: whatever submits and retries race, and wherever
\* the process is restarted, the only bytes ever handed to Core for an
\* operation are those its row names.
OnePublication ==
  /\ \A s, t \in hist.sent : s = t
  /\ Exists => hist.sent = {op.tx} \ {None}

\* Two attempts to publish are RetryWait apart, although a retry looks at the
\* clock, and at the row, long before it sends.
AttemptsSpaced ==
  [][\A c \in Calls :
       call[c].pc = "stored" /\ call'[c].pc = "broadcast" =>
         now - hist.last >= RetryWait]_vars

\* The status shown to the user is backed by Core: submitted was in its mempool
\* once, confirmed and state_changed were mined once.  A lost answer, a refusal
\* or a stale observation never makes up either.
StatusWasObserved ==
  /\ op.status = "submitted" => op.tx \in hist.seen
  /\ op.status \in {"confirmed", "state_changed"} => op.tx \in hist.mined

-----------------------------------------------------------------------------
(* The inductive strengthening of the three.                               *)

\* Where a handler holds the transaction of the row.
Bound(c) == call[c].pc \notin {"idle", "validate"}

\* A row names its transaction from the claim on, and only then is it sent.
RowOK ==
  /\ op.status \in Journaled <=> op.tx # None
  /\ op.status # "gone" => hist.sent = {op.tx} \ {None}
  /\ \A s, t \in hist.sent : s = t

\* Handlers exist for a row that was created, and hold its transaction.
CallsOK ==
  \A c \in Calls :
    /\ op.status = "none" => call[c].pc = "idle"
    /\ call[c].pc # "idle" => call[c].tx \in Signed
    /\ Bound(c) /\ Exists => call[c].tx = op.tx

\* What a handler will report of its transaction was the case once.
ReportOK(c) ==
  /\ call[c].pc = "accepted" => call[c].tx \in hist.seen
  /\ call[c].pc = "context" => call[c].tx \in hist.mined
  /\ call[c].pc = "observed" =>
       /\ call[c].saw = "known" => call[c].tx \in hist.seen
       /\ SawMined(c) => call[c].tx \in hist.mined
       /\ call[c].saw # "none"

ReportsOK == \A c \in Calls : ReportOK(c)

\* The history keeps what Core holds.
ChainOK ==
  \A s \in Signed : /\ chain[s] # "absent" => s \in hist.seen
                    /\ chain[s] = "mined"  => s \in hist.mined

ObservedOK == ChainOK /\ ReportsOK

\* Nothing was sent after the row was last touched, and a retry that goes to
\* the stored bytes has waited since the change of the row that it read.
ClockOK ==
  /\ Exists => hist.last <= op.updated
  /\ op.status = "none" => hist.last = 0
  /\ op.updated <= now
  /\ \A c \in Calls :
       call[c].pc = "stored" => now - call[c].row.updated >= RetryWait

JournalInv == /\ TypeOK /\ RowOK /\ CallsOK /\ ObservedOK /\ ClockOK
              /\ OnePublication /\ StatusWasObserved

-----------------------------------------------------------------------------
(* A statement of the repository's comments that the code does not keep.   *)

\* Once the effect of a transaction was confirmed, a later update does not make
\* its historical success a failure.
ConfirmedNotFailed ==
  [][op.status = "confirmed" /\ chain[op.tx] = "mined" =>
       op'.status # "state_changed"]_vars
=============================================================================
