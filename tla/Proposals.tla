------------------------------ MODULE Proposals ------------------------------
(***************************************************************************)
(* The governance-proposal pipeline: the proposal_submissions table and    *)
(* its repository (lib/proposalSubmissions.js), the HTTP routes that       *)
(* create, pay for and delete submissions (routes/govProposals.js), the    *)
(* dispatcher that carries a paid submission to Syscoin Core               *)
(* (lib/proposalDispatcher.js, scheduled by server.js), and Core itself as *)
(* far as the dispatcher can observe it.                                   *)
(*                                                                         *)
(* Grain of atomicity.  One SQLite statement, or one db.transaction, is a  *)
(* step; an await is the boundary between two steps.  The repository's     *)
(* "read, then UPDATE ... WHERE status = ..." pairs are two steps, because *)
(* the compare-and-swap in the UPDATE exists for several processes that    *)
(* share one database file.                                                *)
(***************************************************************************)
EXTENDS Integers

CONSTANTS
  Users,      \* accounts
  Payloads,   \* canonical payloads: the data_hex of a proposal
  Txids,      \* collateral transaction ids a user may supply
  Workers,    \* processes that run the dispatcher loop
  Requests,   \* HTTP requests in flight
  None,       \* SQL NULL
  MaxRows,    \* bound: submission rows ever inserted (AUTOINCREMENT ids)
  MaxTime,    \* bound: the clock stops here
  MaxDrafts,  \* maxDraftsPerUser
  Timeout,    \* timeoutMs: wait for a collateral tx, in clock units
  Required    \* requiredConfs

ASSUME BoundsAssumption ==
  /\ MaxRows \in Nat \ {0}
  /\ MaxTime \in Nat
  /\ MaxDrafts \in Nat
  /\ Timeout \in Nat
  /\ Required \in Nat \ {0}

ASSUME NoneAssumption ==
  None \notin Txids \cup Users \cup Payloads \cup (Payloads \X (0..MaxTime))

VARIABLES
  rows,      \* the table proposal_submissions
  nextId,    \* next AUTOINCREMENT id
  drafts,    \* per user, how many rows of proposal_drafts
  accounts,  \* users whose account still exists
  req,       \* per request, where its handler stands
  pc,        \* per dispatcher, where its loop stands
  todo,      \* per dispatcher, rows of this tick not yet advanced
  cur,       \* per dispatcher, the row being advanced (as listed)
  why,       \* per dispatcher, the outcome about to be recorded
  mails,     \* per row, mails sent, by kind (history)
  core,      \* Core: the txid behind each live governance object
  chain,     \* Core: confirmations of each tx, Unknown if not seen
  now        \* the clock

tableVars  == <<rows, nextId, drafts, accounts>>
workerVars == <<pc, todo, cur, why>>
coreVars   == <<core, chain>>
vars == <<rows, nextId, drafts, accounts, req, pc, todo, cur, why, mails,
          core, chain, now>>

-----------------------------------------------------------------------------
(* Data.  proposal_hash is computeProposalHash of (parent, revision, time, *)
(* data_hex) with parent and revision fixed: it is determined by, and      *)
(* determines, the pair of payload and time.                               *)

Ids    == 1..MaxRows
Times  == 0..MaxTime
Hashes == Payloads \X Times
Confs  == 0..Required
Unknown == Required + 1   \* chain[t] when Core does not know t

Status == {"none", "prepared", "awaiting_collateral", "submitted", "failed"}
CoreReject == {"submit_rejected", "rate_limited"}
FailReason == CoreReject \cup {"collateral_not_found",
                               "duplicate_governance_hash"}

Row == [owner: Users \cup {None}, payload: Payloads \cup {None}, time: Times,
        status: Status, txid: Txids \cup {None}, confs: Confs,
        gov: Hashes \cup {None}, reason: FailReason \cup {"none"},
        updated: Times]

\* A slot of the table that holds no row.
NoRow == [owner |-> None, payload |-> None, time |-> 0, status |-> "none",
          txid |-> None, confs |-> 0, gov |-> None, reason |-> "none",
          updated |-> 0]

Hash(row) == <<row.payload, row.time>>

Terminal == {"submitted", "failed"}

Stored == {i \in Ids : rows[i].status # "none"}

\* findPreparedByDataHexForUser; the partial unique index makes it a singleton.
PreparedFor(u, p) ==
  {i \in Ids : /\ rows[i].status = "prepared"
               /\ rows[i].owner = u
               /\ rows[i].payload = p}

TxidTaken(t)    == \E i \in Ids : rows[i].txid = t
GovTaken(h, id) == \E i \in Ids \ {id} : rows[i].gov = h

\* What listByStatus hands the dispatcher: a row and its id.
Snapshot   == [id: Ids, row: Row]
NoSnapshot == [id |-> 0, row |-> NoRow]
Awaiting == {[id |-> i, row |-> rows[i]] :
               i \in {j \in Ids : rows[j].status = "awaiting_collateral"}}

\* ORDER BY updated_at ASC, id ASC
Before(s, t) == \/ s.row.updated < t.row.updated
                \/ s.row.updated = t.row.updated /\ s.id < t.id
IsNext(s, S) == s \in S /\ \A t \in S \ {s} : Before(s, t)

RequestOp == {"idle", "check", "envelope", "psbt", "signable", "attach"}
Request == [op: RequestOp, user: Users \cup {None}, payload: Payloads \cup {None},
            id: 0..MaxRows, time: Times, txid: Txids \cup {None}]
Idle == [op |-> "idle", user |-> None, payload |-> None, id |-> 0,
         time |-> 0, txid |-> None]

WorkerPC == {"idle", "scan", "lookup", "submit", "submitRead", "submitCas",
             "failRead", "failCas", "hook"}
-----------------------------------------------------------------------------
Init ==
  /\ rows = [i \in Ids |-> NoRow]
  /\ nextId = 1
  /\ drafts = [u \in Users |-> 0]
  /\ accounts = Users
  /\ req = [r \in Requests |-> Idle]
  /\ pc = [w \in Workers |-> "idle"]
  /\ todo = [w \in Workers |-> {}]
  /\ cur = [w \in Workers |-> NoSnapshot]
  /\ why = [w \in Workers |-> "none"]
  /\ mails = [i \in Ids |-> [submitted |-> 0, failed |-> 0]]
  /\ core = [h \in Hashes |-> None]
  /\ chain = [t \in Txids |-> Unknown]
  /\ now = 0
-----------------------------------------------------------------------------
(* Drafts: POST /drafts (count, cap, insert in one synchronous handler)    *)
(* and DELETE /drafts/:id.  Only the number of a user's drafts is kept.    *)

CreateDraft(u) ==
  /\ u \in accounts
  /\ drafts[u] < MaxDrafts
  /\ drafts' = [drafts EXCEPT ![u] = @ + 1]
  /\ UNCHANGED <<rows, nextId, accounts, req, workerVars, mails, coreVars, now>>

DeleteDraft(u) ==
  /\ drafts[u] > 0
  /\ drafts' = [drafts EXCEPT ![u] = @ - 1]
  /\ UNCHANGED <<rows, nextId, accounts, req, workerVars, mails, coreVars, now>>

-----------------------------------------------------------------------------
(* POST /prepare.  The handler reads the clock and the prepared row for    *)
(* the payload, awaits gobject_check, and then either replays the row it   *)
(* read or inserts a new one.  The reply, an envelope with the row and the *)
(* hash to commit to, stays in req until the slot is used again.           *)

Free(r) == req[r].op \in {"idle", "envelope", "signable"}

\* The envelope of row i, frozen at time t, is sent to the client.
SendEnvelope(r, i, t) ==
  req' = [req EXCEPT ![r] = [@ EXCEPT !.op = "envelope", !.id = i, !.time = t]]

\* The handler awaits gobject_check for row i (0: none) frozen at time t.
Asked(u, p, i, t) == [op |-> "check", user |-> u, payload |-> p, id |-> i,
                      time |-> t, txid |-> None]

\* Variant: the replay path hashes with the server clock, not the frozen time.
PrepareStartUnfrozen(r, u, p) ==
  /\ Free(r)
  /\ u \in accounts
  /\ \E i \in PreparedFor(u, p) \cup {0} :
       /\ i = 0 => PreparedFor(u, p) = {}
       /\ req' = [req EXCEPT ![r] = Asked(u, p, i, now)]
  /\ UNCHANGED <<tableVars, workerVars, mails, coreVars, now>>

PrepareStart(r, u, p) ==
  /\ Free(r)
  /\ u \in accounts
  /\ \/ /\ PreparedFor(u, p) = {}
        /\ req' = [req EXCEPT ![r] = Asked(u, p, 0, now)]
     \/ \E i \in PreparedFor(u, p) :
          req' = [req EXCEPT ![r] = Asked(u, p, i, rows[i].time)]
  /\ UNCHANGED <<tableVars, workerVars, mails, coreVars, now>>

\* gobject_check rejects the payload: 422, nothing is stored.
PrepareRejected(r) ==
  /\ req[r].op = "check"
  /\ req' = [req EXCEPT ![r] = Idle]
  /\ UNCHANGED <<tableVars, workerVars, mails, coreVars, now>>

\* 200 idempotent: the row read before the await is returned as it was read.
PrepareReplay(r) ==
  /\ req[r].op = "check"
  /\ req[r].id # 0
  /\ SendEnvelope(r, req[r].id, req[r].time)
  /\ UNCHANGED <<tableVars, workerVars, mails, coreVars, now>>

NewRow(q) == [NoRow EXCEPT !.owner = q.user, !.payload = q.payload,
                           !.time = q.time, !.status = "prepared",
                           !.updated = now]

\* idx_proposal_submissions_user_payload_prepared rejects the insert.
NoPreparedIndex(q) == FALSE   \* variant: the index is missing
PreparedClash(q) == PreparedFor(q.user, q.payload) # {}

\* 201: insert the row and, when a draft was named and still exists, delete
\* it in the same transaction.
PrepareInsert(r) ==
  /\ req[r].op = "check"
  /\ req[r].id = 0
  /\ req[r].user \in accounts
  /\ ~PreparedClash(req[r])
  /\ nextId \in Ids
  /\ rows' = [rows EXCEPT ![nextId] = NewRow(req[r])]
  /\ nextId' = nextId + 1
  /\ \/ drafts' = drafts
     \/ /\ drafts[req[r].user] > 0
        /\ drafts' = [drafts EXCEPT ![req[r].user] = @ - 1]
  /\ SendEnvelope(r, nextId, req[r].time)
  /\ UNCHANGED <<accounts, workerVars, mails, coreVars, now>>

\* The insert violates that index: the winner is returned instead.  (When the
\* account went away meanwhile the foreign key rejects the insert: the 500
\* ends the request as PrepareRejected does.)
PrepareConflict(r) ==
  /\ req[r].op = "check"
  /\ req[r].id = 0
  /\ \E i \in PreparedFor(req[r].user, req[r].payload) :
       SendEnvelope(r, i, rows[i].time)
  /\ UNCHANGED <<tableVars, workerVars, mails, coreVars, now>>

-----------------------------------------------------------------------------
(* POST /submissions/:id/collateral/psbt: read the row, await the PSBT     *)
(* builder, return the PSBT the user will sign and broadcast.              *)

\* A request about row i with its status checked; txid t for an attachment.
Carry(op, i, t) == [Idle EXCEPT !.op = op, !.id = i, !.user = rows[i].owner,
                                !.txid = t]

PsbtStart(r, i) ==
  /\ Free(r)
  /\ rows[i].status = "prepared"
  /\ req' = [req EXCEPT ![r] = Carry("psbt", i, None)]
  /\ UNCHANGED <<tableVars, workerVars, mails, coreVars, now>>

\* 200 with the PSBT: the row is not read again.
PsbtReply(r) ==
  /\ req[r].op = "psbt"
  /\ req' = [req EXCEPT ![r].op = "signable"]
  /\ UNCHANGED <<tableVars, workerVars, mails, coreVars, now>>

\* The builder fails (bad input, no funds, Blockbook unreachable).
PsbtFailed(r) ==
  /\ req[r].op = "psbt"
  /\ req' = [req EXCEPT ![r] = Idle]
  /\ UNCHANGED <<tableVars, workerVars, mails, coreVars, now>>

-----------------------------------------------------------------------------
(* POST /submissions/:id/attach-collateral: the status and txid pre-checks *)
(* of attachCollateral, then its compare-and-swap.                         *)

AttachRead(r, i, t) ==
  /\ Free(r)
  /\ rows[i].status = "prepared"
  /\ ~TxidTaken(t)
  /\ req' = [req EXCEPT ![r] = Carry("attach", i, t)]
  /\ UNCHANGED <<tableVars, workerVars, mails, coreVars, now>>

\* The unique index on collateral_txid rejects the update.
TxidClash(t) == TxidTaken(t)

AttachCas(r) ==
  LET i == req[r].id
      attached == [rows[i] EXCEPT !.status = "awaiting_collateral",
                                  !.txid = req[r].txid, !.updated = now]
  IN
  /\ req[r].op = "attach"
  /\ rows[i].status = "prepared"     \* WHERE id = ? AND status = 'prepared'
  /\ ~TxidClash(req[r].txid)
  /\ rows' = [rows EXCEPT ![i] = attached]
  /\ req' = [req EXCEPT ![r] = Idle]
  /\ UNCHANGED <<nextId, drafts, accounts, workerVars, mails, coreVars, now>>

\* No row matches the WHERE, or the index rejects the txid: 404 or 409.
AttachLost(r) ==
  /\ req[r].op = "attach"
  /\ \/ rows[req[r].id].status # "prepared"
     \/ TxidClash(req[r].txid)
  /\ req' = [req EXCEPT ![r] = Idle]
  /\ UNCHANGED <<tableVars, workerVars, mails, coreVars, now>>

-----------------------------------------------------------------------------
(* DELETE /submissions/:id, clone-to-draft and account deletion.           *)

\* remove: DELETE ... WHERE status IN ('prepared', 'failed')
\* Variant: the DELETE only spares submitted rows.
DeleteUnlessSubmitted(i) ==
  /\ rows[i].status \in Status \ {"none", "submitted"}
  /\ rows' = [rows EXCEPT ![i] = NoRow]
  /\ UNCHANGED <<nextId, drafts, accounts, req, workerVars, mails, coreVars,
                 now>>

DeleteSubmission(i) ==
  /\ rows[i].status \in {"prepared", "failed"}
  /\ rows' = [rows EXCEPT ![i] = NoRow]
  /\ UNCHANGED <<nextId, drafts, accounts, req, workerVars, mails, coreVars,
                 now>>

\* One transaction: a draft is created from the failed row and the row removed.
CloneToDraft(i) ==
  LET u == rows[i].owner IN
  /\ rows[i].status = "failed"
  /\ rows[i].reason # "rate_limited"
  /\ drafts[u] < MaxDrafts
  /\ drafts' = [drafts EXCEPT ![u] = @ + 1]
  /\ rows' = [rows EXCEPT ![i] = NoRow]
  /\ UNCHANGED <<nextId, accounts, req, workerVars, mails, coreVars, now>>

\* DELETE /auth/account: ON DELETE CASCADE takes drafts and submissions along.
DeleteAccount(u) ==
  /\ u \in accounts
  /\ accounts' = accounts \ {u}
  /\ drafts' = [drafts EXCEPT ![u] = 0]
  /\ rows' = [i \in Ids |-> IF rows[i].owner = u THEN NoRow ELSE rows[i]]
  /\ UNCHANGED <<nextId, req, workerVars, mails, coreVars, now>>

-----------------------------------------------------------------------------
(* The dispatcher.  tick() lists the awaiting rows once and advances them  *)
(* one at a time; server.js re-arms the loop only after tick() resolves.   *)

\* Worker w is done with its current row: advance() returned.
NextRow(w) ==
  /\ pc' = [pc EXCEPT ![w] = "scan"]
  /\ cur' = [cur EXCEPT ![w] = NoSnapshot]
  /\ why' = [why EXCEPT ![w] = "none"]

Goto(w, where, outcome) ==
  /\ pc' = [pc EXCEPT ![w] = where]
  /\ why' = [why EXCEPT ![w] = outcome]
  /\ cur' = cur

TickStart(w) ==
  /\ pc[w] = "idle"
  /\ pc' = [pc EXCEPT ![w] = "scan"]
  /\ todo' = [todo EXCEPT ![w] = Awaiting]
  /\ UNCHANGED <<tableVars, req, cur, why, mails, coreVars, now>>

TickEnd(w) ==
  /\ pc[w] = "scan"
  /\ todo[w] = {}
  /\ pc' = [pc EXCEPT ![w] = "idle"]
  /\ UNCHANGED <<tableVars, req, todo, cur, why, mails, coreVars, now>>

\* Next row of the tick: getRawTransaction is called.
Advance(w) ==
  /\ pc[w] = "scan"
  /\ \E s \in todo[w] :
       /\ IsNext(s, todo[w])
       /\ cur' = [cur EXCEPT ![w] = s]
       /\ todo' = [todo EXCEPT ![w] = @ \ {s}]
  /\ pc' = [pc EXCEPT ![w] = "lookup"]
  /\ UNCHANGED <<tableVars, req, why, mails, coreVars, now>>

\* Core does not know the tx: give up once the row has waited too long.
\* Variant: the wait is unbounded.
LookupUnknownWaits(w) ==
  /\ pc[w] = "lookup"
  /\ chain[cur[w].row.txid] = Unknown
  /\ NextRow(w)
  /\ UNCHANGED <<tableVars, req, todo, mails, coreVars, now>>

LookupUnknown(w) ==
  LET row == cur[w].row IN
  /\ pc[w] = "lookup"
  /\ chain[row.txid] = Unknown
  /\ IF now - row.updated > Timeout
       THEN Goto(w, "failRead", "collateral_not_found")
       ELSE NextRow(w)
  /\ UNCHANGED <<tableVars, req, todo, mails, coreVars, now>>

\* Any other error of getRawTransaction: retried by the next tick.
LookupError(w) ==
  /\ pc[w] = "lookup"
  /\ NextRow(w)
  /\ UNCHANGED <<tableVars, req, todo, mails, coreVars, now>>

\* The tx is known: record a changed confirmation count (updateConfirmations
\* has no status condition), then submit if there are enough of them.
LookupFound(w) ==
  LET s == cur[w]
      confs == chain[s.row.txid]
      counted == [rows[s.id] EXCEPT !.confs = confs, !.updated = now]
  IN
  /\ pc[w] = "lookup"
  /\ confs # Unknown
  /\ rows' = IF confs # s.row.confs /\ rows[s.id].status # "none"
               THEN [rows EXCEPT ![s.id] = counted]
               ELSE rows
  /\ IF confs < Required THEN NextRow(w) ELSE Goto(w, "submit", "none")
  /\ UNCHANGED <<nextId, drafts, accounts, req, todo, mails, coreVars, now>>

\* gobject_submit succeeds or reports "already exists"; either way the object
\* is live.  A known object is answered without a second acceptance.
\* Variant: "already exists" is logged and left for the next tick.
SubmitDuplicateIgnored(w) ==
  LET h == Hash(cur[w].row) IN
  /\ pc[w] = "submit"
  /\ \/ /\ core[h] # None
        /\ core' = core
        /\ NextRow(w)
     \/ /\ core[h] = None
        /\ \A g \in Hashes : core[g] # cur[w].row.txid
        /\ core' = [core EXCEPT ![h] = cur[w].row.txid]
        /\ Goto(w, "submitRead", "submitted")
  /\ UNCHANGED <<tableVars, req, todo, mails, chain, now>>

SubmitAccepted(w) ==
  LET h == Hash(cur[w].row) IN
  /\ pc[w] = "submit"
  /\ \/ /\ core[h] # None
        /\ core' = core
     \/ /\ core[h] = None
        /\ \A g \in Hashes : core[g] # cur[w].row.txid
        /\ core' = [core EXCEPT ![h] = cur[w].row.txid]
  /\ Goto(w, "submitRead", "submitted")
  /\ UNCHANGED <<tableVars, req, todo, mails, chain, now>>

\* Core accepts the object but the answer is lost or malformed.
SubmitAnswerLost(w) ==
  LET h == Hash(cur[w].row) IN
  /\ pc[w] = "submit"
  /\ core[h] = None
  /\ \A g \in Hashes : core[g] # cur[w].row.txid
  /\ core' = [core EXCEPT ![h] = cur[w].row.txid]
  /\ NextRow(w)
  /\ UNCHANGED <<tableVars, req, todo, mails, chain, now>>

\* A transport error: retried by the next tick.
\* Variant: the terminal regex matches transport errors.
SubmitErrorIsTerminal(w) ==
  /\ pc[w] = "submit"
  /\ Goto(w, "failRead", "submit_rejected")
  /\ UNCHANGED <<tableVars, req, todo, mails, coreVars, now>>

SubmitError(w) ==
  /\ pc[w] = "submit"
  /\ NextRow(w)
  /\ UNCHANGED <<tableVars, req, todo, mails, coreVars, now>>

\* Core rejects for good (isTerminalCoreError).  It does not reject an object
\* it already accepted with this very collateral.
SubmitRejected(w) ==
  /\ pc[w] = "submit"
  /\ core[Hash(cur[w].row)] # cur[w].row.txid
  /\ \E reason \in CoreReject : Goto(w, "failRead", reason)
  /\ UNCHANGED <<tableVars, req, todo, mails, coreVars, now>>

\* The unique index on governance_hash, read by markSubmitted and enforced by
\* its UPDATE.
GovClash(h, id) == GovTaken(h, id)

\* markSubmitted, the reads before its UPDATE.
MarkSubmittedRead(w) ==
  LET s == cur[w] IN
  /\ pc[w] = "submitRead"
  /\ IF rows[s.id].status # "awaiting_collateral"
       THEN NextRow(w)
       ELSE IF GovClash(Hash(s.row), s.id)
              THEN Goto(w, "failRead", "duplicate_governance_hash")
              ELSE Goto(w, "submitCas", "submitted")
  /\ UNCHANGED <<tableVars, req, todo, mails, coreVars, now>>

\* markSubmitted, the compare-and-swap; the unique index on governance_hash
\* turns a late clash into the same duplicate path.
MarkSubmittedCas(w) ==
  LET s == cur[w]
      h == Hash(s.row)
      published == [rows[s.id] EXCEPT !.status = "submitted", !.gov = h,
                                      !.updated = now]
  IN
  /\ pc[w] = "submitCas"
  /\ \/ /\ rows[s.id].status # "awaiting_collateral"
        /\ NextRow(w)
        /\ rows' = rows
     \/ /\ rows[s.id].status = "awaiting_collateral"
        /\ GovClash(h, s.id)
        /\ Goto(w, "failRead", "duplicate_governance_hash")
        /\ rows' = rows
     \/ /\ rows[s.id].status = "awaiting_collateral"
        /\ ~GovClash(h, s.id)
        /\ rows' = [rows EXCEPT ![s.id] = published]
        /\ Goto(w, "hook", "submitted")
  /\ UNCHANGED <<nextId, drafts, accounts, req, todo, mails, coreVars, now>>

\* markFailed's UPDATE has no row to change: deleted, or already terminal.
FailedOrGone(status) == status \in {"failed", "none"}  \* variant: '!= failed'
Settled(status) == status \in Terminal \cup {"none"}

\* markFailed, the read before its UPDATE.
MarkFailedRead(w) ==
  /\ pc[w] = "failRead"
  /\ IF Settled(rows[cur[w].id].status)
       THEN NextRow(w)
       ELSE Goto(w, "failCas", why[w])
  /\ UNCHANGED <<tableVars, req, todo, mails, coreVars, now>>

\* markFailed, the UPDATE ... WHERE status NOT IN ('submitted', 'failed').
MarkFailedCas(w) ==
  LET i == cur[w].id
      dead == [rows[i] EXCEPT !.status = "failed", !.reason = why[w],
                              !.updated = now]
  IN
  /\ pc[w] = "failCas"
  /\ IF Settled(rows[i].status)
       THEN rows' = rows /\ NextRow(w)
       ELSE rows' = [rows EXCEPT ![i] = dead] /\ Goto(w, "hook", why[w])
  /\ UNCHANGED <<nextId, drafts, accounts, req, todo, mails, coreVars, now>>

\* onSubmitted / onFailed: the mail goes out.
HookMail(w) ==
  LET kind == IF why[w] = "submitted" THEN "submitted" ELSE "failed" IN
  /\ pc[w] = "hook"
  /\ cur[w].row.owner \in accounts
  /\ mails' = [mails EXCEPT ![cur[w].id][kind] = @ + 1]
  /\ NextRow(w)
  /\ UNCHANGED <<tableVars, req, todo, coreVars, now>>

\* The hook finds no user, or throws and is swallowed.
HookNothing(w) ==
  /\ pc[w] = "hook"
  /\ NextRow(w)
  /\ UNCHANGED <<tableVars, req, todo, mails, coreVars, now>>

\* The process dies and is restarted: the loop starts over.
Crash(w) ==
  /\ pc[w] # "idle"
  /\ pc' = [pc EXCEPT ![w] = "idle"]
  /\ todo' = [todo EXCEPT ![w] = {}]
  /\ cur' = [cur EXCEPT ![w] = NoSnapshot]
  /\ why' = [why EXCEPT ![w] = "none"]
  /\ UNCHANGED <<tableVars, req, mails, coreVars, now>>

-----------------------------------------------------------------------------
(* The chain and the clock.  A tx may leave the mempool or be reorganised  *)
(* out of the chain until it has Required confirmations, never after.      *)

TxSeen(t) ==
  /\ chain[t] = Unknown
  /\ chain' = [chain EXCEPT ![t] = 0]
  /\ UNCHANGED <<tableVars, req, workerVars, mails, core, now>>

TxConfirmed(t) ==
  /\ chain[t] < Required
  /\ chain' = [chain EXCEPT ![t] = @ + 1]
  /\ UNCHANGED <<tableVars, req, workerVars, mails, core, now>>

TxDropped(t) ==
  /\ chain[t] < Required
  /\ \E c \in {Unknown} \cup 0..(chain[t] - 1) : chain' = [chain EXCEPT ![t] = c]
  /\ UNCHANGED <<tableVars, req, workerVars, mails, core, now>>

ClockTick ==
  /\ now < MaxTime
  /\ now' = now + 1
  /\ UNCHANGED <<tableVars, req, workerVars, mails, coreVars>>

-----------------------------------------------------------------------------
UserStep(u) ==
  \/ CreateDraft(u)
  \/ DeleteDraft(u)
  \/ DeleteAccount(u)
  \/ \E r \in Requests, p \in Payloads : PrepareStart(r, u, p)

RowStep(i) ==
  \/ DeleteSubmission(i)
  \/ CloneToDraft(i)
  \/ \E r \in Requests : PsbtStart(r, i)
  \/ \E r \in Requests, t \in Txids : AttachRead(r, i, t)

RequestStep(r) ==
  \/ PrepareRejected(r)
  \/ PrepareReplay(r)
  \/ PrepareInsert(r)
  \/ PrepareConflict(r)
  \/ PsbtReply(r)
  \/ PsbtFailed(r)
  \/ AttachCas(r)
  \/ AttachLost(r)

WorkerStep(w) ==
  \/ TickStart(w)
  \/ TickEnd(w)
  \/ Advance(w)
  \/ LookupUnknown(w)
  \/ LookupError(w)
  \/ LookupFound(w)
  \/ SubmitAccepted(w)
  \/ SubmitAnswerLost(w)
  \/ SubmitError(w)
  \/ SubmitRejected(w)
  \/ MarkSubmittedRead(w)
  \/ MarkSubmittedCas(w)
  \/ MarkFailedRead(w)
  \/ MarkFailedCas(w)
  \/ HookMail(w)
  \/ HookNothing(w)
  \/ Crash(w)

TxStep(t) == TxSeen(t) \/ TxConfirmed(t) \/ TxDropped(t)

Next ==
  \/ \E u \in Users : UserStep(u)
  \/ \E i \in Ids : RowStep(i)
  \/ \E r \in Requests : RequestStep(r)
  \/ \E w \in Workers : WorkerStep(w)
  \/ \E t \in Txids : TxStep(t)
  \/ ClockTick

Spec == Init /\ [][Next]_vars

-----------------------------------------------------------------------------
(* Properties.                                                             *)

TypeOK ==
  /\ rows \in [Ids -> Row]
  /\ nextId \in 1..(MaxRows + 1)
  /\ drafts \in [Users -> 0..MaxDrafts]
  /\ accounts \subseteq Users
  /\ req \in [Requests -> Request]
  /\ pc \in [Workers -> WorkerPC]
  /\ todo \in [Workers -> SUBSET Snapshot]
  /\ cur \in [Workers -> Snapshot \cup {NoSnapshot}]
  /\ why \in [Workers -> FailReason \cup {"none", "submitted"}]
  /\ mails \in [Ids -> [submitted: Nat, failed: Nat]]
  /\ core \in [Hashes -> Txids \cup {None}]
  /\ chain \in [Txids -> 0..Unknown]
  /\ now \in Times

\* A user is told the outcome of a submission at most once, however many
\* dispatchers process the row and whenever they crash: the compare-and-swaps
\* of markSubmitted and markFailed elect one emitter.
EmitOnce == \A i \in Ids : mails[i].submitted + mails[i].failed <= 1

\* A mail tells the truth: while the row exists its status is what the mail
\* that was sent for it said.
MailTruthful ==
  \A i \in Ids :
    /\ mails[i].submitted > 0 => rows[i].status \in {"submitted", "none"}
    /\ mails[i].failed > 0 => rows[i].status \in {"failed", "none"}

\* /prepare is idempotent although it awaits between its read and its insert:
\* a user never has two prepared rows for one payload.
PreparedOnce ==
  \A u \in Users, p \in Payloads, i, j \in Ids :
    {i, j} \subseteq PreparedFor(u, p) => i = j

\* The hash a client is told to commit 150 SYS to is the hash of the row it
\* was given, on the fresh, the replayed and the raced path of /prepare.
EnvelopeMatchesRow ==
  \A r \in Requests :
    LET q == req[r] IN
      q.op = "envelope" /\ q.id \in Stored =>
        Hash(rows[q.id]) = <<q.payload, q.time>>

\* A rejected or timed-out submission is not live on Core: the dispatcher does
\* not give up a row whose own collateral Core accepted, whatever answers were
\* lost and whenever it crashed.  (One dispatcher.)
NoLiveFailure ==
  \A i \in Stored :
    rows[i].reason \in CoreReject \cup {"collateral_not_found"} =>
      core[Hash(rows[i])] # rows[i].txid

\* What a step may never do to a stored row: change a field the collateral
\* commits to, leave a terminal status, replace a collateral tx or take that of
\* another row, or drop a row in flight or submitted other than with its whole
\* account.
LegalRowChange(i) ==
  LET old == rows[i]
      new == rows'[i]
  IN
  /\ new.status # "none" =>
       /\ Hash(new) = Hash(old) /\ new.owner = old.owner
       /\ old.txid # None => new.txid = old.txid
       /\ new.txid # old.txid => \A j \in Ids \ {i} : rows'[j].txid # new.txid
       /\ old.status \in Terminal =>
            /\ new.status = old.status
            /\ new.gov = old.gov
            /\ new.reason = old.reason
  /\ new.status = "none" =>
       \/ old.status \in {"prepared", "failed"}
       \/ old.owner \notin accounts'

FrozenAndTerminal == [][\A i \in Stored : LegalRowChange(i)]_vars

-----------------------------------------------------------------------------
(* The inductive strengthening of EmitOnce and MailTruthful.               *)

Advancing(w) == pc[w] \notin {"idle", "scan"}
Hooked(w, i) == pc[w] = "hook" /\ cur[w].id = i
Untold(i)    == mails[i].submitted = 0 /\ mails[i].failed = 0

\* What a handler carries across its await names things that exist.
CarriedOK ==
  \A r \in Requests :
    /\ req[r].op = "check" => req[r].user \in Users /\ req[r].payload \in Payloads
    /\ req[r].op = "attach" => req[r].id \in Ids /\ req[r].txid \in Txids

\* Slots from nextId on were never used.
FreshOK == \A i \in Ids : i >= nextId => rows[i] = NoRow /\ Untold(i)

\* A stored row has its payload, and its collateral tx once it was paid.
Paid(row) == row.payload \in Payloads /\ row.txid \in Txids
PaidOK ==
  \A i \in Stored : /\ rows[i].payload \in Payloads
                    /\ rows[i].status = "awaiting_collateral" => Paid(rows[i])

\* Dispatchers work on paid rows, with an outcome to record.
DispatchOK ==
  \A w \in Workers :
    /\ \A s \in todo[w] : s.id < nextId /\ Paid(s.row)
    /\ Advancing(w) => /\ cur[w] \in Snapshot
                       /\ cur[w].id < nextId
                       /\ Paid(cur[w].row)
    /\ pc[w] \in {"failRead", "failCas"} => why[w] \in FailReason
    /\ pc[w] = "hook" => why[w] # "none"

\* A row that is not terminal has no notification behind it or under way.
QuietOK ==
  \A i \in Ids : rows[i].status \in {"prepared", "awaiting_collateral"} =>
    Untold(i) /\ \A w \in Workers : ~Hooked(w, i)

\* The dispatcher at the hook is the only one there for its row, nothing was
\* sent yet, and the row says what the mail will say.
HookOK ==
  \A w \in Workers : pc[w] = "hook" =>
    /\ Untold(cur[w].id)
    /\ \A v \in Workers : Hooked(v, cur[w].id) => v = w
    /\ why[w] = "submitted" => rows[cur[w].id].status \in {"submitted", "none"}
    /\ why[w] # "submitted" => rows[cur[w].id].status \in {"failed", "none"}

MailInv == /\ TypeOK /\ CarriedOK /\ FreshOK /\ PaidOK /\ DispatchOK 
           /\ QuietOK /\ HookOK /\ EmitOnce /\ MailTruthful

-----------------------------------------------------------------------------
(* The inductive strengthening of PreparedOnce and EnvelopeMatchesRow.     *)

\* A row has no collateral before it is attached.
UnpaidOK == \A i \in Ids : rows[i].status = "prepared" => rows[i].txid = None

\* What /prepare answers with, or read to answer with, is the row of that id.
Quotes(q) == q.op = "envelope" \/ (q.op = "check" /\ q.id # 0)
QuotedOK ==
  \A r \in Requests : Quotes(req[r]) =>
    /\ req[r].id \in Ids /\ req[r].id < nextId
    /\ req[r].id \in Stored => Hash(rows[req[r].id]) = <<req[r].payload, req[r].time>>

RowsInv == MailInv /\ UnpaidOK /\ PreparedOnce /\ QuotedOK

-----------------------------------------------------------------------------
(* The inductive strengthening of NoLiveFailure, of one dispatcher.        *)

\* The unique index on collateral_txid.
TxidOnce ==
  \A i, j \in Ids : rows[i].txid # None /\ rows[i].txid = rows[j].txid => i = j

ReasonOK == \A i \in Ids : rows[i].reason # "none" => rows[i].status = "failed"

\* Core accepts only a collateral that is confirmed for good.
ConfirmedOK ==
  /\ \A h \in Hashes : core[h] # None => chain[core[h]] = Required
  /\ \A w \in Workers : pc[w] = "submit" => chain[cur[w].row.txid] = Required

\* What a dispatcher listed and is not done with.
Taken(w) == todo[w] \cup {s \in {cur[w]} : Advancing(w)}

\* Each collateral was listed once; while the dispatcher is not done with it,
\* the row is what it was, and no row that has it is settled.
ListedOK ==
  \A w \in Workers :
    /\ Advancing(w) => cur[w] \notin todo[w]
    /\ \A s, t \in Taken(w) : s.row.txid = t.row.txid => s = t
    /\ \A s \in Taken(w) : s.id \in Stored =>
         Hash(rows[s.id]) = Hash(s.row) /\ rows[s.id].txid = s.row.txid
    /\ \A s \in Taken(w), i \in Stored :
         rows[i].txid = s.row.txid /\ ~(pc[w] = "hook" /\ s = cur[w]) =>
           rows[i].status = "awaiting_collateral"

\* A row is given up for another reason than a duplicate only if Core has not
\* accepted its collateral.
GivenUpOK ==
  \A w \in Workers :
    pc[w] \in {"failRead", "failCas"} /\ why[w] # "duplicate_governance_hash" =>
      core[Hash(cur[w].row)] # cur[w].row.txid

LiveInv == /\ RowsInv /\ TxidOnce /\ ReasonOK /\ ConfirmedOK /\ ListedOK
           /\ GivenUpOK /\ NoLiveFailure

-----------------------------------------------------------------------------
(* Statements of the repository's comments that the code does not keep.    *)

\* A collateral PSBT is only ever built for a submission that is still
\* prepared: /collateral/psbt and /attach-collateral cannot race.
PsbtForPreparedRow ==
  [][\A r \in Requests : req[r].op = "psbt" /\ req'[r].op = "signable" =>
       rows[req[r].id].status = "prepared"]_vars

\* /prepare returns an existing submission as-is only while it is prepared.
ReplayIsPrepared ==
  [][\A r \in Requests :
       req[r].op = "check" /\ req'[r].op = "envelope" /\ req[r].id # 0 =>
         rows[req[r].id].status = "prepared"]_vars

\* A row failed as a duplicate is redundant: the object on chain belongs to
\* the other row, so it is not backed by this row's collateral.
DuplicateNotBacking ==
  \A i \in Stored : rows[i].reason = "duplicate_governance_hash" =>
    core[Hash(rows[i])] # rows[i].txid

-----------------------------------------------------------------------------
(* Liveness.  The loop re-arms itself and never stops for good, the clock  *)
(* advances, and neither a crash nor a failing RPC hits the same step of a *)
(* dispatcher every time it is tried.  Nothing is assumed of users, the    *)
(* mempool or the miners.                                                  *)

LookupAnswered(w) == LookupUnknown(w) \/ LookupFound(w)
SubmitAnswered(w) == SubmitAccepted(w) \/ SubmitRejected(w)

Fairness(w) ==
  /\ WF_vars(TickStart(w) \/ TickEnd(w) \/ HookNothing(w))
  /\ SF_vars(Advance(w))
  /\ SF_vars(LookupAnswered(w))
  /\ SF_vars(SubmitAnswered(w))
  /\ SF_vars(MarkSubmittedRead(w))
  /\ SF_vars(MarkSubmittedCas(w))
  /\ SF_vars(MarkFailedRead(w))
  /\ SF_vars(MarkFailedCas(w))

FairSpec == Spec /\ WF_vars(ClockTick) /\ \A w \in Workers : Fairness(w)

Waiting(i) == rows[i].status = "awaiting_collateral"

\* The clock can still run past the timeout of row i.
TimeLeft(i) == rows[i].updated + Timeout < MaxTime

\* A collateral tx with enough confirmations takes its submission out of
\* awaiting_collateral, whatever answers are lost on the way.
ConfirmedSettles ==
  \A i \in Ids : Waiting(i) /\ chain[rows[i].txid] = Required ~> ~Waiting(i)

\* A submission whose collateral tx stays unknown is given up.
UnknownGivenUp ==
  \A i \in Ids, t \in Txids :
    Waiting(i) /\ rows[i].txid = t /\ TimeLeft(i) /\ chain[t] = Unknown
      ~> ~Waiting(i) \/ chain[t] # Unknown

\* The dispatcher fails closed after a bounded wait if the tx never appears on
\* chain: also if it stays in the mempool for ever.
MempoolGivenUp ==
  \A i \in Ids, t \in Txids :
    Waiting(i) /\ rows[i].txid = t /\ TimeLeft(i) /\ chain[t] = 0
      ~> ~Waiting(i) \/ chain[t] # 0
=============================================================================
