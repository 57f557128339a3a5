--------------------------- MODULE ProposalsProofs ---------------------------
(***************************************************************************)
(* Theorems about the proposal pipeline, for every number of users, rows,  *)
(* dispatchers and concurrent requests.                                    *)
(***************************************************************************)
EXTENDS ProposalsImplements, TLAPS

\* A row with one of its mutable fields replaced is still a row.
LEMMA RowUpdates ==
  ASSUME NEW row \in Row
  PROVE  /\ \A t \in Txids, n \in Times :
              [row EXCEPT !.status = "awaiting_collateral", !.txid = t,
                          !.updated = n] \in Row
         /\ \A c \in Confs, n \in Times :
              [row EXCEPT !.confs = c, !.updated = n] \in Row
         /\ \A h \in Hashes, n \in Times :
              [row EXCEPT !.status = "submitted", !.gov = h, !.updated = n] \in Row
         /\ \A f \in FailReason, n \in Times :
              [row EXCEPT !.status = "failed", !.reason = f, !.updated = n] \in Row
BY DEF Row, Status

\* The empty slot and a freshly prepared submission are rows.
LEMMA FreshRows ==
  ASSUME now \in Times
  PROVE  /\ NoRow \in Row
         /\ \A q \in Request :
              q.user \in Users /\ q.payload \in Payloads => NewRow(q) \in Row
<1>1. NoRow \in Row
  BY BoundsAssumption DEF NoRow, Row, Status, Times, Confs
<1>2. ASSUME NEW row \in Row, NEW u \in Users, NEW p \in Payloads, NEW t \in Times
      PROVE  [row EXCEPT !.owner = u, !.payload = p, !.time = t,
                         !.status = "prepared", !.updated = now] \in Row
  BY DEF Row, Status
<1>3. ASSUME NEW q \in Request, q.user \in Users, q.payload \in Payloads
      PROVE  NewRow(q) \in Row
  <2>1. q.time \in Times
    BY DEF Request
  <2> QED
    BY <1>1, <1>2, <1>3, <2>1 DEF NewRow
<1> QED
  BY <1>1, <1>3

\* Initially every variable has its type.
LEMMA TypeInit == Init => TypeOK
<1> SUFFICES ASSUME Init PROVE TypeOK
  OBVIOUS
<1>1. NoRow \in Row
  BY FreshRows, BoundsAssumption DEF Init, Times
<1>2. Idle \in Request
  BY BoundsAssumption DEF Idle, Request, RequestOp, Times
<1> QED
  BY <1>1, <1>2, BoundsAssumption
  DEF Init, TypeOK, Times, WorkerPC, Unknown

-----------------------------------------------------------------------------
(* Type correctness is inductive together with what handlers carry across  *)
(* an await (CarriedOK) and what dispatchers work on (DispatchOK).         *)

\* A step of a user: drafts, account deletion, the start of /prepare.
LEMMA TypeUser ==
  ASSUME TypeOK, NEW u \in Users, UserStep(u)
  PROVE  TypeOK'
<1>1. CASE CreateDraft(u)
  BY <1>1, BoundsAssumption
  DEF CreateDraft, TypeOK, workerVars, coreVars
<1>2. CASE DeleteDraft(u)
  BY <1>2, BoundsAssumption
  DEF DeleteDraft, TypeOK, workerVars, coreVars
<1>3. CASE DeleteAccount(u)
  <2>1. NoRow \in Row
    BY FreshRows DEF TypeOK
  <2>2. rows' \in [Ids -> Row] /\ drafts' \in [Users -> 0..MaxDrafts]
    BY <1>3, <2>1, BoundsAssumption DEF DeleteAccount, TypeOK
  <2> QED
    BY <1>3, <2>2 DEF DeleteAccount, TypeOK, workerVars, coreVars
<1>4. CASE \E r \in Requests, p \in Payloads : PrepareStart(r, u, p)
  <2>1. PICK r \in Requests, p \in Payloads : PrepareStart(r, u, p)
    BY <1>4
  <2>2. \A i \in Ids \cup {0}, t \in Times :
          Asked(u, p, i, t) \in Request
    BY BoundsAssumption DEF Asked, Request, RequestOp, Ids
  <2>3. now \in Times /\ \A i \in Ids : rows[i].time \in Times
    BY DEF TypeOK, Row
  <2>4. \E i \in Ids \cup {0}, t \in Times : req' = [req EXCEPT ![r] = Asked(u, p, i, t)]
    BY <2>1, <2>3 DEF PrepareStart, PreparedFor
  <2>5. req' \in [Requests -> Request]
    BY <2>2, <2>4 DEF TypeOK
  <2> QED
    BY <2>1, <2>5 DEF PrepareStart, TypeOK, tableVars, workerVars, coreVars
<1> QED
  BY <1>1, <1>2, <1>3, <1>4 DEF UserStep

\* A step on a row: deletion, cloning, the reads of the two collateral routes.
LEMMA TypeRow ==
  ASSUME TypeOK, NEW i \in Ids, RowStep(i)
  PROVE  TypeOK'
<1>1. NoRow \in Row /\ Idle \in Request
  BY FreshRows, BoundsAssumption
  DEF TypeOK, Idle, Request, RequestOp, Times
<1>2. CASE DeleteSubmission(i)
  BY <1>1, <1>2 DEF DeleteSubmission, TypeOK, workerVars, coreVars
<1>3. CASE CloneToDraft(i)
  <2> DEFINE u == rows[i].owner
  <2>1. drafts[u] < MaxDrafts /\ drafts' = [drafts EXCEPT ![u] = drafts[u] + 1]
    BY <1>3 DEF CloneToDraft
  <2>2. drafts \in [Users -> 0..MaxDrafts]
    BY DEF TypeOK
  <2> HIDE DEF u
  <2>3. drafts' \in [Users -> 0..MaxDrafts]
    <3>1. CASE u \in Users
      <4>1. drafts[u] + 1 \in 0..MaxDrafts
        BY <2>1, <2>2, <3>1, BoundsAssumption
      <4> QED
        BY <2>1, <2>2, <4>1
    <3>2. CASE u \notin Users
      BY <2>1, <2>2, <3>2
    <3> QED
      BY <3>1, <3>2
  <2> QED
    BY <1>1, <1>3, <2>3 DEF CloneToDraft, TypeOK, workerVars, coreVars
<1>4. \A op \in RequestOp, t \in Txids \cup {None} : Carry(op, i, t) \in Request
  <2>1. rows[i].owner \in Users \cup {None}
    BY DEF TypeOK, Row
  <2>2. i \in 0..MaxRows
    BY BoundsAssumption DEF Ids
  <2> QED
    BY <1>1, <2>1, <2>2 DEF Carry, Request
<1>5. CASE \E r \in Requests : PsbtStart(r, i)
  <2>1. PICK r \in Requests : PsbtStart(r, i)
    BY <1>5
  <2>2. req' \in [Requests -> Request]
    BY <1>4, <2>1 DEF PsbtStart, RequestOp, TypeOK
  <2> QED
    BY <2>1, <2>2 DEF PsbtStart, TypeOK, tableVars, workerVars, coreVars
<1>6. CASE \E r \in Requests, t \in Txids : AttachRead(r, i, t)
  <2>1. PICK r \in Requests, t \in Txids : AttachRead(r, i, t)
    BY <1>6
  <2>2. req' \in [Requests -> Request]
    BY <1>4, <2>1 DEF AttachRead, RequestOp, TypeOK
  <2> QED
    BY <2>1, <2>2 DEF AttachRead, TypeOK, tableVars, workerVars, coreVars
<1> QED
  BY <1>2, <1>3, <1>5, <1>6 DEF RowStep

\* A step of a request after its await: the reply, the insert, the update.
LEMMA TypeRequest ==
  ASSUME TypeOK, CarriedOK, NEW r \in Requests, RequestStep(r)
  PROVE  TypeOK'
<1>1. Idle \in Request
  BY FreshRows, BoundsAssumption
  DEF TypeOK, Idle, Request, RequestOp, Times
<1>2. req[r] \in Request
  BY DEF TypeOK
<1>3. ASSUME NEW i \in 0..MaxRows, NEW t \in Times, SendEnvelope(r, i, t)
      PROVE  req' \in [Requests -> Request]
  <2> DEFINE e == [req[r] EXCEPT !.op = "envelope", !.id = i, !.time = t]
  <2>1. e \in Request
    BY <1>2 DEF Request, RequestOp
  <2>2. req' = [req EXCEPT ![r] = e]
    BY <1>3 DEF SendEnvelope
  <2> QED
    BY <2>1, <2>2 DEF TypeOK
<1>4. CASE PrepareRejected(r) \/ PsbtFailed(r) \/ AttachLost(r)
  <2>1. req' \in [Requests -> Request]
    BY <1>1, <1>4 DEF PrepareRejected, PsbtFailed, AttachLost, TypeOK
  <2> QED
    BY <1>4, <2>1
    DEF PrepareRejected, PsbtFailed, AttachLost, TypeOK, tableVars, workerVars,
        coreVars
<1>5. CASE PrepareReplay(r)
  <2>1. req' \in [Requests -> Request]
    BY <1>3, <1>2, <1>5 DEF PrepareReplay, Request
  <2> QED
    BY <1>5, <2>1 DEF PrepareReplay, TypeOK, tableVars, workerVars, coreVars
<1>6. CASE PrepareConflict(r)
  <2>1. PICK i \in Ids : SendEnvelope(r, i, rows[i].time)
    BY <1>6 DEF PrepareConflict, PreparedFor
  <2>2. rows[i].time \in Times /\ i \in 0..MaxRows
    BY BoundsAssumption DEF TypeOK, Row, Ids
  <2>3. req' \in [Requests -> Request]
    BY <1>3, <2>1, <2>2
  <2> QED
    BY <1>6, <2>3 DEF PrepareConflict, TypeOK, tableVars, workerVars, coreVars
<1>7. CASE PrepareInsert(r)
  <2>1. NewRow(req[r]) \in Row
    BY <1>2, <1>7, FreshRows DEF PrepareInsert, CarriedOK, TypeOK
  <2>2. rows' \in [Ids -> Row]
    BY <1>7, <2>1 DEF PrepareInsert, TypeOK
  <2>3. nextId' \in 1..(MaxRows + 1)
    BY <1>7, BoundsAssumption DEF PrepareInsert, TypeOK, Ids
  <2>4. drafts' \in [Users -> 0..MaxDrafts]
    <3>1. req[r].user \in Users /\ drafts \in [Users -> 0..MaxDrafts]
      BY <1>7 DEF PrepareInsert, TypeOK, CarriedOK
    <3> DEFINE u == req[r].user
    <3>2. \/ drafts' = drafts
          \/ drafts[u] > 0 /\ drafts' = [drafts EXCEPT ![u] = drafts[u] - 1]
      BY <1>7 DEF PrepareInsert
    <3> HIDE DEF u
    <3>3. drafts[u] > 0 => drafts[u] - 1 \in 0..MaxDrafts
      BY <3>1, BoundsAssumption DEF u
    <3> QED
      BY <3>1, <3>2, <3>3
  <2>5. req' \in [Requests -> Request]
    <3>1. nextId \in 0..MaxRows /\ req[r].time \in Times
      BY <1>2, <1>7, BoundsAssumption DEF PrepareInsert, Request, Ids
    <3> QED
      BY <1>3, <1>7, <3>1 DEF PrepareInsert
  <2> QED
    BY <1>7, <2>2, <2>3, <2>4, <2>5
    DEF PrepareInsert, TypeOK, workerVars, coreVars
<1>8. CASE PsbtReply(r)
  <2>1. [req[r] EXCEPT !.op = "signable"] \in Request
    BY <1>2 DEF Request, RequestOp
  <2>2. req' \in [Requests -> Request]
    BY <1>8, <2>1 DEF PsbtReply, TypeOK
  <2> QED
    BY <1>8, <2>2 DEF PsbtReply, TypeOK, tableVars, workerVars, coreVars
<1>9. CASE AttachCas(r)
  <2> DEFINE i == req[r].id
             attached == [rows[i] EXCEPT !.status = "awaiting_collateral",
                                         !.txid = req[r].txid, !.updated = now]
  <2>1. i \in Ids /\ req[r].txid \in Txids /\ rows[i] \in Row /\ now \in Times
    BY <1>9 DEF AttachCas, CarriedOK, TypeOK
  <2>2. attached \in Row
    BY <2>1, RowUpdates
  <2>3. rows' = [rows EXCEPT ![i] = attached]
    BY <1>9 DEF AttachCas
  <2> HIDE DEF attached
  <2>4. rows' \in [Ids -> Row]
    BY <2>2, <2>3 DEF TypeOK
  <2>5. req' \in [Requests -> Request]
    BY <1>1, <1>9 DEF AttachCas, TypeOK
  <2> QED
    BY <1>9, <2>4, <2>5 DEF AttachCas, TypeOK, workerVars, coreVars
<1> QED
  BY <1>4, <1>5, <1>6, <1>7, <1>8, <1>9 DEF RequestStep

\* Where a dispatcher may go next, and the outcomes it may carry there.
LEMMA TypeGoto ==
  ASSUME TypeOK, NEW w \in Workers
  PROVE  /\ NextRow(w) => /\ pc' \in [Workers -> WorkerPC]
                          /\ cur' \in [Workers -> Snapshot \cup {NoSnapshot}]
                          /\ why' \in [Workers -> FailReason \cup {"none", "submitted"}]
         /\ \A where \in WorkerPC, outcome \in FailReason \cup {"none", "submitted"} :
              Goto(w, where, outcome) =>
                /\ pc' \in [Workers -> WorkerPC]
                /\ cur' \in [Workers -> Snapshot \cup {NoSnapshot}]
                /\ why' \in [Workers -> FailReason \cup {"none", "submitted"}]
<1>1. "scan" \in WorkerPC
  BY DEF WorkerPC
<1> QED
  BY <1>1 DEF NextRow, Goto, TypeOK

\* The snapshots a tick starts from are snapshots of stored rows.
LEMMA AwaitingType == TypeOK => Awaiting \subseteq Snapshot
BY DEF Awaiting, Snapshot, TypeOK

\* A step of a dispatcher.
LEMMA TypeWorker ==
  ASSUME TypeOK, DispatchOK, NEW w \in Workers, WorkerStep(w)
  PROVE  TypeOK'
<1> USE DEF tableVars, workerVars, coreVars
<1>1. CASE TickStart(w)
  BY <1>1, AwaitingType DEF TickStart, TypeOK, WorkerPC
<1>2. CASE TickEnd(w)
  BY <1>2 DEF TickEnd, TypeOK, WorkerPC
<1>3. CASE Advance(w)
  <2>1. PICK s \in todo[w] : /\ cur' = [cur EXCEPT ![w] = s]
                             /\ todo' = [todo EXCEPT ![w] = todo[w] \ {s}]
    BY <1>3 DEF Advance
  <2>2. pc' = [pc EXCEPT ![w] = "lookup"]
    BY <1>3 DEF Advance
  <2> QED
    BY <1>3, <2>1, <2>2 DEF Advance, TypeOK, WorkerPC
<1>4. CASE LookupUnknown(w) \/ LookupError(w) \/ SubmitError(w) \/ SubmitRejected(w)
           \/ MarkSubmittedRead(w) \/ MarkFailedRead(w) \/ HookNothing(w)
  <2>1. \/ NextRow(w)
        \/ \E where \in WorkerPC, outcome \in FailReason \cup {"none", "submitted"} :
             Goto(w, where, outcome)
    BY <1>4 DEF LookupUnknown, LookupError, SubmitError, SubmitRejected,
        MarkSubmittedRead, MarkFailedRead, HookNothing, DispatchOK, WorkerPC,
        FailReason
  <2>2. /\ pc' \in [Workers -> WorkerPC]
        /\ cur' \in [Workers -> Snapshot \cup {NoSnapshot}]
        /\ why' \in [Workers -> FailReason \cup {"none", "submitted"}]
    BY <2>1, TypeGoto
  <2>3. UNCHANGED <<rows, nextId, drafts, accounts, req, todo, mails, core,
                    chain, now>>
    BY <1>4 DEF LookupUnknown, LookupError, SubmitError, SubmitRejected,
        MarkSubmittedRead, MarkFailedRead, HookNothing
  <2> QED
    BY <2>2, <2>3 DEF TypeOK
<1>5. CASE LookupFound(w)
  <2> DEFINE s == cur[w]
             confs == chain[s.row.txid]
             counted == [rows[s.id] EXCEPT !.confs = confs, !.updated = now]
  <2>1. s \in Snapshot /\ s.id \in Ids /\ s.row.txid \in Txids
    BY <1>5 DEF LookupFound, DispatchOK, Advancing, Snapshot, Paid
  <2>2. confs \in Confs
    <3>1. confs \in 0..Unknown /\ confs # Unknown
      BY <1>5, <2>1 DEF LookupFound, TypeOK
    <3> QED
      BY <3>1, BoundsAssumption DEF Unknown, Confs
  <2>3. counted \in Row
    BY <2>1, <2>2, RowUpdates DEF TypeOK
  <2>4. rows' = rows \/ rows' = [rows EXCEPT ![s.id] = counted]
    BY <1>5 DEF LookupFound
  <2>5. NextRow(w) \/ Goto(w, "submit", "none")
    BY <1>5 DEF LookupFound
  <2> HIDE DEF counted, confs
  <2>6. rows' \in [Ids -> Row]
    BY <2>3, <2>4 DEF TypeOK
  <2> QED
    BY <1>5, <2>5, <2>6, TypeGoto DEF LookupFound, TypeOK, WorkerPC
<1>6. CASE SubmitAccepted(w) \/ SubmitAnswerLost(w)
  <2>1. Hash(cur[w].row) \in Hashes /\ cur[w].row.txid \in Txids
    BY <1>6 DEF SubmitAccepted, SubmitAnswerLost, DispatchOK, Advancing,
        Snapshot, Paid, Row, Hash, Hashes
  <2>2. core' \in [Hashes -> Txids \cup {None}]
    BY <1>6, <2>1 DEF SubmitAccepted, SubmitAnswerLost, TypeOK
  <2>3. NextRow(w) \/ Goto(w, "submitRead", "submitted")
    BY <1>6 DEF SubmitAccepted, SubmitAnswerLost
  <2> QED
    BY <1>6, <2>2, <2>3, TypeGoto
    DEF SubmitAccepted, SubmitAnswerLost, TypeOK, WorkerPC
<1>7. CASE MarkSubmittedCas(w)
  <2> DEFINE s == cur[w]
             h == Hash(s.row)
             published == [rows[s.id] EXCEPT !.status = "submitted",
                                             !.gov = h, !.updated = now]
  <2>1. s.id \in Ids /\ h \in Hashes
    BY <1>7 DEF MarkSubmittedCas, DispatchOK, Advancing, Snapshot, Paid, Row,
        Hash, Hashes
  <2>2. published \in Row
    BY <2>1, RowUpdates DEF TypeOK
  <2>3. rows' = rows \/ rows' = [rows EXCEPT ![s.id] = published]
    BY <1>7 DEF MarkSubmittedCas
  <2>4. \/ NextRow(w)
        \/ Goto(w, "failRead", "duplicate_governance_hash")
        \/ Goto(w, "hook", "submitted")
    BY <1>7 DEF MarkSubmittedCas
  <2> HIDE DEF published
  <2>5. rows' \in [Ids -> Row]
    BY <2>2, <2>3 DEF TypeOK
  <2> QED
    BY <1>7, <2>4, <2>5, TypeGoto
    DEF MarkSubmittedCas, TypeOK, WorkerPC, FailReason
<1>8. CASE MarkFailedCas(w)
  <2> DEFINE i == cur[w].id
             dead == [rows[i] EXCEPT !.status = "failed", !.reason = why[w],
                                     !.updated = now]
  <2>1. i \in Ids /\ why[w] \in FailReason
    BY <1>8 DEF MarkFailedCas, DispatchOK, Advancing, Snapshot
  <2>2. dead \in Row
    BY <2>1, RowUpdates DEF TypeOK
  <2>3. rows' = rows \/ rows' = [rows EXCEPT ![i] = dead]
    BY <1>8 DEF MarkFailedCas
  <2>4. NextRow(w) \/ Goto(w, "hook", why[w])
    BY <1>8 DEF MarkFailedCas
  <2> HIDE DEF dead
  <2>5. rows' \in [Ids -> Row]
    BY <2>2, <2>3 DEF TypeOK
  <2> QED
    BY <1>8, <2>1, <2>4, <2>5, TypeGoto DEF MarkFailedCas, TypeOK, WorkerPC
<1>9. CASE HookMail(w)
  <2>1. PICK kind \in {"submitted", "failed"} :
          mails' = [mails EXCEPT ![cur[w].id][kind] = mails[cur[w].id][kind] + 1]
    BY <1>9 DEF HookMail
  <2>2. cur[w].id \in Ids
    BY <1>9 DEF HookMail, DispatchOK, Advancing, Snapshot
  <2>3. mails' \in [Ids -> [submitted: Nat, failed: Nat]]
    BY <2>1, <2>2 DEF TypeOK
  <2> QED
    BY <1>9, <2>3, TypeGoto DEF HookMail, TypeOK
<1>10. CASE Crash(w)
  BY <1>10 DEF Crash, TypeOK, WorkerPC
<1> QED
  BY <1>1, <1>2, <1>3, <1>4, <1>5, <1>6, <1>7, <1>8, <1>9, <1>10 DEF WorkerStep

\* A step of the chain or the clock.
LEMMA TypeEnvironment ==
  ASSUME TypeOK, (\E t \in Txids : TxStep(t)) \/ ClockTick
  PROVE  TypeOK'
<1> USE DEF tableVars, workerVars
<1>1. CASE ClockTick
  BY <1>1, BoundsAssumption DEF ClockTick, TypeOK, Times, coreVars
<1>2. CASE \E t \in Txids : TxStep(t)
  <2>1. PICK t \in Txids : TxStep(t)
    BY <1>2
  <2>2. chain[t] \in 0..Unknown /\ Required \in Nat /\ Unknown = Required + 1
    BY BoundsAssumption DEF TypeOK, Unknown
  <2>3. PICK c \in 0..Unknown : chain' = [chain EXCEPT ![t] = c]
    BY <2>1, <2>2 DEF TxStep, TxSeen, TxConfirmed, TxDropped
  <2>4. chain' \in [Txids -> 0..Unknown]
    BY <2>3 DEF TypeOK
  <2> QED
    BY <2>1, <2>4 DEF TxStep, TxSeen, TxConfirmed, TxDropped, TypeOK
<1> QED
  BY <1>1, <1>2

\* Every step keeps the types.
LEMMA TypeStep ==
  ASSUME TypeOK, CarriedOK, DispatchOK, [Next]_vars
  PROVE  TypeOK'
<1>1. CASE UNCHANGED vars
  BY <1>1 DEF vars, TypeOK
<1> QED
  BY <1>1, TypeUser, TypeRow, TypeRequest, TypeWorker, TypeEnvironment DEF Next

-----------------------------------------------------------------------------
(* What a step can do to the rows, the mails and the dispatchers, as far   *)
(* as the notification invariant is concerned.                             *)

Inert == UNCHANGED <<rows, nextId, workerVars, mails>>

Removal ==
  /\ \A i \in Ids : rows'[i] \in {rows[i], NoRow}
  /\ UNCHANGED <<nextId, workerVars, mails>>

Insertion ==
  /\ nextId \in Ids
  /\ \E q \in Request : /\ q.payload \in Payloads
                        /\ rows' = [rows EXCEPT ![nextId] = NewRow(q)]
  /\ nextId' = nextId + 1
  /\ UNCHANGED <<workerVars, mails>>

Attachment ==
  /\ \E i \in Ids, t \in Txids :
       /\ rows[i].status = "prepared"
       /\ rows' = [rows EXCEPT ![i] = [rows[i] EXCEPT
                     !.status = "awaiting_collateral", !.txid = t,
                     !.updated = now]]
  /\ UNCHANGED <<nextId, workerVars, mails>>

\* Dispatcher w goes on without settling a row or sending a mail.
SameButCounted ==
  \A i \in Ids : /\ rows'[i].status = rows[i].status
                 /\ rows'[i].payload = rows[i].payload
                 /\ rows'[i].txid = rows[i].txid
                 /\ rows[i].status = "none" => rows'[i] = rows[i]

OthersStay(w) ==
  \A v \in Workers \ {w} :
    pc'[v] = pc[v] /\ cur'[v] = cur[v] /\ why'[v] = why[v] /\ todo'[v] = todo[v]

Move(w) ==
  /\ SameButCounted
  /\ OthersStay(w)
  /\ pc'[w] # "hook"
  /\ UNCHANGED <<nextId, mails>>

\* Dispatcher w wins the compare-and-swap on its row.
Settling(w) ==
  LET i == cur[w].id IN
  /\ i \in Ids
  /\ rows[i].status \in {"prepared", "awaiting_collateral"}
  /\ \A j \in Ids \ {i} : rows'[j] = rows[j]
  /\ rows'[i].status = (IF why'[w] = "submitted" THEN "submitted" ELSE "failed")
  /\ rows'[i].payload = rows[i].payload
  /\ OthersStay(w)
  /\ pc'[w] = "hook"
  /\ why'[w] # "none"
  /\ UNCHANGED <<nextId, mails, cur, todo>>

Emission(w) ==
  LET i == cur[w].id
      kind == IF why[w] = "submitted" THEN "submitted" ELSE "failed"
  IN
  /\ pc[w] = "hook"
  /\ mails' = [mails EXCEPT ![i][kind] = mails[i][kind] + 1]
  /\ OthersStay(w)
  /\ pc'[w] # "hook"
  /\ UNCHANGED <<rows, nextId>>

\* Leaving a row, or going anywhere but to the hook, takes nobody to the hook.
LEMMA NotHook ==
  ASSUME TypeOK, NEW w \in Workers
  PROVE  /\ NextRow(w) => pc'[w] # "hook" /\ (todo' = todo => OthersStay(w))
         /\ \A where \in WorkerPC, outcome \in FailReason \cup {"none", "submitted"} :
              Goto(w, where, outcome) =>
                /\ pc'[w] = where /\ why'[w] = outcome /\ cur' = cur
                /\ (todo' = todo => OthersStay(w))
BY DEF NextRow, Goto, OthersStay, TypeOK, WorkerPC

\* A dispatcher's step settles a row and goes to the hook, tells the user,
\* records confirmations, or touches neither row nor mails.
LEMMA WorkerKinds ==
  ASSUME TypeOK, DispatchOK, FreshOK, NEW w \in Workers, WorkerStep(w)
  PROVE  Move(w) \/ Settling(w) \/ Emission(w)
<1> USE DEF tableVars, workerVars, coreVars
<1>1. CASE TickStart(w) \/ TickEnd(w) \/ Advance(w) \/ Crash(w)
  BY <1>1 DEF TickStart, TickEnd, Advance, Crash, Move, SameButCounted,
       OthersStay, TypeOK, WorkerPC
<1>2. CASE LookupUnknown(w) \/ LookupError(w) \/ SubmitError(w) \/ SubmitRejected(w)
           \/ MarkSubmittedRead(w) \/ MarkFailedRead(w) \/ HookNothing(w)
           \/ SubmitAccepted(w) \/ SubmitAnswerLost(w)
  <2>1. \/ NextRow(w)
        \/ \E where \in WorkerPC \ {"hook"},
              outcome \in FailReason \cup {"none", "submitted"} :
             Goto(w, where, outcome)
    BY <1>2 DEF LookupUnknown, LookupError, SubmitError, SubmitRejected,
        MarkSubmittedRead, MarkFailedRead, HookNothing, SubmitAccepted,
        SubmitAnswerLost, DispatchOK, WorkerPC, FailReason
  <2>2. UNCHANGED <<rows, nextId, mails, todo>>
    BY <1>2 DEF LookupUnknown, LookupError, SubmitError, SubmitRejected,
        MarkSubmittedRead, MarkFailedRead, HookNothing, SubmitAccepted,
        SubmitAnswerLost
  <2> QED
    BY <2>1, <2>2, NotHook DEF Move, SameButCounted
<1>3. CASE LookupFound(w)
  <2> DEFINE i == cur[w].id
             counted == [rows[i] EXCEPT !.confs = chain[cur[w].row.txid],
                                        !.updated = now]
  <2>1. NextRow(w) \/ Goto(w, "submit", "none")
    BY <1>3 DEF LookupFound
  <2>2. UNCHANGED <<nextId, mails, todo>>
    BY <1>3 DEF LookupFound
  <2>3. rows' = IF /\ chain[cur[w].row.txid] # cur[w].row.confs
                  /\ rows[i].status # "none"
                  THEN [rows EXCEPT ![i] = counted] ELSE rows
    BY <1>3 DEF LookupFound
  <2>4. SameButCounted
    BY <2>3 DEF SameButCounted, TypeOK, Row
  <2> QED
    BY <2>1, <2>2, <2>4, NotHook DEF Move, WorkerPC
<1>4. CASE MarkSubmittedCas(w)
  <2> DEFINE i == cur[w].id
             published == [rows[i] EXCEPT !.status = "submitted",
                             !.gov = Hash(cur[w].row), !.updated = now]
  <2>1. i \in Ids
    BY <1>4 DEF MarkSubmittedCas, DispatchOK, Advancing, Snapshot
  <2>2. UNCHANGED <<nextId, mails, todo>>
    BY <1>4 DEF MarkSubmittedCas
  <2>3. \/ rows' = rows /\ NextRow(w)
        \/ rows' = rows /\ Goto(w, "failRead", "duplicate_governance_hash")
        \/ /\ rows[i].status = "awaiting_collateral"
           /\ rows' = [rows EXCEPT ![i] = published]
           /\ Goto(w, "hook", "submitted")
    BY <1>4 DEF MarkSubmittedCas
  <2>4. CASE /\ rows' = rows
             /\ NextRow(w) \/ Goto(w, "failRead", "duplicate_governance_hash")
    BY <2>2, <2>4, NotHook DEF Move, SameButCounted, WorkerPC, FailReason
  <2>5. CASE /\ rows[i].status = "awaiting_collateral"
             /\ rows' = [rows EXCEPT ![i] = published]
             /\ Goto(w, "hook", "submitted")
    BY <2>1, <2>2, <2>5, NotHook DEF Settling, WorkerPC, TypeOK, Row
  <2> QED
    BY <2>3, <2>4, <2>5
<1>5. CASE MarkFailedCas(w)
  <2> DEFINE i == cur[w].id
             dead == [rows[i] EXCEPT !.status = "failed", !.reason = why[w],
                                     !.updated = now]
  <2>1. i \in Ids /\ why[w] \in FailReason
    BY <1>5 DEF MarkFailedCas, DispatchOK, Advancing, Snapshot
  <2>2. UNCHANGED <<nextId, mails, todo>>
    BY <1>5 DEF MarkFailedCas
  <2>3. \/ rows' = rows /\ NextRow(w)
        \/ /\ rows[i].status \in {"prepared", "awaiting_collateral"}
           /\ rows' = [rows EXCEPT ![i] = dead]
           /\ Goto(w, "hook", why[w])
    BY <1>5, <2>1 DEF MarkFailedCas, Settled, Terminal, TypeOK, Row, Status
  <2>4. CASE rows' = rows /\ NextRow(w)
    BY <2>2, <2>4, NotHook DEF Move, SameButCounted
  <2>5. CASE /\ rows[i].status \in {"prepared", "awaiting_collateral"}
             /\ rows' = [rows EXCEPT ![i] = dead]
             /\ Goto(w, "hook", why[w])
    <3>1. rows'[i].status = "failed" /\ rows'[i].payload = rows[i].payload
      BY <2>1, <2>5 DEF TypeOK, Row
    <3>2. why'[w] = why[w] /\ why[w] # "submitted" /\ why[w] # "none"
      BY <2>1, <2>5, NotHook DEF WorkerPC, FailReason, CoreReject
    <3> QED
      BY <2>1, <2>2, <2>5, <3>1, <3>2, NotHook DEF Settling, WorkerPC, TypeOK
  <2> QED
    BY <2>3, <2>4, <2>5
<1>6. CASE HookMail(w)
  <2>1. NextRow(w) /\ todo' = todo
    BY <1>6 DEF HookMail
  <2> QED
    BY <1>6, <2>1, NotHook DEF HookMail, Emission
<1> QED
  BY <1>1, <1>2, <1>3, <1>4, <1>5, <1>6 DEF WorkerStep

\* The same, of any step.
LEMMA StepKinds ==
  ASSUME TypeOK, CarriedOK, DispatchOK, FreshOK, [Next]_vars
  PROVE  \/ Inert \/ Removal \/ Insertion \/ Attachment
         \/ \E w \in Workers : Move(w) \/ Settling(w) \/ Emission(w)
<1>1. CASE UNCHANGED vars
  BY <1>1 DEF vars, Inert, workerVars
<1>2. CASE \E u \in Users : UserStep(u)
  <2>1. PICK u \in Users : UserStep(u)
    BY <1>2
  <2>2. CASE DeleteAccount(u)
    BY <2>2 DEF DeleteAccount, Removal
  <2> QED
    BY <2>1, <2>2 DEF UserStep, CreateDraft, DeleteDraft, PrepareStart, Inert,
      tableVars
<1>3. CASE \E i \in Ids : RowStep(i)
  <2>1. PICK i \in Ids : RowStep(i)
    BY <1>3
  <2>2. CASE DeleteSubmission(i) \/ CloneToDraft(i)
    BY <2>2 DEF DeleteSubmission, CloneToDraft, Removal, TypeOK
  <2> QED
    BY <2>1, <2>2 DEF RowStep, PsbtStart, AttachRead, Inert, tableVars
<1>4. CASE \E r \in Requests : RequestStep(r)
  <2>1. PICK r \in Requests : RequestStep(r)
    BY <1>4
  <2>2. CASE PrepareInsert(r)
    BY <2>2 DEF PrepareInsert, Insertion, CarriedOK, TypeOK
  <2>3. CASE AttachCas(r)
    <3>1. req[r].id \in Ids /\ req[r].txid \in Txids
      BY <2>3 DEF AttachCas, CarriedOK
    <3> QED
      BY <2>3, <3>1 DEF AttachCas, Attachment
  <2> QED
    BY <2>1, <2>2, <2>3 DEF RequestStep, PrepareRejected, PrepareReplay,
      PrepareConflict, PsbtReply, PsbtFailed, AttachLost, Inert, tableVars
<1>5. CASE (\E t \in Txids : TxStep(t)) \/ ClockTick
  BY <1>5 DEF TxStep, TxSeen, TxConfirmed, TxDropped, ClockTick, Inert, tableVars
<1> QED
  BY <1>1, <1>2, <1>3, <1>4, <1>5, WorkerKinds DEF Next

-----------------------------------------------------------------------------
(* The conjuncts of MailInv, one by one.                                   *)

\* A request changes by the start of a route or by its own next step.
LEMMA RequestMoves ==
  ASSUME TypeOK, [Next]_vars, NEW r \in Requests, req'[r] # req[r]
  PROVE  \/ \E u \in Users, p \in Payloads : PrepareStart(r, u, p)
         \/ \E i \in Ids : PsbtStart(r, i)
         \/ \E i \in Ids, t \in Txids : AttachRead(r, i, t)
         \/ RequestStep(r)
<1>1. CASE \E u \in Users : UserStep(u)
  BY <1>1 DEF UserStep, CreateDraft, DeleteDraft, DeleteAccount, PrepareStart,
     TypeOK
<1>2. CASE \E i \in Ids : RowStep(i)
  BY <1>2 DEF RowStep, DeleteSubmission, CloneToDraft, PsbtStart, AttachRead,
     TypeOK
<1>3. CASE \E q \in Requests : RequestStep(q)
  <2>1. PICK q \in Requests : RequestStep(q)
    BY <1>3
  <2>2. \E x : req' = [req EXCEPT ![q] = x]
    BY <2>1 DEF RequestStep, PrepareRejected, PrepareReplay, PrepareInsert,
       PrepareConflict, SendEnvelope, PsbtReply, PsbtFailed, AttachCas,
       AttachLost
  <2>3. q = r
    BY <2>2 DEF TypeOK
  <2> QED
    BY <2>1, <2>3
<1>4. CASE \E w \in Workers : WorkerStep(w)
  BY <1>4 DEF WorkerStep, TickStart, TickEnd, Advance, LookupUnknown,
     LookupError, LookupFound, SubmitAccepted, SubmitAnswerLost, SubmitError,
     SubmitRejected, MarkSubmittedRead, MarkSubmittedCas, MarkFailedRead,
     MarkFailedCas, HookMail, HookNothing, Crash
<1>5. CASE (\E t \in Txids : TxStep(t)) \/ ClockTick \/ UNCHANGED vars
  BY <1>5 DEF TxStep, TxSeen, TxConfirmed, TxDropped, ClockTick, vars
<1> QED
  BY <1>1, <1>2, <1>3, <1>4, <1>5 DEF Next

\* Handlers go on carrying the user, payload, row and txid they read.
LEMMA CarriedStep ==
  ASSUME TypeOK, CarriedOK, [Next]_vars
  PROVE  CarriedOK'
<1> SUFFICES ASSUME NEW r \in Requests, req'[r] # req[r]
    PROVE  /\ req'[r].op = "check" => req'[r].user \in Users /\ req'[r].payload \in Payloads
           /\ req'[r].op = "attach" => req'[r].id \in Ids /\ req'[r].txid \in Txids
  BY DEF CarriedOK
<1>1. CASE \E u \in Users, p \in Payloads : PrepareStart(r, u, p)
  BY <1>1 DEF PrepareStart, Asked, TypeOK
<1>2. CASE \E i \in Ids : PsbtStart(r, i)
  BY <1>2 DEF PsbtStart, Carry, Idle, TypeOK
<1>3. CASE \E i \in Ids, t \in Txids : AttachRead(r, i, t)
  BY <1>3 DEF AttachRead, Carry, Idle, TypeOK
<1>4. CASE PrepareReplay(r) \/ PrepareInsert(r) \/ PrepareConflict(r)
  <2>1. \E i, t : SendEnvelope(r, i, t)
    BY <1>4 DEF PrepareReplay, PrepareInsert, PrepareConflict
  <2> QED
    BY <2>1 DEF SendEnvelope, TypeOK, Request
<1>5. CASE PrepareRejected(r) \/ PsbtFailed(r) \/ PsbtReply(r) \/ AttachCas(r)
           \/ AttachLost(r)
  BY <1>5 DEF PrepareRejected, PsbtFailed, PsbtReply, AttachCas, AttachLost,
     Idle, TypeOK, Request
<1> QED
  BY <1>1, <1>2, <1>3, <1>4, <1>5, RequestMoves DEF RequestStep

\* Only an insert uses a fresh slot, and it uses the next one.
LEMMA FreshStep ==
  ASSUME MailInv, [Next]_vars
  PROVE  FreshOK'
<1> USE DEF MailInv
<1>0. nextId \in Nat
  BY BoundsAssumption DEF TypeOK
<1>1. CASE Inert \/ Removal
  BY <1>1 DEF Inert, Removal, FreshOK, Untold, workerVars
<1>2. CASE Insertion
  BY <1>0, <1>2 DEF Insertion, FreshOK, Untold, TypeOK, Ids
<1>3. CASE Attachment
  BY <1>3 DEF Attachment, FreshOK, Untold, TypeOK, NoRow
<1>4. CASE \E w \in Workers : Move(w)
  BY <1>4 DEF Move, SameButCounted, FreshOK, Untold, NoRow
<1>5. CASE \E w \in Workers : Settling(w)
  <2>1. PICK w \in Workers : Settling(w)
    BY <1>5
  <2> QED
    BY <2>1 DEF Settling, FreshOK, Untold, NoRow
<1>6. CASE \E w \in Workers : Emission(w)
  <2>1. PICK w \in Workers : Emission(w)
    BY <1>6
  <2>2. cur[w].id < nextId /\ cur[w].id \in Ids
    BY <2>1 DEF Emission, DispatchOK, Advancing, Snapshot
  <2>3. \A i \in Ids \ {cur[w].id} : mails'[i] = mails[i]
    BY <2>1 DEF Emission, TypeOK
  <2>4. \A i \in Ids : i >= nextId => i # cur[w].id
    BY <1>0, <2>2 DEF Ids
  <2> QED
    BY <2>1, <2>3, <2>4 DEF Emission, FreshOK, Untold
<1> QED
  BY <1>1, <1>2, <1>3, <1>4, <1>5, <1>6, StepKinds

\* A row keeps its payload, and is paid when it starts to wait.
LEMMA PaidStep ==
  ASSUME MailInv, [Next]_vars
  PROVE  PaidOK'
<1> USE DEF MailInv, PaidOK, Stored, Paid
<1>1. CASE Inert \/ Removal
  BY <1>1 DEF Inert, Removal, NoRow
<1>2. CASE Insertion
  BY <1>2 DEF Insertion, NewRow, NoRow, TypeOK
<1>3. CASE Attachment
  BY <1>3 DEF Attachment, TypeOK, Row
<1>4. CASE \E w \in Workers : Move(w)
  BY <1>4 DEF Move, SameButCounted
<1>5. CASE \E w \in Workers : Settling(w)
  <2>1. PICK w \in Workers : Settling(w)
    BY <1>5
  <2> QED
    BY <2>1 DEF Settling
<1>6. CASE \E w \in Workers : Emission(w)
  BY <1>6 DEF Emission
<1> QED
  BY <1>1, <1>2, <1>3, <1>4, <1>5, <1>6, StepKinds

\* A row that is not terminal has told nothing and has nobody at its hook.
LEMMA QuietStep ==
  ASSUME MailInv, [Next]_vars
  PROVE  QuietOK'
<1> USE DEF MailInv, QuietOK, Untold, Hooked
<1>1. CASE Inert \/ Removal
  BY <1>1 DEF Inert, Removal, NoRow, workerVars
<1>2. CASE Insertion
  <2>1. \A w \in Workers : pc[w] = "hook" => cur[w].id # nextId
    BY BoundsAssumption, <1>2 DEF Insertion, DispatchOK, Advancing, Snapshot, Ids
  <2>2. \A i \in Ids \ {nextId} : rows'[i] = rows[i]
    BY <1>2 DEF Insertion, TypeOK
  <2>3. nextId \in Ids /\ Untold(nextId)
    BY <1>2, BoundsAssumption DEF Insertion, FreshOK, Ids
  <2> QED
    BY <1>2, <2>1, <2>2, <2>3 DEF Insertion, workerVars
<1>3. CASE Attachment
  BY <1>3 DEF Attachment, TypeOK, workerVars
<1>4. CASE \E w \in Workers : Move(w)
  BY <1>4 DEF Move, SameButCounted, OthersStay
<1>5. CASE \E w \in Workers : Settling(w)
  <2>1. PICK w \in Workers : Settling(w)
    BY <1>5
  <2> QED
    BY <2>1 DEF Settling, OthersStay
<1>6. CASE \E w \in Workers : Emission(w)
  <2>1. PICK w \in Workers : Emission(w)
    BY <1>6
  <2>2. cur[w].id \in Ids
    BY <2>1 DEF Emission, DispatchOK, Advancing, Snapshot
  <2>3. \A i \in Ids \ {cur[w].id} : mails'[i] = mails[i]
    BY <2>1 DEF Emission, TypeOK
  <2>4. rows[cur[w].id].status \notin {"prepared", "awaiting_collateral"}
    BY <2>1 DEF Emission, HookOK
  <2> QED
    BY <2>1, <2>2, <2>3, <2>4 DEF Emission, OthersStay
<1> QED
  BY <1>1, <1>2, <1>3, <1>4, <1>5, <1>6, StepKinds

\* Who wins the compare-and-swap finds the hook of the row empty.
LEMMA HookStep ==
  ASSUME MailInv, [Next]_vars
  PROVE  HookOK'
<1> USE DEF MailInv, HookOK, Untold, Hooked
<1>0. \A w \in Workers : pc[w] = "hook" => cur[w].id \in Ids /\ cur[w].id < nextId
  BY DEF DispatchOK, Advancing, Snapshot
<1>1. CASE Inert \/ Removal
  BY <1>0, <1>1 DEF Inert, Removal, NoRow, workerVars
<1>2. CASE Insertion
  <2>1. \A i \in Ids \ {nextId} : rows'[i] = rows[i]
    BY <1>2 DEF Insertion, TypeOK
  <2>2. \A w \in Workers : pc[w] = "hook" => cur[w].id \in Ids \ {nextId}
    BY <1>0, <1>2, BoundsAssumption DEF Insertion, Ids
  <2> QED
    BY <1>2, <2>1, <2>2 DEF Insertion, workerVars
<1>3. CASE Attachment
  <2>1. PICK i \in Ids : /\ rows[i].status = "prepared"
                         /\ \A j \in Ids \ {i} : rows'[j] = rows[j]
    BY <1>3 DEF Attachment, TypeOK
  <2>2. \A w \in Workers : pc[w] = "hook" => cur[w].id \in Ids \ {i}
    BY <1>0, <2>1 DEF QuietOK
  <2> QED
    BY <1>3, <2>1, <2>2 DEF Attachment, workerVars
<1>4. CASE \E w \in Workers : Move(w)
  BY <1>0, <1>4 DEF Move, SameButCounted, OthersStay
<1>5. CASE \E w \in Workers : Settling(w)
  <2>1. PICK w \in Workers : Settling(w)
    BY <1>5
  <2> DEFINE i == cur[w].id
  <2>2. i \in Ids
    BY <2>1 DEF Settling
  <2>3. Untold(i) /\ \A v \in Workers : ~Hooked(v, i)
    BY <2>1, <2>2 DEF Settling, QuietOK
  <2>4. ASSUME NEW v \in Workers, pc'[v] = "hook", v # w
        PROVE  pc[v] = "hook" /\ cur'[v] = cur[v] /\ why'[v] = why[v]
               /\ cur[v].id \in Ids \ {i}
    BY <1>0, <2>1, <2>3, <2>4 DEF Settling, OthersStay
  <2> QED
    BY <2>1, <2>2, <2>3, <2>4 DEF Settling, OthersStay
<1>6. CASE \E w \in Workers : Emission(w)
  <2>1. PICK w \in Workers : Emission(w)
    BY <1>6
  <2>2. \A i \in Ids \ {cur[w].id} : mails'[i] = mails[i]
    BY <2>1 DEF Emission, TypeOK
  <2>3. \A v \in Workers : pc'[v] = "hook" =>
          pc[v] = "hook" /\ v # w /\ cur'[v] = cur[v] /\ why'[v] = why[v]
          /\ cur[v].id \in Ids \ {cur[w].id}
    BY <1>0, <2>1 DEF Emission, OthersStay
  <2> QED
    BY <2>1, <2>2, <2>3 DEF Emission
<1> QED
  BY <1>1, <1>2, <1>3, <1>4, <1>5, <1>6, StepKinds

\* Requests, users, the chain and the clock leave dispatchers and Core alone.
LEMMA NotWorker ==
  ASSUME [Next]_vars
  PROVE  (\E w \in Workers : WorkerStep(w)) \/ UNCHANGED <<workerVars, core>>
<1>1. CASE \E u \in Users : UserStep(u)
  BY <1>1 DEF UserStep, CreateDraft, DeleteDraft, DeleteAccount, PrepareStart, coreVars
<1>2. CASE \E i \in Ids : RowStep(i)
  BY <1>2 DEF RowStep, DeleteSubmission, CloneToDraft, PsbtStart, AttachRead, coreVars
<1>3. CASE \E r \in Requests : RequestStep(r)
  BY <1>3 DEF RequestStep, PrepareRejected, PrepareReplay, PrepareInsert,
     PrepareConflict, PsbtReply, PsbtFailed, AttachCas, AttachLost, coreVars
<1>4. CASE (\E t \in Txids : TxStep(t)) \/ ClockTick \/ UNCHANGED vars
  BY <1>4 DEF TxStep, TxSeen, TxConfirmed, TxDropped, ClockTick, vars,
     workerVars, coreVars
<1> QED
  BY <1>1, <1>2, <1>3, <1>4 DEF Next

\* Dispatchers go on working on paid rows with an outcome to record.
LEMMA DispatchStep ==
  ASSUME MailInv, [Next]_vars
  PROVE  DispatchOK'
<1> USE DEF MailInv
<1>0. nextId \in Nat /\ nextId' \in {nextId, nextId + 1}
  <2>1. nextId \in Nat
    BY BoundsAssumption DEF TypeOK
  <2> QED
    BY <2>1, StepKinds DEF Inert, Removal, Insertion, Attachment, Move, Settling,
       Emission
<1>1. ASSUME UNCHANGED workerVars
      PROVE  DispatchOK'
  <2>1. \A w \in Workers : /\ \A s \in todo[w] : s.id \in Nat
                           /\ Advancing(w) => cur[w].id \in Nat
    BY BoundsAssumption DEF TypeOK, DispatchOK, Snapshot, Ids
  <2> QED
    BY <1>0, <1>1, <2>1 DEF DispatchOK, Advancing, workerVars, Paid
<1>2. ASSUME NEW w \in Workers, OthersStay(w), nextId' = nextId,
             \A s \in todo'[w] : s.id < nextId /\ Paid(s.row),
             Advancing(w)' => /\ cur'[w] \in Snapshot
                             /\ cur'[w].id < nextId
                             /\ Paid(cur'[w].row),
             pc'[w] \in {"failRead", "failCas"} => why'[w] \in FailReason,
             pc'[w] = "hook" => why'[w] # "none"
      PROVE  DispatchOK'
  BY <1>2 DEF DispatchOK, OthersStay, Advancing, Paid
<1>3. ASSUME NEW w \in Workers, NextRow(w), UNCHANGED <<todo, nextId>>
      PROVE  DispatchOK'
  <2>1. OthersStay(w) /\ pc'[w] = "scan"
    BY <1>3 DEF NextRow, OthersStay, TypeOK
  <2> QED
    BY <1>2, <1>3, <2>1 DEF DispatchOK, Advancing
<1>4. ASSUME NEW w \in Workers, NEW where \in WorkerPC,
             NEW outcome \in FailReason \cup {"none", "submitted"},
             Goto(w, where, outcome), UNCHANGED <<todo, nextId>>, Advancing(w),
             where \in {"failRead", "failCas"} => outcome \in FailReason,
             where = "hook" => outcome # "none"
      PROVE  DispatchOK'
  <2>1. /\ OthersStay(w) /\ pc'[w] = where /\ why'[w] = outcome /\ cur' = cur
    BY <1>4, NotHook
  <2> QED
    BY <1>2, <1>4, <2>1 DEF DispatchOK, Advancing
<1>5. ASSUME NEW w \in Workers, WorkerStep(w)
      PROVE  DispatchOK'
  <2> USE <1>5 DEF tableVars, workerVars, coreVars
  <2>1. CASE TickStart(w)
    <3>1. \A s \in Awaiting : s.id < nextId /\ Paid(s.row)
      BY <1>0 DEF Awaiting, FreshOK, PaidOK, Stored, NoRow, Ids
    <3>2. OthersStay(w) /\ todo'[w] = Awaiting /\ pc'[w] = "scan" /\ nextId' = nextId
      BY <2>1 DEF TickStart, OthersStay, TypeOK
    <3> QED
      BY <1>2, <3>1, <3>2 DEF Advancing
  <2>2. CASE TickEnd(w) \/ Crash(w)
    <3>1. OthersStay(w) /\ pc'[w] = "idle" /\ nextId' = nextId
          /\ todo'[w] \subseteq todo[w]
      BY <2>2 DEF TickEnd, Crash, OthersStay, TypeOK
    <3> QED
      BY <1>2, <3>1 DEF Advancing, DispatchOK
  <2>3. CASE Advance(w)
    <3>1. PICK s \in todo[w] : /\ cur' = [cur EXCEPT ![w] = s]
                               /\ todo' = [todo EXCEPT ![w] = todo[w] \ {s}]
      BY <2>3 DEF Advance
    <3>2. pc' = [pc EXCEPT ![w] = "lookup"] /\ UNCHANGED <<why, nextId>>
      BY <2>3 DEF Advance
    <3>3. /\ OthersStay(w) /\ pc'[w] = "lookup" /\ cur'[w] = s
          /\ todo'[w] \subseteq todo[w] /\ s \in Snapshot
      BY <3>1, <3>2 DEF OthersStay, TypeOK
    <3> QED
      BY <1>2, <3>2, <3>3 DEF DispatchOK
  <2>4. CASE LookupUnknown(w) \/ LookupError(w) \/ SubmitError(w)
             \/ SubmitRejected(w) \/ HookNothing(w) \/ HookMail(w)
    BY <1>3, <1>4, <2>4 DEF LookupUnknown, LookupError, SubmitError,
       SubmitRejected, HookNothing, HookMail, Advancing, WorkerPC, FailReason
  <2>5. CASE LookupFound(w) \/ SubmitAccepted(w) \/ SubmitAnswerLost(w)
    BY <1>3, <1>4, <2>5 DEF LookupFound, SubmitAccepted, SubmitAnswerLost,
       Advancing, WorkerPC
  <2>6. CASE MarkSubmittedRead(w) \/ MarkSubmittedCas(w)
    BY <1>3, <1>4, <2>6 DEF MarkSubmittedRead, MarkSubmittedCas, Advancing,
       WorkerPC, FailReason
  <2>7. CASE MarkFailedRead(w) \/ MarkFailedCas(w)
    <3>1. why[w] \in FailReason /\ "none" \notin FailReason
      BY <2>7 DEF MarkFailedRead, MarkFailedCas, DispatchOK, FailReason, CoreReject
    <3> QED
      BY <1>3, <1>4, <2>7, <3>1 DEF MarkFailedRead, MarkFailedCas, Advancing,
         WorkerPC
  <2> QED
    BY <2>1, <2>2, <2>3, <2>4, <2>5, <2>6, <2>7 DEF WorkerStep
<1>6. CASE \E w \in Workers : WorkerStep(w)
  BY <1>5, <1>6
<1>7. CASE UNCHANGED workerVars
  BY <1>1, <1>7
<1>8. (\E w \in Workers : WorkerStep(w)) \/ UNCHANGED workerVars
  BY NotWorker
<1> QED
  BY <1>6, <1>7, <1>8

\* The mail invariant proper: an emission finds its row untold and terminal in
\* the way the mail says; nothing else touches a told row's status.
LEMMA MailStep ==
  ASSUME MailInv, [Next]_vars
  PROVE  EmitOnce' /\ MailTruthful'
<1> USE DEF MailInv, EmitOnce, MailTruthful, Untold
<1>1. CASE Inert \/ Removal
  BY <1>1 DEF Inert, Removal, NoRow
<1>2. CASE Insertion
  <2>1. \A i \in Ids \ {nextId} : rows'[i] = rows[i]
    BY <1>2 DEF Insertion, TypeOK
  <2>2. nextId \in Ids /\ Untold(nextId)
    BY <1>2, BoundsAssumption DEF Insertion, FreshOK, Ids
  <2> QED
    BY <1>2, <2>1, <2>2 DEF Insertion
<1>3. CASE Attachment
  <2>1. PICK i \in Ids : /\ rows[i].status = "prepared"
                         /\ \A j \in Ids \ {i} : rows'[j] = rows[j]
    BY <1>3 DEF Attachment, TypeOK
  <2>2. Untold(i)
    BY <2>1 DEF QuietOK
  <2> QED
    BY <1>3, <2>1, <2>2 DEF Attachment
<1>4. CASE \E w \in Workers : Move(w)
  BY <1>4 DEF Move, SameButCounted
<1>5. CASE \E w \in Workers : Settling(w)
  <2>1. PICK w \in Workers : Settling(w)
    BY <1>5
  <2>2. Untold(cur[w].id)
    BY <2>1 DEF Settling, QuietOK
  <2> QED
    BY <2>1, <2>2 DEF Settling
<1>6. CASE \E w \in Workers : Emission(w)
  <2>1. PICK w \in Workers : Emission(w)
    BY <1>6
  <2> DEFINE i == cur[w].id
             kind == IF why[w] = "submitted" THEN "submitted" ELSE "failed"
  <2>2. i \in Ids /\ Untold(i) /\ rows[i].status \in {kind, "none"}
    BY <2>1 DEF Emission, DispatchOK, Advancing, Snapshot, HookOK
  <2>3. mails' = [mails EXCEPT ![i][kind] = mails[i][kind] + 1] /\ rows' = rows
    BY <2>1 DEF Emission
  <2>4. \A j \in Ids \ {i} : mails'[j] = mails[j]
    BY <2>2, <2>3 DEF TypeOK
  <2>5. \/ kind = "submitted" /\ mails'[i].submitted = 1 /\ mails'[i].failed = 0
        \/ kind = "failed" /\ mails'[i].submitted = 0 /\ mails'[i].failed = 1
    BY <2>2, <2>3 DEF TypeOK
  <2>6. EmitOnce'
    <3> SUFFICES ASSUME NEW j \in Ids
                 PROVE  mails'[j].submitted + mails'[j].failed <= 1
      BY DEF EmitOnce
    <3>1. CASE j = i
      BY <3>1, <2>5
    <3>2. CASE j # i
      BY <3>2, <2>4 DEF EmitOnce
    <3> QED
      BY <3>1, <3>2
  <2>7. MailTruthful'
    <3> SUFFICES ASSUME NEW j \in Ids
                 PROVE  /\ mails'[j].submitted > 0
                             => rows'[j].status \in {"submitted", "none"}
                        /\ mails'[j].failed > 0
                             => rows'[j].status \in {"failed", "none"}
      BY DEF MailTruthful
    <3>1. CASE j = i
      BY <3>1, <2>2, <2>3, <2>5
    <3>2. CASE j # i
      BY <3>2, <2>3, <2>4 DEF MailTruthful
    <3> QED
      BY <3>1, <3>2
  <2> QED
    BY <2>6, <2>7
<1> QED
  BY <1>1, <1>2, <1>3, <1>4, <1>5, <1>6, StepKinds

\* Initially nothing was mailed and nobody is at a hook.
LEMMA MailInit == Init => MailInv
<1> SUFFICES ASSUME Init PROVE MailInv
  OBVIOUS
<1>1. TypeOK
  BY TypeInit
<1>2. CarriedOK /\ FreshOK /\ PaidOK
  BY DEF Init, CarriedOK, FreshOK, PaidOK, Stored, Idle, NoRow, Untold
<1>3. DispatchOK /\ QuietOK /\ HookOK
  BY DEF Init, DispatchOK, Advancing, QuietOK, HookOK, NoRow
<1>4. EmitOnce /\ MailTruthful
  BY DEF Init, EmitOnce, MailTruthful
<1> QED
  BY <1>1, <1>2, <1>3, <1>4 DEF MailInv

LEMMA MailNext == MailInv /\ [Next]_vars => MailInv'
BY TypeStep, CarriedStep, FreshStep, PaidStep, DispatchStep, QuietStep,
   HookStep, MailStep DEF MailInv

\* The notification invariant is inductive: at most one dispatcher stands at
\* the hook of a row, and only after it moved the row to the status it tells.
THEOREM MailInvariant == Spec => []MailInv
BY MailInit, MailNext, PTL DEF Spec

\* Type correctness of the pipeline.
THEOREM TypeCorrect == Spec => []TypeOK
<1>1. MailInv => TypeOK
  BY DEF MailInv
<1> QED
  BY MailInvariant, <1>1, PTL

\* However many dispatchers share the database, and wherever they crash, the
\* user is told the outcome of a submission at most once ...
THEOREM EmitOnceAlways == Spec => []EmitOnce
<1>1. MailInv => EmitOnce
  BY DEF MailInv
<1> QED
  BY MailInvariant, <1>1, PTL

\* ... and what the user was told is what the row says for as long as it exists.
THEOREM MailTruthfulAlways == Spec => []MailTruthful
<1>1. MailInv => MailTruthful
  BY DEF MailInv
<1> QED
  BY MailInvariant, <1>1, PTL

-----------------------------------------------------------------------------
(* What a step can do to one row.                                          *)

SameIdentity(i) == Hash(rows'[i]) = Hash(rows[i]) /\ rows'[i].owner = rows[i].owner

Dropped(i) ==
  /\ rows'[i] = NoRow
  /\ rows[i].status \in {"prepared", "failed"} \/ rows[i].owner \notin accounts'

Created(i) ==
  /\ i = nextId
  /\ \E r \in Requests : PrepareInsert(r) /\ rows'[i] = NewRow(req[r])

Attached(i) ==
  /\ rows[i].status = "prepared" /\ rows'[i].status = "awaiting_collateral"
  /\ \E r \in Requests : /\ req[r].txid \in Txids /\ ~TxidTaken(req[r].txid)
                         /\ rows'[i].txid = req[r].txid
  /\ rows'[i].reason = rows[i].reason
  /\ \A j \in Ids \ {i} : rows'[j] = rows[j]

Counted(i) ==
  /\ rows'[i].status = rows[i].status /\ rows'[i].txid = rows[i].txid
  /\ rows'[i].gov = rows[i].gov /\ rows'[i].reason = rows[i].reason

Published(i) ==
  /\ rows[i].status = "awaiting_collateral" /\ rows'[i].status = "submitted"
  /\ rows'[i].txid = rows[i].txid /\ rows'[i].reason = rows[i].reason
  /\ \E w \in Workers : pc[w] = "submitCas" /\ pc'[w] = "hook" /\ cur[w].id = i

GivenUp(i) ==
  /\ rows[i].status \in {"prepared", "awaiting_collateral"} /\ rows'[i].status = "failed"
  /\ rows'[i].txid = rows[i].txid
  /\ \E w \in Workers : /\ pc[w] = "failCas" /\ pc'[w] = "hook" /\ cur[w].id = i
                        /\ why[w] \in FailReason /\ rows'[i].reason = why[w]

\* The steps that change the table of submissions, and what each makes of a
\* row: every other field of the row is as it was.
LEMMA RowSteps ==
  ASSUME TypeOK, CarriedOK, DispatchOK, [Next]_vars, NEW i \in Ids
  PROVE  \/ rows'[i] = rows[i] \/ Dropped(i) \/ Created(i)
         \/ SameIdentity(i) /\ (Attached(i) \/ Counted(i) \/ Published(i) \/ GivenUp(i))
<1>0. rows \in [Ids -> Row] /\ rows[i] \in Row
  BY DEF TypeOK
<1>1. CASE UNCHANGED vars
  BY <1>1 DEF vars
<1>2. CASE \E u \in Users : UserStep(u)
  <2>1. PICK u \in Users : UserStep(u)
    BY <1>2
  <2>2. CASE DeleteAccount(u)
    BY <1>0, <2>2 DEF DeleteAccount, Dropped
  <2> QED
    BY <2>1, <2>2 DEF UserStep, CreateDraft, DeleteDraft, PrepareStart, tableVars
<1>3. CASE \E j \in Ids : RowStep(j)
  <2>1. PICK j \in Ids : RowStep(j)
    BY <1>3
  <2>2. CASE DeleteSubmission(j) \/ CloneToDraft(j)
    BY <1>0, <2>2 DEF DeleteSubmission, CloneToDraft, Dropped
  <2> QED
    BY <2>1, <2>2 DEF RowStep, PsbtStart, AttachRead, tableVars
<1>4. CASE \E r \in Requests : RequestStep(r)
  <2>1. PICK r \in Requests : RequestStep(r)
    BY <1>4
  <2>2. CASE PrepareInsert(r)
    BY <1>0, <2>2 DEF PrepareInsert, Created
  <2>3. CASE AttachCas(r) /\ i = req[r].id
    <3> DEFINE t == req[r].txid
    <3>1. /\ t \in Txids /\ ~TxidTaken(t) /\ rows[i].status = "prepared"
          /\ rows' = [rows EXCEPT ![i] = [rows[i] EXCEPT !.status = "awaiting_collateral",
                                                         !.txid = t, !.updated = now]]
      BY <2>3 DEF AttachCas, CarriedOK, TxidClash
    <3> HIDE DEF t
    <3>2. /\ rows'[i].status = "awaiting_collateral" /\ rows'[i].txid = t
          /\ rows'[i].reason = rows[i].reason /\ SameIdentity(i)
      BY <1>0, <3>1 DEF Row, SameIdentity, Hash
    <3>3. \A j \in Ids \ {i} : rows'[j] = rows[j]
      BY <1>0, <3>1
    <3> QED
      BY <3>1, <3>2, <3>3 DEF Attached, t
  <2>4. CASE AttachCas(r) /\ i # req[r].id
    BY <1>0, <2>4 DEF AttachCas
  <2> QED
    BY <2>1, <2>2, <2>3, <2>4 DEF RequestStep, PrepareRejected, PrepareReplay,
       PrepareConflict, PsbtReply, PsbtFailed, AttachLost, tableVars
<1>5. CASE \E w \in Workers : WorkerStep(w)
  <2>1. PICK w \in Workers : WorkerStep(w)
    BY <1>5
  <2>2. CASE LookupFound(w)
    <3>1. rows'[i] = rows[i]
          \/ rows'[i] = [rows[i] EXCEPT !.confs = chain[cur[w].row.txid], !.updated = now]
      BY <1>0, <2>2 DEF LookupFound
    <3> QED
      BY <1>0, <3>1 DEF Row, SameIdentity, Hash, Counted
  <2>3. CASE MarkSubmittedCas(w)
    <3> DEFINE h == Hash(cur[w].row)
    <3>1. \/ rows' = rows
          \/ /\ rows[cur[w].id].status = "awaiting_collateral"
             /\ rows' = [rows EXCEPT ![cur[w].id] = [rows[cur[w].id] EXCEPT
                            !.status = "submitted", !.gov = h, !.updated = now]]
             /\ pc' = [pc EXCEPT ![w] = "hook"]
      BY <2>3 DEF MarkSubmittedCas, Goto
    <3> HIDE DEF h
    <3>2. CASE cur[w].id = i /\ rows' # rows
      <4>0. rows'[i] = [rows[i] EXCEPT !.status = "submitted", !.gov = h, !.updated = now]
        BY <1>0, <3>1, <3>2
      <4>1. /\ rows'[i].status = "submitted" /\ rows'[i].txid = rows[i].txid
            /\ rows'[i].reason = rows[i].reason /\ SameIdentity(i)
        BY <1>0, <4>0 DEF Row, SameIdentity, Hash
      <4>2. pc[w] = "submitCas" /\ pc'[w] = "hook"
        BY <2>3, <3>1, <3>2 DEF MarkSubmittedCas, TypeOK
      <4> QED
        BY <3>1, <3>2, <4>1, <4>2 DEF Published
    <3> QED
      BY <1>0, <3>1, <3>2
  <2>4. CASE MarkFailedCas(w)
    <3>1. \/ rows' = rows
          \/ /\ ~Settled(rows[cur[w].id].status)
             /\ rows' = [rows EXCEPT ![cur[w].id] = [rows[cur[w].id] EXCEPT
                            !.status = "failed", !.reason = why[w], !.updated = now]]
             /\ pc' = [pc EXCEPT ![w] = "hook"]
      BY <2>4 DEF MarkFailedCas, Goto
    <3>2. CASE cur[w].id = i /\ rows' # rows
      <4>0. rows'[i] = [rows[i] EXCEPT !.status = "failed", !.reason = why[w], !.updated = now]
        BY <1>0, <3>1, <3>2
      <4>1. /\ rows'[i].status = "failed" /\ rows'[i].txid = rows[i].txid
            /\ rows'[i].reason = why[w] /\ SameIdentity(i)
        BY <1>0, <4>0 DEF Row, SameIdentity, Hash
      <4>2. rows[i].status \in {"prepared", "awaiting_collateral"}
        BY <1>0, <3>1, <3>2 DEF Row, Status, Settled, Terminal
      <4>3. pc[w] = "failCas" /\ pc'[w] = "hook" /\ why[w] \in FailReason
        BY <2>4, <3>1, <3>2 DEF MarkFailedCas, TypeOK, DispatchOK
      <4> QED
        BY <3>2, <4>1, <4>2, <4>3 DEF GivenUp
    <3> QED
      BY <1>0, <3>1, <3>2
  <2> QED
    BY <2>1, <2>2, <2>3, <2>4 DEF WorkerStep, TickStart, TickEnd, Advance,
       LookupUnknown, LookupError, SubmitAccepted, SubmitAnswerLost, SubmitError,
       SubmitRejected, MarkSubmittedRead, MarkFailedRead, HookMail, HookNothing,
       Crash, tableVars
<1>6. CASE (\E t \in Txids : TxStep(t)) \/ ClockTick
  BY <1>6 DEF TxStep, TxSeen, TxConfirmed, TxDropped, ClockTick, tableVars
<1> QED
  BY <1>1, <1>2, <1>3, <1>4, <1>5, <1>6 DEF Next

-----------------------------------------------------------------------------
(* RowsInv: one prepared row per user and payload, quoted as it is stored. *)

LEMMA UnpaidStep ==
  ASSUME MailInv, UnpaidOK, [Next]_vars
  PROVE  UnpaidOK'
<1> SUFFICES ASSUME NEW i \in Ids, rows'[i].status = "prepared" PROVE rows'[i].txid = None
  BY DEF UnpaidOK
<1>1. CASE Created(i)
  BY <1>1 DEF Created, NewRow, NoRow
<1>2. ~Dropped(i)
  BY DEF Dropped, NoRow
<1> QED
  BY <1>1, <1>2, RowSteps
  DEF MailInv, UnpaidOK, Attached, Counted, Published, GivenUp

\* A second prepared row would have been inserted next to the first.
LEMMA PreparedStep ==
  ASSUME MailInv, PreparedOnce, [Next]_vars
  PROVE  PreparedOnce'
<1> SUFFICES ASSUME NEW u \in Users, NEW p \in Payloads, NEW i \in Ids, NEW j \in Ids,
                    {i, j} \subseteq PreparedFor(u, p)'
             PROVE  i = j
  BY DEF PreparedOnce
<1> DEFINE Inserted(k) == k = nextId /\ PreparedFor(u, p) = {}
<1>1. ASSUME NEW k \in Ids, rows'[k].status = "prepared", rows'[k].owner = u,
             rows'[k].payload = p
      PROVE  k \in PreparedFor(u, p) \/ Inserted(k)
  <2>1. CASE Created(k)
    <3>1. PICK r \in Requests : PrepareInsert(r) /\ rows'[k] = NewRow(req[r])
      BY <2>1 DEF Created
    <3>2. req[r].user = u /\ req[r].payload = p
      BY <1>1, <3>1 DEF NewRow, NoRow
    <3> QED
      BY <2>1, <3>1, <3>2 DEF Created, PrepareInsert, PreparedClash
  <2>2. ~Dropped(k)
    BY <1>1 DEF Dropped, NoRow
  <2>3. CASE SameIdentity(k) /\ Counted(k)
    BY <1>1, <2>3 DEF SameIdentity, Counted, Hash, PreparedFor
  <2>4. CASE rows'[k] = rows[k]
    BY <1>1, <2>4 DEF PreparedFor
  <2> QED
    BY <1>1, <2>1, <2>2, <2>3, <2>4, RowSteps DEF MailInv, Attached, Published, GivenUp
<1>2. /\ i \in PreparedFor(u, p) \/ Inserted(i)
      /\ j \in PreparedFor(u, p) \/ Inserted(j)
  BY <1>1 DEF PreparedFor
<1> QED
  BY <1>2 DEF PreparedOnce

\* Where an answer of /prepare comes from: an earlier read of the same request,
\* a row that is there, or the row that is inserted.
LEMMA QuoteSource ==
  ASSUME TypeOK, [Next]_vars, NEW r \in Requests, Quotes(req'[r])
  PROVE  \/ /\ Quotes(req[r]) /\ req'[r].id = req[r].id
            /\ req'[r].payload = req[r].payload /\ req'[r].time = req[r].time
         \/ /\ rows' = rows /\ req'[r].id \in Stored
            /\ Hash(rows[req'[r].id]) = <<req'[r].payload, req'[r].time>>
         \/ /\ PrepareInsert(r) /\ req'[r].id = nextId
            /\ req'[r].payload = req[r].payload /\ req'[r].time = req[r].time
<1>0. req \in [Requests -> Request] /\ req[r] \in Request
  BY DEF TypeOK
<1>1. CASE req'[r] = req[r]
  BY <1>1
<1>2. ASSUME NEW u \in Users, NEW p \in Payloads, PrepareStart(r, u, p)
      PROVE  /\ rows' = rows /\ req'[r].id \in Stored
             /\ Hash(rows[req'[r].id]) = <<req'[r].payload, req'[r].time>>
  <2>1. ASSUME NEW i \in Ids \cup {0}, NEW t \in Times, req' = [req EXCEPT ![r] = Asked(u, p, i, t)]
        PROVE  /\ req'[r].id = i /\ req'[r].payload = p /\ req'[r].time = t
               /\ req'[r].op = "check"
    BY <1>0, <2>1 DEF Asked
  <2>2. now \in Times /\ \A i \in Ids : rows[i].time \in Times
    BY DEF TypeOK, Row
  <2>3. \E i \in PreparedFor(u, p) : req' = [req EXCEPT ![r] = Asked(u, p, i, rows[i].time)]
    <3>1. req' # [req EXCEPT ![r] = Asked(u, p, 0, now)]
      BY <2>1, <2>2 DEF Quotes
    <3> QED
      BY <1>2, <3>1 DEF PrepareStart
  <2>4. PICK i \in PreparedFor(u, p) : req' = [req EXCEPT ![r] = Asked(u, p, i, rows[i].time)]
    BY <2>3
  <2>5. i \in Stored /\ rows[i].payload = p
    BY <2>4 DEF PreparedFor, Stored
  <2>6. req'[r].id = i /\ req'[r].payload = p /\ req'[r].time = rows[i].time
    BY <2>1, <2>2, <2>4 DEF PreparedFor
  <2> QED
    BY <1>2, <2>5, <2>6 DEF PrepareStart, tableVars, Hash
<1>3. ASSUME NEW i \in Ids \cup {nextId}, NEW t \in Times, SendEnvelope(r, i, t)
      PROVE  req'[r].id = i /\ req'[r].time = t /\ req'[r].payload = req[r].payload
  BY <1>0, <1>3 DEF SendEnvelope, Request
<1>4. CASE PrepareReplay(r)
  <2>1. PICK e : /\ e = [req[r] EXCEPT !.op = "envelope", !.id = req[r].id, !.time = req[r].time]
                 /\ req' = [req EXCEPT ![r] = e]
    BY <1>4 DEF PrepareReplay, SendEnvelope
  <2>2. req'[r] = e /\ e.id = req[r].id /\ e.payload = req[r].payload /\ e.time = req[r].time
    BY <1>0, <2>1 DEF Request
  <2> QED
    BY <1>4, <2>2 DEF PrepareReplay, Quotes
<1>5. CASE PrepareConflict(r)
  <2>1. PICK i \in PreparedFor(req[r].user, req[r].payload) : SendEnvelope(r, i, rows[i].time)
    BY <1>5 DEF PrepareConflict
  <2>2. i \in Ids /\ rows[i].time \in Times /\ rows[i].status = "prepared"
        /\ rows[i].payload = req[r].payload
    BY <2>1 DEF PreparedFor, TypeOK, Row
  <2> QED
    BY <1>3, <1>5, <2>1, <2>2 DEF PrepareConflict, tableVars, Stored, Hash
<1>6. CASE PrepareInsert(r)
  <2>1. SendEnvelope(r, nextId, req[r].time) /\ req[r].time \in Times
    BY <1>0, <1>6 DEF PrepareInsert, Request
  <2> QED
    BY <1>3, <1>6, <2>1
<1>7. CASE \/ \E i \in Ids : PsbtStart(r, i)
           \/ \E i \in Ids, t \in Txids : AttachRead(r, i, t)
  BY <1>0, <1>7 DEF PsbtStart, AttachRead, Carry, Idle, Quotes
<1>8. CASE PrepareRejected(r) \/ PsbtReply(r) \/ PsbtFailed(r) \/ AttachCas(r) \/ AttachLost(r)
  BY <1>0, <1>8 DEF PrepareRejected, PsbtReply, PsbtFailed, AttachCas, AttachLost,
     Idle, Quotes, Request
<1> QED
  BY <1>1, <1>2, <1>4, <1>5, <1>6, <1>7, <1>8, RequestMoves DEF RequestStep

\* A row that is stored in its slot before and after keeps its identity, and a
\* slot in use is not used again.
LEMMA StoredKeeps ==
  ASSUME MailInv, [Next]_vars, NEW i \in Ids, i < nextId, i \in Stored'
  PROVE  i \in Stored /\ Hash(rows'[i]) = Hash(rows[i]) /\ rows'[i].owner = rows[i].owner
<1>1. ~Created(i) /\ ~Dropped(i)
  BY BoundsAssumption DEF MailInv, TypeOK, Created, Dropped, NoRow, Stored, Ids
<1> QED
  BY <1>1, RowSteps
  DEF MailInv, SameIdentity, Attached, Counted, Published, GivenUp, Stored

LEMMA NextIdGrows ==
  ASSUME MailInv, [Next]_vars
  PROVE  nextId \in Nat /\ nextId' \in {nextId, nextId + 1}
<1>1. nextId \in Nat
  BY BoundsAssumption DEF MailInv, TypeOK
<1> QED
  BY <1>1, StepKinds
  DEF MailInv, Inert, Removal, Insertion, Attachment, Move, Settling, Emission

LEMMA QuotedStep ==
  ASSUME MailInv, QuotedOK, [Next]_vars
  PROVE  QuotedOK'
<1> SUFFICES ASSUME NEW r \in Requests, Quotes(req'[r])
    PROVE  /\ req'[r].id \in Ids /\ req'[r].id < nextId'
           /\ req'[r].id \in Stored' =>
                Hash(rows'[req'[r].id]) = <<req'[r].payload, req'[r].time>>
  BY DEF QuotedOK
<1> DEFINE i == req'[r].id
<1>0. nextId \in Nat /\ nextId' \in {nextId, nextId + 1} /\ \A k \in Ids : k \in Nat
  BY NextIdGrows, BoundsAssumption DEF Ids
<1>1. CASE /\ Quotes(req[r]) /\ i = req[r].id
           /\ req'[r].payload = req[r].payload /\ req'[r].time = req[r].time
  <2>1. i \in Ids /\ i < nextId
        /\ (i \in Stored => Hash(rows[i]) = <<req[r].payload, req[r].time>>)
    BY <1>1 DEF QuotedOK
  <2> QED
    BY <1>0, <1>1, <2>1, StoredKeeps
<1>2. CASE /\ rows' = rows /\ i \in Stored
           /\ Hash(rows[i]) = <<req'[r].payload, req'[r].time>>
  <2>1. i \in Ids /\ i < nextId
    BY <1>0, <1>2 DEF MailInv, FreshOK, Stored, NoRow
  <2> QED
    BY <1>0, <1>2, <2>1
<1>3. CASE /\ PrepareInsert(r) /\ i = nextId
           /\ req'[r].payload = req[r].payload /\ req'[r].time = req[r].time
  <2>1. i \in Ids /\ rows'[i] = NewRow(req[r]) /\ nextId' = nextId + 1
    BY <1>3 DEF MailInv, TypeOK, PrepareInsert
  <2> QED
    BY <1>0, <1>3, <2>1 DEF NewRow, NoRow, Hash
<1> QED
  BY <1>1, <1>2, <1>3, QuoteSource DEF MailInv

LEMMA RowsInit == Init => RowsInv
  BY MailInit DEF Init, RowsInv, UnpaidOK, PreparedOnce, PreparedFor, QuotedOK, Quotes,
     NoRow, Idle

LEMMA RowsStep == RowsInv /\ [Next]_vars => RowsInv'
BY MailNext, UnpaidStep, PreparedStep, QuotedStep DEF RowsInv

\* The rows that handlers insert, replay, pay and clone between their awaits.
THEOREM RowsInvariant == Spec => []RowsInv
BY RowsInit, RowsStep, PTL DEF Spec

\* POST /prepare awaits gobject_check between its read and its insert, yet
\* concurrent requests never leave two prepared rows of one payload ...
THEOREM PreparedOnceAlways == Spec => []PreparedOnce
<1>1. RowsInv => PreparedOnce
  BY DEF RowsInv
<1> QED
  BY RowsInvariant, <1>1, PTL

\* ... and the hash a client is told to commit to is that of the row it was
\* given, as long as the row exists.
THEOREM EnvelopeMatchesRowAlways == Spec => []EnvelopeMatchesRow
<1>1. RowsInv => EnvelopeMatchesRow
  BY DEF RowsInv, QuotedOK, Quotes, EnvelopeMatchesRow
<1> QED
  BY RowsInvariant, <1>1, PTL

\* No step of a route, a dispatcher or a deletion changes what the collateral
\* commits to, replaces a collateral or takes another row's, reopens a terminal
\* row, or drops a row in flight while its account exists.
THEOREM FrozenAndTerminalAlways == Spec => FrozenAndTerminal
<1>1. RowsInv /\ [Next]_vars => [\A i \in Stored : LegalRowChange(i)]_vars
  <2> SUFFICES ASSUME RowsInv, [Next]_vars, NEW i \in Stored PROVE LegalRowChange(i)
    OBVIOUS
  <2>1. i \in Ids /\ rows[i].status # "none"
    BY DEF Stored
  <2>2. ~Created(i)
    BY <2>1, BoundsAssumption DEF RowsInv, MailInv, TypeOK, FreshOK, Created, NoRow, Ids
  <2>3. CASE rows'[i] = rows[i]
    BY <2>1, <2>3 DEF LegalRowChange
  <2>4. CASE Dropped(i)
    BY <2>4 DEF LegalRowChange, Dropped, NoRow
  <2>5. CASE SameIdentity(i) /\ Attached(i)
    <3>1. \A j \in Ids \ {i} : rows'[j].txid # rows'[i].txid
      BY <2>5 DEF Attached, TxidTaken
    <3> QED
      BY <2>1, <2>5, <3>1 DEF LegalRowChange, SameIdentity, Attached, RowsInv, UnpaidOK, Terminal
  <2>6. CASE SameIdentity(i) /\ Counted(i)
    BY <2>1, <2>6 DEF LegalRowChange, SameIdentity, Counted
  <2>7. CASE SameIdentity(i) /\ (Published(i) \/ GivenUp(i))
    BY <2>7 DEF LegalRowChange, SameIdentity, Published, GivenUp, Terminal
  <2> QED
    BY <2>1, <2>2, <2>3, <2>4, <2>5, <2>6, <2>7, RowSteps DEF RowsInv, MailInv
<1> QED
  BY <1>1, RowsInvariant, PTL DEF Spec, FrozenAndTerminal

-----------------------------------------------------------------------------
(* LiveInv: what one dispatcher gives up is not live on Core.              *)

OneDispatcher == \A v, w \in Workers : v = w

\* What a step does to the rows a dispatcher has taken on.
LEMMA TakenMoves ==
  ASSUME TypeOK, [Next]_vars, NEW w \in Workers
  PROVE  \/ todo'[w] = Awaiting /\ ~Advancing(w)' /\ rows' = rows
         \/ /\ todo'[w] \subseteq todo[w]
            /\ \/ ~Advancing(w)'
               \/ /\ Advancing(w) /\ cur'[w] = cur[w] /\ todo'[w] = todo[w]
                  /\ pc[w] = "hook" => pc'[w] = "hook"
               \/ /\ cur'[w] \in todo[w] /\ todo'[w] = todo[w] \ {cur'[w]}
                  /\ ~Advancing(w) /\ pc'[w] = "lookup"
<1> USE DEF tableVars, workerVars, coreVars
<1>0. /\ pc \in [Workers -> WorkerPC] /\ DOMAIN cur = Workers
      /\ DOMAIN todo = Workers
  BY DEF TypeOK
<1>1. CASE pc'[w] = pc[w] /\ cur'[w] = cur[w] /\ todo'[w] = todo[w]
  BY <1>1 DEF Advancing
<1>2. CASE TickStart(w)
  BY <1>0, <1>2 DEF TickStart, Advancing
<1>3. CASE TickEnd(w) \/ Crash(w)
  BY <1>0, <1>3 DEF TickEnd, Crash, Advancing
<1>4. CASE Advance(w)
  BY <1>0, <1>4 DEF Advance, Advancing
<1>5. ASSUME Advancing(w), todo' = todo,
             NextRow(w) \/ \E where, outcome : pc[w] # "hook" /\ Goto(w, where, outcome)
      PROVE  \/ ~Advancing(w)'
             \/ /\ Advancing(w) /\ cur'[w] = cur[w] /\ todo'[w] = todo[w]
                /\ pc[w] = "hook" => pc'[w] = "hook"
  BY <1>0, <1>5 DEF NextRow, Goto, Advancing
<1>6. CASE LookupUnknown(w) \/ LookupError(w) \/ LookupFound(w)
           \/ SubmitAccepted(w) \/ SubmitAnswerLost(w) \/ SubmitError(w)
           \/ SubmitRejected(w)
  BY <1>5, <1>6 DEF LookupUnknown, LookupError, LookupFound, SubmitAccepted,
     SubmitAnswerLost, SubmitError, SubmitRejected, Advancing
<1>7. CASE MarkSubmittedRead(w) \/ MarkSubmittedCas(w) \/ MarkFailedRead(w)
           \/ MarkFailedCas(w) \/ HookMail(w) \/ HookNothing(w)
  BY <1>5, <1>7 DEF MarkSubmittedRead, MarkSubmittedCas, MarkFailedRead,
     MarkFailedCas, HookMail, HookNothing, Advancing
<1>8. ASSUME NEW v \in Workers, WorkerStep(v), v # w
      PROVE  pc'[w] = pc[w] /\ cur'[w] = cur[w] /\ todo'[w] = todo[w]
  <2>1. CASE TickStart(v) \/ TickEnd(v) \/ Crash(v) \/ Advance(v)
    BY <1>0, <1>8, <2>1 DEF TickStart, TickEnd, Crash, Advance
  <2>2. CASE LookupUnknown(v) \/ LookupError(v) \/ LookupFound(v)
             \/ SubmitAccepted(v) \/ SubmitAnswerLost(v) \/ SubmitError(v)
             \/ SubmitRejected(v)
    BY <1>0, <1>8, <2>2 DEF LookupUnknown, LookupError, LookupFound, SubmitAccepted,
       SubmitAnswerLost, SubmitError, SubmitRejected, NextRow, Goto
  <2>3. CASE MarkSubmittedRead(v) \/ MarkSubmittedCas(v) \/ MarkFailedRead(v)
             \/ MarkFailedCas(v) \/ HookMail(v) \/ HookNothing(v)
    BY <1>0, <1>8, <2>3 DEF MarkSubmittedRead, MarkSubmittedCas, MarkFailedRead,
       MarkFailedCas, HookMail, HookNothing, NextRow, Goto
  <2> QED
    BY <1>8, <2>1, <2>2, <2>3 DEF WorkerStep
<1>9. (\E v \in Workers : WorkerStep(v)) \/ UNCHANGED workerVars
  BY NotWorker
<1> QED
  BY <1>1, <1>2, <1>3, <1>4, <1>6, <1>7, <1>8, <1>9 DEF WorkerStep

\* Who starts to submit has just seen the collateral confirmed for good.
LEMMA SubmitMoves ==
  ASSUME TypeOK, [Next]_vars, NEW w \in Workers, pc'[w] = "submit"
  PROVE  /\ cur'[w] = cur[w]
         /\ \/ pc[w] = "submit"
            \/ /\ pc[w] = "lookup" /\ chain' = chain
               /\ chain[cur[w].row.txid] # Unknown
               /\ ~(chain[cur[w].row.txid] < Required)
<1> USE DEF tableVars, workerVars, coreVars
<1>0. pc \in [Workers -> WorkerPC]
  BY DEF TypeOK
<1>1. ASSUME NEW v \in Workers, NextRow(v) \/ \E where, outcome : where # "submit" /\ Goto(v, where, outcome)
      PROVE  pc[w] = "submit" /\ cur'[w] = cur[w]
  BY <1>0, <1>1 DEF NextRow, Goto, TypeOK
<1>2. ASSUME NEW v \in Workers,
             TickStart(v) \/ TickEnd(v) \/ Advance(v) \/ Crash(v)
      PROVE  pc[w] = "submit" /\ cur'[w] = cur[w]
  BY <1>0, <1>2 DEF TickStart, TickEnd, Advance, Crash, TypeOK
<1>3. ASSUME NEW v \in Workers,
             LookupUnknown(v) \/ LookupError(v) \/ SubmitAccepted(v) \/ SubmitAnswerLost(v)
             \/ SubmitError(v) \/ SubmitRejected(v) \/ MarkSubmittedRead(v)
             \/ MarkSubmittedCas(v) \/ MarkFailedRead(v) \/ MarkFailedCas(v)
             \/ HookMail(v) \/ HookNothing(v)
      PROVE  pc[w] = "submit" /\ cur'[w] = cur[w]
  BY <1>1, <1>3 DEF LookupUnknown, LookupError, SubmitAccepted, SubmitAnswerLost,
     SubmitError, SubmitRejected, MarkSubmittedRead, MarkSubmittedCas,
     MarkFailedRead, MarkFailedCas, HookMail, HookNothing
<1>4. ASSUME NEW v \in Workers, LookupFound(v), pc[w] # "submit"
      PROVE  /\ cur'[w] = cur[w] /\ pc[w] = "lookup" /\ chain' = chain
             /\ chain[cur[w].row.txid] # Unknown
             /\ ~(chain[cur[w].row.txid] < Required)
  <2>1. ~(chain[cur[v].row.txid] < Required) /\ Goto(v, "submit", "none")
    BY <1>1, <1>4 DEF LookupFound
  <2>2. v = w /\ cur'[w] = cur[w]
    BY <1>0, <1>4, <2>1 DEF Goto
  <2> QED
    BY <1>4, <2>1, <2>2 DEF LookupFound
<1>5. CASE UNCHANGED workerVars
  BY <1>5
<1>6. ASSUME NEW v \in Workers, LookupFound(v), pc[w] = "submit" PROVE cur'[w] = cur[w]
  <2>1. NextRow(v) \/ \E where, outcome : Goto(v, where, outcome)
    BY <1>6 DEF LookupFound
  <2> QED
    BY <1>6, <2>1 DEF LookupFound, NextRow, Goto, TypeOK
<1> QED
  BY <1>2, <1>3, <1>4, <1>5, <1>6, NotWorker DEF WorkerStep

\* Core takes a collateral only from a dispatcher that submits it.
LEMMA CoreMoves ==
  ASSUME TypeOK, [Next]_vars, core' # core
  PROVE  \E w \in Workers :
           /\ pc[w] = "submit" /\ pc'[w] # "hook" /\ chain' = chain /\ rows' = rows
           /\ pc'[w] \notin {"failRead", "failCas"}
           /\ core' = [core EXCEPT ![Hash(cur[w].row)] = cur[w].row.txid]
<1> USE DEF tableVars, workerVars, coreVars
<1>1. PICK w \in Workers : WorkerStep(w)
  BY NotWorker
<1>2. CASE SubmitAccepted(w) \/ SubmitAnswerLost(w)
  <2>1. pc'[w] \in {"submitRead", "scan"}
    BY <1>2 DEF SubmitAccepted, SubmitAnswerLost, NextRow, Goto, TypeOK
  <2> QED
    BY <1>2, <2>1 DEF SubmitAccepted, SubmitAnswerLost
<1> QED
  BY <1>1, <1>2 DEF WorkerStep, TickStart, TickEnd, Advance, LookupUnknown,
     LookupError, LookupFound, SubmitError, SubmitRejected, MarkSubmittedRead,
     MarkSubmittedCas, MarkFailedRead, MarkFailedCas, HookMail, HookNothing, Crash

\* A transaction that is confirmed for good stays so.
LEMMA ChainMoves ==
  ASSUME TypeOK, [Next]_vars, NEW t \in Txids, chain[t] = Required
  PROVE  chain'[t] = Required
<1>0. chain \in [Txids -> 0..Unknown] /\ Required \in Nat /\ Unknown = Required + 1
  BY BoundsAssumption DEF TypeOK, Unknown
<1>1. ASSUME NEW u \in Txids, TxStep(u) PROVE chain'[t] = Required
  BY <1>0, <1>1 DEF TxStep, TxSeen, TxConfirmed, TxDropped
<1>2. CASE \E u \in Users : UserStep(u)
  BY <1>2 DEF UserStep, CreateDraft, DeleteDraft, DeleteAccount, PrepareStart, coreVars
<1>3. CASE \E i \in Ids : RowStep(i)
  BY <1>3 DEF RowStep, DeleteSubmission, CloneToDraft, PsbtStart, AttachRead, coreVars
<1>4. CASE \E r \in Requests : RequestStep(r)
  BY <1>4 DEF RequestStep, PrepareRejected, PrepareReplay, PrepareInsert,
     PrepareConflict, PsbtReply, PsbtFailed, AttachCas, AttachLost, coreVars
<1>5. CASE \E w \in Workers : WorkerStep(w)
  BY <1>5 DEF WorkerStep, TickStart, TickEnd, Advance, LookupUnknown,
     LookupError, LookupFound, SubmitAccepted, SubmitAnswerLost, SubmitError,
     SubmitRejected, MarkSubmittedRead, MarkSubmittedCas, MarkFailedRead,
     MarkFailedCas, HookMail, HookNothing, Crash, coreVars
<1> QED
  BY <1>1, <1>2, <1>3, <1>4, <1>5 DEF Next, ClockTick, vars, coreVars

LEMMA ConfirmedStep ==
  ASSUME MailInv, ConfirmedOK, [Next]_vars
  PROVE  ConfirmedOK'
<1> USE DEF MailInv
<1>0. \A w \in Workers : pc[w] \in {"submit", "lookup"} =>
        cur[w].row.txid \in Txids /\ Hash(cur[w].row) \in Hashes
  BY DEF DispatchOK, Advancing, Paid, Snapshot, Row, Hash, Hashes
<1>1. ASSUME NEW h \in Hashes, core'[h] # None PROVE chain'[core'[h]] = Required
  <2>1. CASE core'[h] = core[h]
    <3>1. core[h] \in Txids /\ chain[core[h]] = Required
      BY <1>1, <2>1 DEF TypeOK, ConfirmedOK
    <3> QED
      BY <2>1, <3>1, ChainMoves
  <2>2. CASE core'[h] # core[h]
    <3>1. PICK w \in Workers :
            /\ pc[w] = "submit" /\ chain' = chain
            /\ core' = [core EXCEPT ![Hash(cur[w].row)] = cur[w].row.txid]
      BY <2>2, CoreMoves
    <3>2. core'[h] = cur[w].row.txid
      BY <2>2, <3>1 DEF TypeOK
    <3> QED
      BY <3>1, <3>2 DEF ConfirmedOK
  <2> QED
    BY <2>1, <2>2
<1>2. ASSUME NEW w \in Workers, pc'[w] = "submit" PROVE chain'[cur'[w].row.txid] = Required
  <2>1. CASE pc[w] = "submit" /\ cur'[w] = cur[w]
    BY <1>0, <2>1, ChainMoves DEF ConfirmedOK
  <2>2. CASE /\ pc[w] = "lookup" /\ cur'[w] = cur[w] /\ chain' = chain
             /\ chain[cur[w].row.txid] # Unknown
             /\ ~(chain[cur[w].row.txid] < Required)
    <3>1. chain[cur[w].row.txid] \in 0..Unknown
      BY <1>0, <2>2 DEF TypeOK
    <3> QED
      BY <2>2, <3>1, BoundsAssumption DEF Unknown
  <2> QED
    BY <1>2, <2>1, <2>2, SubmitMoves
<1> QED
  BY <1>1, <1>2 DEF ConfirmedOK

\* A slot that was emptied, or filled, has no collateral and no reason.
LEMMA Unsettled ==
  ASSUME NEW k \in Ids, Dropped(k) \/ Created(k)
  PROVE  rows'[k].txid = None /\ rows'[k].reason = "none" /\ rows'[k].status # "failed"
<1>1. CASE Dropped(k)
  BY <1>1 DEF Dropped, NoRow
<1>2. CASE Created(k)
  <2>1. PICK r \in Requests : rows'[k] = NewRow(req[r])
    BY <1>2 DEF Created
  <2> QED
    BY <2>1 DEF NewRow, NoRow
<1> QED
  BY <1>1, <1>2

LEMMA TxidStep ==
  ASSUME MailInv, TxidOnce, [Next]_vars
  PROVE  TxidOnce'
<1> SUFFICES ASSUME NEW i \in Ids, NEW j \in Ids, rows'[i].txid # None,
                    rows'[i].txid = rows'[j].txid, i # j
             PROVE  FALSE
  BY DEF TxidOnce
<1>1. ASSUME NEW k \in Ids, rows'[k].txid # None
      PROVE  rows'[k].txid = rows[k].txid \/ Attached(k)
  <2>1. ~Dropped(k) /\ ~Created(k)
    BY <1>1, Unsettled
  <2> QED
    BY <2>1, RowSteps DEF MailInv, Counted, Published, GivenUp
<1>2. ASSUME NEW k \in Ids, NEW l \in Ids, k # l, Attached(k) PROVE rows'[k].txid # rows'[l].txid
  BY <1>2 DEF Attached, TxidTaken
<1> QED
  BY <1>1, <1>2 DEF TxidOnce

LEMMA ReasonStep ==
  ASSUME MailInv, ReasonOK, [Next]_vars
  PROVE  ReasonOK'
<1> SUFFICES ASSUME NEW i \in Ids, rows'[i].reason # "none" PROVE rows'[i].status = "failed"
  BY DEF ReasonOK
<1>1. ~Dropped(i) /\ ~Created(i)
  BY Unsettled
<1> QED
  BY <1>1, RowSteps DEF MailInv, ReasonOK, Attached, Counted, Published, GivenUp

LEMMA TakenPaid ==
  ASSUME MailInv, NEW w \in Workers, NEW s \in Taken(w)
  PROVE  /\ s.id \in Ids /\ s.id < nextId /\ s.row.txid \in Txids /\ s.row.txid # None
         /\ Hash(s.row) \in Hashes
<1>1. s \in Snapshot /\ s.id < nextId /\ Paid(s.row)
  BY DEF MailInv, TypeOK, DispatchOK, Taken
<1> QED
  BY <1>1, NoneAssumption DEF Snapshot, Row, Paid, Hash, Hashes

\* A dispatcher lists afresh, or what it has taken on only dwindles, and a row
\* stays at the hook until it is done with.
LEMMA TakenFate ==
  ASSUME TypeOK, ListedOK, [Next]_vars, NEW w \in Workers
  PROVE  /\ Advancing(w)' => cur'[w] \notin todo'[w]
         /\ \/ rows' = rows /\ Taken(w)' = Awaiting
            \/ /\ Taken(w)' \subseteq Taken(w)
               /\ \A s \in Taken(w)' :
                    pc[w] = "hook" /\ s = cur[w] => pc'[w] = "hook" /\ s = cur'[w]
<1>1. Advancing(w) => cur[w] \notin todo[w]
  BY DEF ListedOK
<1>2. CASE todo'[w] = Awaiting /\ ~Advancing(w)' /\ rows' = rows
  BY <1>2 DEF Taken
<1>3. CASE todo'[w] \subseteq todo[w] /\ ~Advancing(w)'
  BY <1>1, <1>3 DEF Taken, Advancing
<1>4. CASE /\ Advancing(w) /\ cur'[w] = cur[w] /\ todo'[w] = todo[w]
           /\ pc[w] = "hook" => pc'[w] = "hook"
  BY <1>1, <1>4 DEF Taken
<1>5. CASE /\ cur'[w] \in todo[w] /\ todo'[w] = todo[w] \ {cur'[w]}
           /\ ~Advancing(w)
  BY <1>5 DEF Taken, Advancing
<1> QED
  BY <1>2, <1>3, <1>4, <1>5, TakenMoves

\* The dispatcher settles a row itself: it is then at the hook with it, and no
\* other row has that collateral.
LEMMA SettledIsCurrent ==
  ASSUME MailInv, OneDispatcher, ListedOK, [Next]_vars, NEW w \in Workers,
         NEW i \in Ids, Published(i) \/ GivenUp(i)
  PROVE  /\ pc'[w] = "hook" /\ pc[w] \in {"submitCas", "failCas"}
         /\ cur'[w] = cur[w] /\ cur[w] \in Taken(w) /\ cur[w].id = i
         /\ rows[i].txid = cur[w].row.txid /\ Hash(rows[i]) = Hash(cur[w].row)
<1>1. pc'[w] = "hook" /\ pc[w] \in {"submitCas", "failCas"} /\ cur[w].id = i
  BY DEF OneDispatcher, Published, GivenUp
<1>2. Advancing(w) /\ Advancing(w)'
  BY <1>1 DEF Advancing
<1>3. cur'[w] = cur[w]
  BY <1>1, <1>2, TakenMoves DEF MailInv
<1>4. cur[w] \in Taken(w) /\ i \in Stored
  BY <1>2 DEF Taken, Stored, Published, GivenUp
<1> QED
  BY <1>1, <1>3, <1>4 DEF ListedOK

LEMMA ListedStep ==
  ASSUME RowsInv, TxidOnce, OneDispatcher, ListedOK, [Next]_vars
  PROVE  ListedOK'
<1> USE DEF RowsInv
<1> SUFFICES ASSUME NEW w \in Workers
      PROVE  /\ \A s, t \in Taken(w)' : s.row.txid = t.row.txid => s = t
             /\ \A s \in Taken(w)' : s.id \in Stored' =>
                  Hash(rows'[s.id]) = Hash(s.row) /\ rows'[s.id].txid = s.row.txid
             /\ \A s \in Taken(w)', i \in Stored' :
                  rows'[i].txid = s.row.txid /\ ~(pc'[w] = "hook" /\ s = cur'[w]) =>
                    rows'[i].status = "awaiting_collateral"
  BY TakenFate DEF ListedOK, MailInv
<1>1. CASE rows' = rows /\ Taken(w)' = Awaiting
  <2>1. ASSUME NEW s \in Awaiting
        PROVE  /\ s.id \in Ids /\ s.row = rows[s.id] /\ s = [id |-> s.id, row |-> rows[s.id]]
               /\ s.row.txid # None /\ rows[s.id].status = "awaiting_collateral"
    BY NoneAssumption DEF Awaiting, MailInv, PaidOK, Paid, Stored
  <2>2. \A s \in Awaiting, i \in Ids : rows[i].txid = s.row.txid => i = s.id
    BY <2>1 DEF TxidOnce
  <2>3. Stored' = Stored /\ \A i \in Stored : i \in Ids
    BY <1>1 DEF Stored
  <2> HIDE DEF RowsInv
  <2>4. ASSUME NEW s \in Awaiting, NEW t \in Awaiting, s.row.txid = t.row.txid PROVE s = t
    BY <2>1, <2>2, <2>4
  <2> QED
    BY <1>1, <2>1, <2>2, <2>3, <2>4 DEF Hash
<1>2. CASE /\ Taken(w)' \subseteq Taken(w)
           /\ \A s \in Taken(w)' :
                pc[w] = "hook" /\ s = cur[w] => pc'[w] = "hook" /\ s = cur'[w]
  <2>1. ASSUME NEW s \in Taken(w), s.id \in Stored'
        PROVE  Hash(rows'[s.id]) = Hash(s.row) /\ rows'[s.id].txid = s.row.txid
    <3> DEFINE i == s.id
    <3>1. i \in Ids /\ i < nextId /\ s.row.txid # None
      BY TakenPaid
    <3>2. i \in Stored /\ Hash(rows'[i]) = Hash(rows[i])
      BY <2>1, <3>1, StoredKeeps
    <3>3. Hash(rows[i]) = Hash(s.row) /\ rows[i].txid = s.row.txid
      BY <3>2 DEF ListedOK
    <3>4. ~Attached(i)
      BY <3>1, <3>3 DEF Attached, UnpaidOK
    <3>5. ~Dropped(i) /\ ~Created(i)
      BY <2>1, <3>1, BoundsAssumption
      DEF Dropped, Created, NoRow, Stored, MailInv, TypeOK, Ids
    <3>6. rows'[i].txid = rows[i].txid
      BY <3>1, <3>4, <3>5, RowSteps DEF MailInv, Counted, Published, GivenUp
    <3> QED
      BY <3>2, <3>3, <3>6
  <2>2. ASSUME NEW s \in Taken(w)', NEW i \in Stored', rows'[i].txid = s.row.txid,
               ~(pc'[w] = "hook" /\ s = cur'[w])
        PROVE  rows'[i].status = "awaiting_collateral"
    <3>1. i \in Ids /\ s \in Taken(w) /\ s.row.txid # None
      BY <1>2, TakenPaid DEF Stored
    <3>2. ~Dropped(i) /\ ~Created(i)
      BY <2>2, <3>1, Unsettled
    <3>3. CASE Published(i) \/ GivenUp(i)
      <4>1. /\ pc'[w] = "hook" /\ cur'[w] = cur[w] /\ cur[w] \in Taken(w)
            /\ rows[i].txid = cur[w].row.txid
        BY <3>1, <3>3, SettledIsCurrent
      <4>2. s = cur[w]
        BY <2>2, <3>1, <3>3, <4>1 DEF ListedOK, Published, GivenUp
      <4> QED
        BY <2>2, <4>1, <4>2
    <3>4. CASE rows'[i] = rows[i] \/ Counted(i)
      <4>1. i \in Stored /\ rows[i].txid = s.row.txid /\ rows'[i].status = rows[i].status
        BY <2>2, <3>4 DEF Stored, Counted
      <4>2. ~(pc[w] = "hook" /\ s = cur[w])
        BY <1>2, <2>2
      <4> QED
        BY <3>1, <4>1, <4>2 DEF ListedOK
    <3> QED
      BY <3>1, <3>2, <3>3, <3>4, RowSteps DEF MailInv, Attached
  <2> QED
    BY <1>2, <2>1, <2>2 DEF ListedOK
<1> QED
  BY <1>1, <1>2, TakenFate DEF MailInv

\* Who gives a row up already did, or Core does not know its collateral, or
\* Core has just rejected it.
LEMMA FailMoves ==
  ASSUME TypeOK, [Next]_vars, NEW w \in Workers, pc'[w] \in {"failRead", "failCas"},
         why'[w] # "duplicate_governance_hash"
  PROVE  /\ cur'[w] = cur[w]
         /\ \/ pc[w] \in {"failRead", "failCas"} /\ why[w] # "duplicate_governance_hash"
            \/ pc[w] = "lookup" /\ core' = core /\ chain[cur[w].row.txid] = Unknown
            \/ /\ pc[w] = "submit" /\ core' = core
               /\ core[Hash(cur[w].row)] # cur[w].row.txid
<1> USE DEF tableVars, workerVars, coreVars
<1> DEFINE Same == pc'[w] = pc[w] /\ cur'[w] = cur[w] /\ why'[w] = why[w]
<1>0. DOMAIN pc = Workers /\ DOMAIN cur = Workers /\ DOMAIN why = Workers
  BY DEF TypeOK
<1>1. ASSUME NEW v \in Workers,
             \/ NextRow(v)
             \/ Goto(v, "submitRead", "submitted") \/ Goto(v, "submitCas", "submitted")
             \/ Goto(v, "failRead", "duplicate_governance_hash")
             \/ Goto(v, "submit", "none") \/ \E outcome : Goto(v, "hook", outcome)
      PROVE  Same
  BY <1>0, <1>1 DEF NextRow, Goto
<1>2. ASSUME NEW v \in Workers,
             TickStart(v) \/ TickEnd(v) \/ Advance(v) \/ Crash(v)
      PROVE  Same
  BY <1>0, <1>2 DEF TickStart, TickEnd, Advance, Crash
<1>3. ASSUME NEW v \in Workers,
             \/ LookupError(v) \/ LookupFound(v) \/ SubmitAccepted(v)
             \/ SubmitAnswerLost(v) \/ SubmitError(v) \/ MarkSubmittedRead(v)
             \/ MarkSubmittedCas(v) \/ MarkFailedCas(v) \/ HookMail(v) \/ HookNothing(v)
      PROVE  Same
  BY <1>1, <1>3 DEF LookupError, LookupFound, SubmitAccepted, SubmitAnswerLost,
     SubmitError, MarkSubmittedRead, MarkSubmittedCas, MarkFailedCas, HookMail, HookNothing
<1>4. ASSUME NEW v \in Workers, NEW where, NEW outcome, Goto(v, where, outcome)
      PROVE  Same \/ (v = w /\ cur'[w] = cur[w] /\ why'[w] = outcome)
  <2>1. CASE v = w
    BY <1>0, <1>4, <2>1 DEF Goto
  <2>2. CASE v # w
    BY <1>0, <1>4, <2>2 DEF Goto
  <2> QED
    BY <2>1, <2>2
<1>5. ASSUME NEW v \in Workers, MarkFailedRead(v)
      PROVE  \/ Same
             \/ pc[w] = "failRead" /\ cur'[w] = cur[w] /\ why'[w] = why[w]
  BY <1>1, <1>4, <1>5 DEF MarkFailedRead
<1>6. ASSUME NEW v \in Workers, LookupUnknown(v)
      PROVE  \/ Same
             \/ /\ pc[w] = "lookup" /\ cur'[w] = cur[w] /\ core' = core
                /\ chain[cur[w].row.txid] = Unknown
  BY <1>1, <1>4, <1>6 DEF LookupUnknown
<1>7. ASSUME NEW v \in Workers, SubmitRejected(v)
      PROVE  \/ Same
             \/ /\ pc[w] = "submit" /\ cur'[w] = cur[w] /\ core' = core
                /\ core[Hash(cur[w].row)] # cur[w].row.txid
  BY <1>4, <1>7 DEF SubmitRejected
<1>8. CASE UNCHANGED workerVars
  BY <1>8
<1> QED
  BY <1>2, <1>3, <1>5, <1>6, <1>7, <1>8, NotWorker DEF WorkerStep

LEMMA GivenUpStep ==
  ASSUME MailInv, ConfirmedOK, OneDispatcher, GivenUpOK, [Next]_vars
  PROVE  GivenUpOK'
<1> SUFFICES ASSUME NEW w \in Workers, pc'[w] \in {"failRead", "failCas"},
                    why'[w] # "duplicate_governance_hash"
             PROVE  core'[Hash(cur'[w].row)] # cur'[w].row.txid
  BY DEF GivenUpOK
<1>0. Advancing(w)' /\ cur'[w] = cur[w] /\ Advancing(w)
  BY FailMoves DEF MailInv, Advancing
<1> DEFINE h == Hash(cur[w].row)
           t == cur[w].row.txid
<1>1. h \in Hashes /\ t \in Txids /\ t # None
  BY <1>0, TakenPaid DEF Taken
<1>2. CASE pc[w] \in {"failRead", "failCas"} /\ why[w] # "duplicate_governance_hash"
  <2>1. core' = core
    BY <1>2, CoreMoves DEF MailInv, OneDispatcher
  <2> QED
    BY <1>0, <1>2, <2>1 DEF GivenUpOK
<1>3. CASE pc[w] = "lookup" /\ core' = core /\ chain[t] = Unknown
  <2>1. chain[t] # Required
    BY <1>3, BoundsAssumption DEF Unknown
  <2>2. core[h] # t
    BY <1>1, <2>1 DEF ConfirmedOK
  <2> QED
    BY <1>0, <1>3, <2>2
<1>4. CASE pc[w] = "submit" /\ core' = core /\ core[h] # t
  BY <1>0, <1>4
<1> QED
  BY <1>2, <1>3, <1>4, FailMoves DEF MailInv

\* A given-up row was failed by a dispatcher that knew Core had not taken it,
\* and Core is never offered the collateral of a row that is not awaiting.
LEMMA NoLiveStep ==
  ASSUME LiveInv, OneDispatcher, [Next]_vars
  PROVE  NoLiveFailure'
<1> USE DEF LiveInv, RowsInv
<1> DEFINE GivenUpFor == CoreReject \cup {"collateral_not_found"}
<1> SUFFICES ASSUME NEW i \in Stored', rows'[i].reason \in GivenUpFor
             PROVE  core'[Hash(rows'[i])] # rows'[i].txid
  BY DEF NoLiveFailure
<1>0. /\ i \in Ids /\ rows'[i].reason # "none"
      /\ rows'[i].reason # "duplicate_governance_hash"
  BY DEF Stored, CoreReject
<1>1. CASE GivenUp(i) /\ SameIdentity(i)
  <2>1. PICK w \in Workers : pc[w] = "failCas" /\ why[w] = rows'[i].reason /\ pc'[w] = "hook"
    BY <1>1 DEF GivenUp
  <2>2. rows[i].txid = cur[w].row.txid /\ Hash(rows[i]) = Hash(cur[w].row)
    BY <1>0, <1>1, SettledIsCurrent
  <2>3. core' = core
    BY <2>1, CoreMoves DEF MailInv, OneDispatcher
  <2>4. core[Hash(cur[w].row)] # cur[w].row.txid
    BY <1>0, <2>1 DEF GivenUpOK
  <2> QED
    BY <1>1, <2>2, <2>3, <2>4 DEF GivenUp, SameIdentity
<1>2. CASE SameIdentity(i) /\ rows'[i].reason = rows[i].reason /\ rows'[i].txid = rows[i].txid
  <2>1. rows[i].status = "failed" /\ i \in Stored
    BY <1>0, <1>2 DEF ReasonOK, Stored
  <2>2. core[Hash(rows[i])] # rows[i].txid
    BY <1>2, <2>1 DEF NoLiveFailure
  <2>3. CASE core' # core
    <3>1. PICK w \in Workers :
            pc[w] = "submit" /\ core' = [core EXCEPT ![Hash(cur[w].row)] = cur[w].row.txid]
      BY <2>3, CoreMoves DEF MailInv
    <3>2. cur[w] \in Taken(w)
      BY <3>1 DEF Taken, Advancing
    <3>3. rows[i].txid # cur[w].row.txid
      BY <2>1, <3>1, <3>2 DEF ListedOK
    <3> QED
      BY <1>2, <2>2, <3>1, <3>3 DEF SameIdentity
  <2> QED
    BY <1>2, <2>2, <2>3 DEF SameIdentity
<1>3. ~Dropped(i) /\ ~Created(i)
  BY <1>0, Unsettled
<1>4. ~Attached(i)
  BY <1>0 DEF Attached, ReasonOK
<1> QED
  BY <1>0, <1>1, <1>2, <1>3, <1>4, RowSteps
  DEF MailInv, Counted, Published, SameIdentity

LEMMA LiveInit == Init => LiveInv
BY RowsInit, NoneAssumption
DEF Init, LiveInv, TxidOnce, ReasonOK, ConfirmedOK, ListedOK, Taken, Advancing, GivenUpOK,
    NoLiveFailure, Stored, NoRow

LEMMA LiveStep ==
  ASSUME LiveInv, OneDispatcher, [Next]_vars
  PROVE  LiveInv'
BY RowsStep, TxidStep, ReasonStep, ConfirmedStep, ListedStep, GivenUpStep, NoLiveStep
DEF LiveInv, RowsInv

\* With one dispatcher, what server.js deploys, a row keeps the collateral that
\* was listed with it for as long as the dispatcher is busy with it, and Core
\* accepts only what the dispatcher is busy with.
THEOREM LiveInvariant ==
  ASSUME OneDispatcher
  PROVE  Spec => []LiveInv
BY LiveInit, LiveStep, PTL DEF Spec

\* The dispatcher never gives up, as rejected or not found, a submission whose
\* own collateral Core accepted, whatever answers were lost and whenever it
\* crashed.
THEOREM NoLiveFailureAlways ==
  ASSUME OneDispatcher
  PROVE  Spec => []NoLiveFailure
<1>1. LiveInv => NoLiveFailure
  BY DEF LiveInv
<1> QED
  BY LiveInvariant, <1>1, PTL

-----------------------------------------------------------------------------
(***************************************************************************)
(* The pipeline implements the documented life cycle of a submission, for  *)
(* every number of users, rows, dispatchers and concurrent requests.  The  *)
(* steps are sorted by StepKinds; each kind is one abstract action, or a   *)
(* stutter.                                                                *)
(***************************************************************************)

\* The row of a dispatcher was paid when it was listed, and stays so: markFailed
\* would also fail a prepared row.
BegunOK ==
  \A w \in Workers :
    /\ \A s \in todo[w] : rows[s.id].status # "prepared"
    /\ Advancing(w) => rows[cur[w].id].status # "prepared"

-----------------------------------------------------------------------------
(* BegunOK is inductive relative to MailInv.                               *)

\* No step makes a submission prepared but the insert that creates it.
LEMMA NeverUnpaid ==
  ASSUME MailInv, [Next]_vars, NEW i \in Ids, i < nextId,
         rows[i].status # "prepared"
  PROVE  rows'[i].status # "prepared"
<1> USE DEF MailInv
<1>1. CASE Inert \/ Removal
  BY <1>1 DEF Inert, Removal, NoRow
<1>2. CASE Insertion
  <2>1. i # nextId
    BY BoundsAssumption DEF Ids
  <2> QED
    BY <1>2, <2>1 DEF Insertion, TypeOK
<1>3. CASE Attachment
  BY <1>3 DEF Attachment, TypeOK, Row
<1>4. CASE \E w \in Workers : Move(w)
  BY <1>4 DEF Move, SameButCounted
<1>5. CASE \E w \in Workers : Settling(w)
  BY <1>5 DEF Settling
<1>6. CASE \E w \in Workers : Emission(w)
  BY <1>6 DEF Emission
<1> QED
  BY <1>1, <1>2, <1>3, <1>4, <1>5, <1>6, StepKinds

LEMMA BegunStep ==
  ASSUME MailInv, BegunOK, [Next]_vars
  PROVE  BegunOK'
<1> USE DEF MailInv
<1>1. \A s \in Awaiting : s.id \in Ids /\ s.id < nextId
                          /\ rows[s.id].status # "prepared"
  <2>1. \A i \in Ids : rows[i].status = "awaiting_collateral" => i < nextId
    BY BoundsAssumption DEF FreshOK, NoRow, Ids, TypeOK
  <2> QED
    BY <2>1 DEF Awaiting
<1>2. \A w \in Workers : \A s \in todo[w] : s.id \in Ids /\ s.id < nextId
                          /\ rows[s.id].status # "prepared"
  BY DEF DispatchOK, BegunOK, TypeOK, Snapshot
<1>3. \A w \in Workers : Advancing(w) =>
        /\ cur[w].id \in Ids /\ cur[w].id < nextId
        /\ rows[cur[w].id].status # "prepared"
  BY DEF DispatchOK, BegunOK, Snapshot
<1>4. ASSUME NEW w \in Workers
      PROVE  /\ \A s \in todo'[w] : rows'[s.id].status # "prepared"
             /\ Advancing(w)' => rows'[cur'[w].id].status # "prepared"
  <2>1. /\ todo'[w] \subseteq todo[w] \cup Awaiting
        /\ Advancing(w)' => \/ Advancing(w) /\ cur'[w] = cur[w]
                            \/ cur'[w] \in todo[w]
    BY TakenMoves
  <2> QED
    BY <1>1, <1>2, <1>3, <2>1, NeverUnpaid
<1> QED
  BY <1>4 DEF BegunOK

-----------------------------------------------------------------------------
(* The mapped variables.  At most one dispatcher stands at the hook of a   *)
(* row, so the CHOOSE of OwedOf is that one.                               *)

Kind(outcome) == IF outcome = "submitted" THEN "submitted" ELSE "failed"

HookOwed ==
  \A i \in Ids :
    /\ (\A w \in Workers : ~Hooked(w, i)) => OwedOf(i) = "none"
    /\ \A w \in Workers : Hooked(w, i) => OwedOf(i) = Kind(why[w])

LEMMA OwedMapped == MailInv => HookOwed
<1> SUFFICES ASSUME MailInv, NEW i \in Ids
             PROVE  /\ (\A w \in Workers : ~Hooked(w, i)) => OwedOf(i) = "none"
                    /\ \A w \in Workers : Hooked(w, i) => OwedOf(i) = Kind(why[w])
  BY DEF HookOwed
<1>1. ASSUME \A w \in Workers : ~Hooked(w, i) PROVE OwedOf(i) = "none"
  BY <1>1 DEF OwedOf, Hooked
<1>2. ASSUME NEW w \in Workers, Hooked(w, i) PROVE OwedOf(i) = Kind(why[w])
  <2> DEFINE c == CHOOSE v \in Workers : pc[v] = "hook" /\ cur[v].id = i
  <2>1. c \in Workers /\ pc[c] = "hook" /\ cur[c].id = i
    BY <1>2 DEF Hooked
  <2>2. c = w
    BY <1>2, <2>1 DEF MailInv, HookOK, Hooked
  <2>3. OwedOf(i) = IF why[c] = "submitted" THEN "submitted" ELSE "failed"
    BY <2>1 DEF OwedOf
  <2> QED
    BY <2>2, <2>3 DEF Kind
<1> QED
  BY <1>1, <1>2

LEMMA OwedMappedNext == MailInv' => HookOwed'
BY OwedMapped, PTL

\* Nothing is owed differently when the same dispatchers stand at the same hooks.
SameHook(i) ==
  \A w \in Workers : /\ Hooked(w, i)' <=> Hooked(w, i)
                     /\ Hooked(w, i) => why'[w] = why[w]

LEMMA OwedKept ==
  ASSUME MailInv, MailInv', NEW i \in Ids, SameHook(i)
  PROVE  OwedOf(i)' = OwedOf(i)
<1>1. HookOwed /\ HookOwed'
  BY OwedMapped, OwedMappedNext
<1>2. CASE \A w \in Workers : ~Hooked(w, i)
  BY <1>1, <1>2 DEF HookOwed, SameHook
<1>3. ASSUME NEW w \in Workers, Hooked(w, i) PROVE OwedOf(i)' = OwedOf(i)
  BY <1>1, <1>3 DEF HookOwed, SameHook, Kind
<1> QED
  BY <1>2, <1>3

LEMMA ToldKept ==
  ASSUME NEW i \in Ids, mails'[i] = mails[i]
  PROVE  ToldOf(i)' = ToldOf(i)
BY DEF ToldOf

LEMMA LifeKept ==
  ASSUME NEW i \in Ids, rows'[i].status = rows[i].status, nextId' = nextId
  PROVE  LifeOf(i)' = LifeOf(i)
BY DEF LifeOf

-----------------------------------------------------------------------------
(* A step that changes the mapped variables in one place is that abstract  *)
(* action.                                                                 *)

\* Outside S nothing of the abstract state changes.
OnlyLife(S) ==
  /\ \A j \in Ids \ S : LifeOf(j)' = LifeOf(j)
  /\ \A j \in Ids : OwedOf(j)' = OwedOf(j) /\ ToldOf(j)' = ToldOf(j)

LEMMA AbstractPrepare ==
  ASSUME NEW i \in Ids, LifeOf(i) = "absent", LifeOf(i)' = "prepared", OnlyLife({i})
  PROVE  Life!Prepare(i)
BY DEF Life!Prepare, OnlyLife

LEMMA AbstractPay ==
  ASSUME NEW i \in Ids, LifeOf(i) = "prepared",
         LifeOf(i)' = "awaiting_collateral", OnlyLife({i})
  PROVE  Life!Pay(i)
BY DEF Life!Pay, OnlyLife

LEMMA AbstractRemove ==
  ASSUME NEW S \in SUBSET Ids, OnlyLife(S),
         \A i \in S : LifeOf(i) \notin {"absent", "removed"} /\ LifeOf(i)' = "removed"
  PROVE  Life!Remove(S)
BY DEF Life!Remove, OnlyLife

LEMMA AbstractSettle ==
  ASSUME NEW i \in Ids, NEW outcome, LifeOf(i) = "awaiting_collateral",
         LifeOf(i)' = outcome, OwedOf(i)' = outcome,
         \A j \in Ids \ {i} : LifeOf(j)' = LifeOf(j) /\ OwedOf(j)' = OwedOf(j),
         \A j \in Ids : ToldOf(j)' = ToldOf(j)
  PROVE  Life!Settle(i, outcome)
BY DEF Life!Settle

LEMMA AbstractTell ==
  ASSUME NEW i \in Ids, OwedOf(i) # "none", OwedOf(i)' = "none",
         ToldOf(i)' = OwedOf(i),
         \A j \in Ids \ {i} : OwedOf(j)' = OwedOf(j) /\ ToldOf(j)' = ToldOf(j),
         \A j \in Ids : LifeOf(j)' = LifeOf(j)
  PROVE  Life!Tell(i)
BY DEF Life!Tell

LEMMA AbstractForget ==
  ASSUME NEW i \in Ids, OwedOf(i) # "none", OwedOf(i)' = "none",
         \A j \in Ids \ {i} : OwedOf(j)' = OwedOf(j),
         \A j \in Ids : LifeOf(j)' = LifeOf(j) /\ ToldOf(j)' = ToldOf(j)
  PROVE  Life!Forget(i)
BY DEF Life!Forget

LEMMA AbstractStutter ==
  ASSUME OnlyLife({})
  PROVE  UNCHANGED Life!lifeVars
BY DEF Life!lifeVars, OnlyLife

-----------------------------------------------------------------------------
(* Each kind of step, mapped.                                              *)

\* Requests, users and account deletion leave what is owed and told alone.
LEMMA MapTable ==
  ASSUME MailInv, MailInv', Inert \/ Removal \/ Insertion \/ Attachment
  PROVE  [Life!LifeNext]_(Life!lifeVars)
<1> USE DEF MailInv
<1>1. UNCHANGED <<workerVars, mails>>
  BY DEF Inert, Removal, Insertion, Attachment
<1>2. \A i \in Ids : OwedOf(i)' = OwedOf(i) /\ ToldOf(i)' = ToldOf(i)
  <2>1. \A i \in Ids : SameHook(i)
    BY <1>1 DEF SameHook, Hooked, workerVars
  <2> QED
    BY <1>1, <2>1, OwedKept, ToldKept
<1>3. CASE Inert
  BY <1>2, <1>3, LifeKept, AbstractStutter DEF Inert, OnlyLife
<1>4. CASE Removal
  <2> DEFINE S == {i \in Ids : rows[i].status # "none" /\ rows'[i] = NoRow}
  <2>1. ASSUME NEW i \in Ids \ S PROVE LifeOf(i)' = LifeOf(i)
    BY <1>4, <2>1, LifeKept DEF Removal, NoRow
  <2>2. ASSUME NEW i \in S
        PROVE  LifeOf(i) \notin {"absent", "removed"} /\ LifeOf(i)' = "removed"
    <3>1. i < nextId /\ nextId' = nextId
      BY <1>4, BoundsAssumption DEF Removal, FreshOK, NoRow, Ids, TypeOK
    <3>2. rows[i].status \in Status
      BY DEF TypeOK, Row
    <3> QED
      BY <3>1, <3>2 DEF LifeOf, NoRow, Status
  <2>3. OnlyLife(S)
    BY <1>2, <2>1 DEF OnlyLife
  <2>4. Life!Remove(S)
    BY <2>2, <2>3, AbstractRemove
  <2> QED
    BY <2>4 DEF Life!LifeNext
<1>5. CASE Insertion
  <2>1. PICK q \in Request : rows' = [rows EXCEPT ![nextId] = NewRow(q)]
    BY <1>5 DEF Insertion
  <2>2. nextId \in Ids /\ nextId' = nextId + 1 /\ nextId \in Nat
    BY <1>5, BoundsAssumption DEF Insertion, Ids
  <2>3. LifeOf(nextId) = "absent"
    BY <2>2, BoundsAssumption DEF FreshOK, NoRow, LifeOf
  <2>4. rows'[nextId].status = "prepared"
    BY <2>1, <2>2 DEF TypeOK, NewRow, NoRow
  <2>5. ASSUME NEW i \in Ids \ {nextId} PROVE LifeOf(i)' = LifeOf(i)
    <3>1. rows'[i] = rows[i] /\ (i < nextId' <=> i < nextId)
      BY <2>1, <2>2, BoundsAssumption DEF TypeOK, Ids
    <3> QED
      BY <3>1 DEF LifeOf
  <2> DEFINE i == nextId
  <2>6. \E j \in Ids : /\ j = nextId /\ LifeOf(j) = "absent"
                       /\ LifeOf(j)' = "prepared" /\ OnlyLife({j})
    <3>1. PICK j \in Ids : j = nextId
      BY <2>2
    <3>2. LifeOf(j)' = "prepared"
      BY <2>4, <3>1 DEF LifeOf
    <3>3. OnlyLife({j})
      BY <1>2, <2>5, <3>1 DEF OnlyLife
    <3> QED
      BY <2>3, <3>1, <3>2, <3>3
  <2> QED
    BY <2>6, AbstractPrepare DEF Life!LifeNext
<1>6. CASE Attachment
  <2>1. PICK i \in Ids :
          /\ rows[i].status = "prepared"
          /\ rows'[i].status = "awaiting_collateral"
          /\ \A j \in Ids \ {i} : rows'[j] = rows[j]
          /\ nextId' = nextId
    <3>1. PICK i \in Ids, t \in Txids :
            /\ rows[i].status = "prepared"
            /\ rows' = [rows EXCEPT ![i] = [rows[i] EXCEPT
                          !.status = "awaiting_collateral", !.txid = t,
                          !.updated = now]]
      BY <1>6 DEF Attachment
    <3>2. rows'[i].status = "awaiting_collateral"
      BY <3>1 DEF TypeOK, Row
    <3>3. \A j \in Ids \ {i} : rows'[j] = rows[j]
      BY <3>1 DEF TypeOK
    <3>4. nextId' = nextId
      BY <1>6 DEF Attachment
    <3> QED
      BY <3>1, <3>2, <3>3, <3>4
  <2>2. LifeOf(i) = "prepared" /\ LifeOf(i)' = "awaiting_collateral"
    BY <2>1 DEF LifeOf
  <2>3. OnlyLife({i})
    BY <1>2, <2>1, LifeKept DEF OnlyLife
  <2> QED
    BY <2>2, <2>3, AbstractPay DEF Life!LifeNext
<1> QED
  BY <1>3, <1>4, <1>5, <1>6

\* Going on leaves a hook, if the dispatcher was at one, without telling.
LEMMA MapMove ==
  ASSUME MailInv, MailInv', NEW w \in Workers, Move(w)
  PROVE  [Life!LifeNext]_(Life!lifeVars)
<1> USE DEF MailInv
<1>1. HookOwed /\ HookOwed'
  BY OwedMapped, OwedMappedNext
<1>2. \A i \in Ids : LifeOf(i)' = LifeOf(i) /\ ToldOf(i)' = ToldOf(i)
  BY LifeKept, ToldKept DEF Move, SameButCounted
<1>3. ASSUME NEW i \in Ids, ~Hooked(w, i) PROVE OwedOf(i)' = OwedOf(i)
  <2>1. SameHook(i)
    BY <1>3 DEF Move, OthersStay, SameHook, Hooked
  <2> QED
    BY <2>1, OwedKept
<1>4. CASE pc[w] # "hook"
  BY <1>2, <1>3, <1>4, AbstractStutter DEF OnlyLife, Hooked
<1>5. CASE pc[w] = "hook"
  <2>0. PICK i \in Ids : i = cur[w].id
    BY <1>5 DEF DispatchOK, Advancing, Snapshot
  <2>1. Hooked(w, i)
    BY <1>5, <2>0 DEF Hooked
  <2>2. \A v \in Workers : ~Hooked(v, i)'
    BY <2>1 DEF HookOK, Move, OthersStay, Hooked
  <2>3. OwedOf(i) # "none" /\ OwedOf(i)' = "none"
    BY <1>1, <2>1, <2>2 DEF HookOwed, Kind
  <2>4. \A j \in Ids \ {i} : OwedOf(j)' = OwedOf(j)
    BY <1>3, <2>0 DEF Hooked
  <2> QED
    BY <1>2, <2>1, <2>3, <2>4, AbstractForget DEF Life!LifeNext
<1> QED
  BY <1>4, <1>5

\* Winning the compare-and-swap records the outcome and owes it.
LEMMA MapSettling ==
  ASSUME MailInv, MailInv', BegunOK, NEW w \in Workers, Advancing(w), Settling(w)
  PROVE  [Life!LifeNext]_(Life!lifeVars)
<1> USE DEF MailInv
<1>0. PICK i \in Ids, outcome \in {"submitted", "failed"} :
        i = cur[w].id /\ outcome = Kind(why'[w])
  BY DEF Settling, Kind
<1>1. HookOwed /\ HookOwed'
  BY OwedMapped, OwedMappedNext
<1>2. rows[i].status = "awaiting_collateral" /\ cur'[w].id = i
  BY <1>0 DEF Settling, BegunOK
<1>3. LifeOf(i) = "awaiting_collateral" /\ LifeOf(i)' = outcome
  BY <1>0, <1>2 DEF Settling, LifeOf, Kind
<1>4. Hooked(w, i)' /\ OwedOf(i)' = outcome
  <2>1. Hooked(w, i)'
    BY <1>2 DEF Settling, Hooked
  <2> QED
    BY <1>0, <1>1, <2>1 DEF HookOwed, Kind
<1>5. ASSUME NEW j \in Ids \ {i} PROVE LifeOf(j)' = LifeOf(j) /\ OwedOf(j)' = OwedOf(j)
  <2>1. SameHook(j)
    BY <1>0, <1>2, <1>5 DEF Settling, OthersStay, SameHook, Hooked
  <2> QED
    BY <1>0, <1>5, <2>1, LifeKept, OwedKept DEF Settling
<1>6. \A j \in Ids : ToldOf(j)' = ToldOf(j)
  BY ToldKept DEF Settling
<1>7. Life!Settle(i, outcome)
  BY <1>3, <1>4, <1>5, <1>6, AbstractSettle
<1> QED
  BY <1>7 DEF Life!LifeNext, Life!Outcome

\* The mail tells what was owed.
LEMMA MapEmission ==
  ASSUME MailInv, MailInv', NEW w \in Workers, Emission(w)
  PROVE  [Life!LifeNext]_(Life!lifeVars)
<1> USE DEF MailInv
<1>0. PICK i \in Ids, kind \in {"submitted", "failed"} :
        i = cur[w].id /\ kind = Kind(why[w])
  BY DEF Emission, DispatchOK, Advancing, Snapshot, Kind
<1>1. HookOwed /\ HookOwed'
  BY OwedMapped, OwedMappedNext
<1>2. Hooked(w, i) /\ Untold(i)
  BY <1>0 DEF Emission, Hooked, HookOK
<1>3. \A v \in Workers : ~Hooked(v, i)'
  BY <1>2 DEF Emission, HookOK, OthersStay, Hooked
<1>4. OwedOf(i) = kind /\ kind # "none" /\ OwedOf(i)' = "none"
  BY <1>0, <1>1, <1>2, <1>3 DEF HookOwed
<1>5. mails' = [mails EXCEPT ![i][kind] = mails[i][kind] + 1]
  BY <1>0 DEF Emission, Kind
<1>6. ToldOf(i)' = kind
  <2>1. mails'[i] = [mails[i] EXCEPT ![kind] = mails[i][kind] + 1]
    BY <1>5 DEF TypeOK
  <2>2. CASE kind = "submitted"
    BY <1>2, <2>1, <2>2 DEF TypeOK, Untold, ToldOf
  <2>3. CASE kind = "failed"
    BY <1>2, <2>1, <2>3 DEF TypeOK, Untold, ToldOf
  <2> QED
    BY <2>2, <2>3
<1>7. ASSUME NEW j \in Ids \ {i} PROVE OwedOf(j)' = OwedOf(j) /\ ToldOf(j)' = ToldOf(j)
  <2>1. SameHook(j)
    BY <1>0, <1>7 DEF Emission, OthersStay, SameHook, Hooked
  <2>2. mails'[j] = mails[j]
    BY <1>2, <1>5, <1>7 DEF TypeOK
  <2> QED
    BY <1>7, <2>1, <2>2, OwedKept, ToldKept
<1>8. \A j \in Ids : LifeOf(j)' = LifeOf(j)
  BY LifeKept DEF Emission
<1>9. Life!Tell(i)
  BY <1>4, <1>6, <1>7, <1>8, AbstractTell
<1> QED
  BY <1>9 DEF Life!LifeNext

\* A dispatcher that settles a row was working on it.
LEMMA SettlingAdvances ==
  ASSUME TypeOK, [Next]_vars, NEW w \in Workers, Settling(w)
  PROVE  Advancing(w)
<1>1. Advancing(w)' /\ pc'[w] # "lookup"
  BY DEF Settling, Advancing
<1> QED
  BY <1>1, TakenMoves

-----------------------------------------------------------------------------
\* A dispatcher never advances a row that is still prepared: what markFailed
\* and markSubmitted settle was paid.
THEOREM BegunAlways == Spec => []BegunOK
<1>1. Init => BegunOK
  BY DEF Init, BegunOK, Advancing
<1>2. MailInv /\ BegunOK /\ [Next]_vars => BegunOK'
  BY BegunStep
<1> QED
  BY <1>1, <1>2, MailInvariant, PTL DEF Spec

\* Initially no submission exists, and nothing is owed or told.
LEMMA MapInit == Init => Life!LifeInit
<1> SUFFICES ASSUME Init
             PROVE  \A i \in Ids : /\ LifeOf(i) = "absent"
                                   /\ OwedOf(i) = "none"
                                   /\ ToldOf(i) = "none"
  BY DEF Life!LifeInit
<1>1. ASSUME NEW i \in Ids
      PROVE  /\ LifeOf(i) = "absent" /\ OwedOf(i) = "none" /\ ToldOf(i) = "none"
  BY BoundsAssumption DEF Init, NoRow, Ids, LifeOf, OwedOf, ToldOf
<1> QED
  BY <1>1

\* Every step of the pipeline is a step of the life cycle, or a stutter.
LEMMA MapStep ==
  ASSUME MailInv, MailInv', BegunOK, [Next]_vars
  PROVE  [Life!LifeNext]_(Life!lifeVars)
<1>1. \/ Inert \/ Removal \/ Insertion \/ Attachment
      \/ \E w \in Workers : Move(w) \/ Settling(w) \/ Emission(w)
  BY StepKinds DEF MailInv
<1>2. CASE \E w \in Workers : Settling(w)
  BY <1>2, MapSettling, SettlingAdvances DEF MailInv
<1> QED
  BY <1>1, <1>2, MapTable, MapMove, MapEmission

\* Routes, dispatchers that share the database, crashes and lost answers only
\* ever follow the diagram in the header of proposalSubmissions.js, and tell
\* the user the outcome of the transition that was made, once.
THEOREM ImplementsLife == Spec => Implements
<1>1. MailInv /\ MailInv' /\ BegunOK /\ [Next]_vars
        => [Life!LifeNext]_(Life!lifeVars)
  BY MapStep
<1> QED
  BY MapInit, <1>1, MailInvariant, BegunAlways, PTL
  DEF Spec, Implements, Life!LifeSpec

\* The diagram lets nobody be told twice, or anything but what was recorded.
LEMMA ToldOutcomeStep ==
  ASSUME Life!LifeTypeOK, Life!ToldOutcome, [Life!LifeNext]_(Life!lifeVars)
  PROVE  (Life!LifeTypeOK /\ Life!ToldOutcome)'
<1> USE DEF Life!LifeTypeOK, Life!ToldOutcome, Life!Life, Life!Outcome
<1>1. CASE UNCHANGED Life!lifeVars
  BY <1>1 DEF Life!lifeVars
<1>2. ASSUME NEW i \in Ids, Life!Prepare(i) \/ Life!Pay(i)
      PROVE  (Life!LifeTypeOK /\ Life!ToldOutcome)'
  BY <1>2 DEF Life!Prepare, Life!Pay
<1>3. ASSUME NEW i \in Ids, Life!Tell(i) \/ Life!Forget(i)
      PROVE  (Life!LifeTypeOK /\ Life!ToldOutcome)'
  <2>1. /\ \A j \in Ids : LifeOf(j)' = LifeOf(j)
        /\ \A j \in Ids \ {i} : OwedOf(j)' = OwedOf(j) /\ ToldOf(j)' = ToldOf(j)
        /\ OwedOf(i) # "none" /\ OwedOf(i)' = "none"
        /\ ToldOf(i)' \in {ToldOf(i), OwedOf(i)}
    BY <1>3 DEF Life!Tell, Life!Forget
  <2> QED
    BY <2>1
<1>4. ASSUME NEW i \in Ids, NEW outcome \in Life!Outcome, Life!Settle(i, outcome)
      PROVE  (Life!LifeTypeOK /\ Life!ToldOutcome)'
  <2>1. /\ \A j \in Ids \ {i} : LifeOf(j)' = LifeOf(j) /\ OwedOf(j)' = OwedOf(j)
        /\ \A j \in Ids : ToldOf(j)' = ToldOf(j)
        /\ LifeOf(i) = "awaiting_collateral" /\ LifeOf(i)' = outcome
        /\ OwedOf(i)' = outcome
    BY <1>4 DEF Life!Settle
  <2> QED
    BY <2>1
<1>5. ASSUME NEW S \in SUBSET Ids, Life!Remove(S)
      PROVE  (Life!LifeTypeOK /\ Life!ToldOutcome)'
  BY <1>5 DEF Life!Remove
<1> QED
  BY <1>1, <1>2, <1>3, <1>4, <1>5 DEF Life!LifeNext

\* Hence, of the pipeline itself: one outcome is told, the recorded one.
THEOREM ToldOutcomeHolds == Spec => []Life!ToldOutcome
<1>1. Life!LifeInit => Life!LifeTypeOK /\ Life!ToldOutcome
  BY DEF Life!LifeInit, Life!LifeTypeOK, Life!ToldOutcome, Life!Life, Life!Outcome
<1>2. /\ Life!LifeTypeOK /\ Life!ToldOutcome
      /\ [Life!LifeNext]_(Life!lifeVars)
      => (Life!LifeTypeOK /\ Life!ToldOutcome)'
  BY ToldOutcomeStep
<1>3. Life!LifeSpec => []Life!ToldOutcome
  BY <1>1, <1>2, PTL DEF Life!LifeSpec
<1> QED
  BY <1>3, ImplementsLife, PTL DEF Implements
=============================================================================
