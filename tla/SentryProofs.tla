---------------------------- MODULE SentryProofs ----------------------------
(***************************************************************************)
(* Theorems about the operation journal, for every number of signed        *)
(* transactions and of concurrent requests.                                *)
(***************************************************************************)
EXTENDS SentryOperations, TLAPS

\* Initially the journal is empty and nobody is at work on it.
LEMMA JournalInit == Init => JournalInv
<1> SUFFICES ASSUME Init PROVE JournalInv
  OBVIOUS
<1>1. TypeOK
  <2>1. 0 \in Times
    BY SentryAssumption DEF Times
  <2>2. NoOp \in Op /\ NoRead \in Read
    BY <2>1 DEF NoOp, Op, NoRead, Read, Status
  <2>3. Idle \in Call
    BY <2>2 DEF Idle, Call, CallPC, Observation
  <2>4. hist \in History
    BY <2>1 DEF Init, History
  <2> QED
    BY <2>1, <2>2, <2>3, <2>4 DEF Init, TypeOK
<1>2. RowOK
  BY DEF Init, RowOK, NoOp, Journaled
<1>3. CallsOK /\ ObservedOK
  BY DEF Init, CallsOK, ObservedOK, ChainOK, ReportsOK, ReportOK, Bound, SawMined, Idle
<1>4. ClockOK
  BY DEF Init, ClockOK, NoOp, Idle
<1>5. OnePublication /\ StatusWasObserved
  BY DEF Init, OnePublication, StatusWasObserved, NoOp, Exists
<1> QED
  BY <1>1, <1>2, <1>3, <1>4, <1>5 DEF JournalInv

-----------------------------------------------------------------------------
(* Type correctness of one step.                                           *)

\* A request record with a field replaced is a request record.
LEMMA CallUpdates ==
  ASSUME NEW k \in Call
  PROVE  /\ Idle \in Call
         /\ \A pc \in CallPC : [k EXCEPT !.pc = pc] \in Call
         /\ \A w \in Observation : [k EXCEPT !.pc = "observed", !.saw = w] \in Call
         /\ \A s \in Signed, pc \in CallPC : [Idle EXCEPT !.pc = pc, !.tx = s] \in Call
<1>1. Idle \in Call
  BY SentryAssumption
  DEF Idle, Call, CallPC, Read, NoRead, Status, Times, Observation
<1> QED
  BY <1>1 DEF Call, CallPC

\* The row after a status write.
LEMMA SetStatusType ==
  ASSUME TypeOK, NEW s \in Journaled, SetStatus(s)
  PROVE  op' \in Op
BY DEF TypeOK, SetStatus, Op, Status, Journaled

\* The record of a handler that starts to wait.
LEMMA FreshCall ==
  ASSUME NEW pc, NEW s
  PROVE  /\ [Idle EXCEPT !.pc = pc, !.tx = s].pc = pc
         /\ [Idle EXCEPT !.pc = pc, !.tx = s].tx = s
BY DEF Idle

\* A handler that sends awaits Core's answer, and the bytes count as sent.
LEMMA SentCall ==
  ASSUME TypeOK, NEW c \in Calls, NEW s, Send(c, s)
  PROVE  call'[c].pc = "broadcast" /\ call'[c].tx = s
<1>1. call'[c] = [Idle EXCEPT !.pc = "broadcast", !.tx = s]
  BY DEF TypeOK, Send
<1> QED
  BY <1>1, FreshCall

\* A handler's step keeps the types.
LEMMA CallStepType ==
  ASSUME TypeOK, CallsOK, NEW c \in Calls, CallStep(c)
  PROVE  TypeOK'
<1> USE DEF TypeOK
<1>0. /\ call[c] \in Call /\ Idle \in Call
      /\ \A k \in Call : call' = [call EXCEPT ![c] = k] => call' \in [Calls -> Call]
  BY CallUpdates
<1>1. ASSUME Done(c) PROVE call' \in [Calls -> Call]
  BY <1>0, <1>1 DEF Done
<1>2. ASSUME NEW pc \in CallPC, Goto(c, pc) PROVE call' \in [Calls -> Call]
  BY <1>0, <1>2, CallUpdates DEF Goto
<1>3. ASSUME NEW w \in Observation, Saw(c, w) PROVE call' \in [Calls -> Call]
  BY <1>0, <1>3, CallUpdates DEF Saw
<1>4. ASSUME NEW s \in Signed, Send(c, s)
      PROVE  call' \in [Calls -> Call] /\ hist' \in History
  <2>1. call' \in [Calls -> Call]
    BY <1>0, <1>4, CallUpdates DEF Send, CallPC
  <2>2. hist' \in History
    BY <1>4 DEF Send, History
  <2> QED
    BY <2>1, <2>2
<1>5. CASE \E s \in Signed : SubmitStart(c, s)
  BY <1>0, <1>5, CallUpdates DEF SubmitStart, CallPC, coreVars
<1>6. CASE SubmitClaim(c)
  <2>1. call[c].tx \in Signed
    BY <1>6 DEF SubmitClaim, CallsOK
  <2>2. op' \in Op
    BY <1>6, <2>1 DEF SubmitClaim, Op, Status, Journaled
  <2> QED
    BY <1>4, <1>6, <2>1, <2>2 DEF SubmitClaim, coreVars
<1>7. CASE CheckFailed(c)
  BY <1>1, <1>7 DEF CheckFailed, coreVars
<1>8. CASE BroadcastDone(c)
  BY <1>1, <1>8, SetStatusType DEF BroadcastDone, coreVars, Journaled
<1>9. CASE BroadcastFailed(c)
  BY <1>1, <1>9, SetStatusType DEF BroadcastFailed, coreVars, Journaled
<1>10. CASE \E retry \in BOOLEAN : ReadbackStart(c, retry)
  <2>1. PICK retry \in BOOLEAN : ReadbackStart(c, retry)
    BY <1>10
  <2>2. [pc |-> "readback", retry |-> retry, tx |-> op.tx, saw |-> "none",
         row |-> [status |-> op.status, updated |-> op.updated]] \in Call
    BY DEF Call, CallPC, Read, Observation, Op
  <2> QED
    BY <1>0, <2>1, <2>2 DEF ReadbackStart, coreVars
<1>11. CASE ReadTx(c)
  BY <1>2, <1>3, <1>11 DEF ReadTx, coreVars, CallPC, Observation
<1>12. CASE ReadNode(c)
  BY <1>3, <1>12 DEF ReadNode, coreVars, Observation
<1>13. CASE ReadbackFailed(c)
  BY <1>1, <1>13 DEF ReadbackFailed, coreVars
<1>14. CASE RetryKnown(c)
  BY <1>1, <1>14, SetStatusType DEF RetryKnown, MinedStatus, coreVars, Journaled
<1>15. CASE RetryAbsent(c)
  BY <1>2, <1>15 DEF RetryAbsent, coreVars, CallPC
<1>16. CASE RetryClaim(c)
  <2>1. call[c].tx \in Signed
    BY <1>16 DEF RetryClaim, CallsOK
  <2>2. op' \in Op
    BY <1>16 DEF RetryClaim, Op, Status, Journaled
  <2> QED
    BY <1>4, <1>16, <2>1, <2>2 DEF RetryClaim, coreVars
<1>17. CASE ReconcileApply(c)
  BY <1>1, <1>17, SetStatusType
  DEF ReconcileApply, MinedStatus, coreVars, Journaled
<1>18. CASE CoreAccepts(c)
  <2>1. chain' \in [Signed -> {"absent", "mempool", "mined"}] /\ hist' \in History
    BY <1>18, call[c].tx \in Signed DEF CoreAccepts, CallsOK, Enter, History
  <2> QED
    BY <1>2, <1>18, <2>1 DEF CoreAccepts, CallPC
<1>19. CASE CoreRefuses(c)
  BY <1>2, <1>19 DEF CoreRefuses, coreVars, CallPC
<1> QED
  BY <1>5, <1>6, <1>7, <1>8, <1>9, <1>10, <1>11, <1>12, <1>13, <1>14, <1>15,
     <1>16, <1>17, <1>18, <1>19 DEF CallStep

\* Every step keeps the types.
LEMMA TypeStep ==
  ASSUME TypeOK, CallsOK, [Next]_vars
  PROVE  TypeOK'
<1> USE DEF TypeOK
<1>1. CASE Prepare
  BY <1>1 DEF Prepare, NoOp, Op, Status, coreVars
<1>2. CASE DeleteAccount
  BY <1>2, SentryAssumption DEF DeleteAccount, NoOp, Op, Status, Times, coreVars
<1>3. CASE \E c \in Calls : CallStep(c)
  BY <1>3, CallStepType
<1>4. CASE \E s \in Signed : TxStep(s)
  <2>1. PICK s \in Signed : TxStep(s)
    BY <1>4
  <2>2. CASE Arrives(s)
    BY <2>2 DEF Arrives, Enter, History
  <2>3. CASE Mined(s)
    BY <2>3 DEF Mined, History
  <2>4. CASE Dropped(s)
    BY <2>4 DEF Dropped
  <2> QED
    BY <2>1, <2>2, <2>3, <2>4 DEF TxStep
<1>5. CASE Restart
  BY <1>5, CallUpdates DEF Restart, coreVars
<1>6. CASE Supersede
  BY <1>6 DEF Supersede
<1>7. CASE ClockTick
  BY <1>7, SentryAssumption DEF ClockTick, Times, coreVars
<1>8. CASE UNCHANGED vars
  BY <1>8 DEF vars
<1> QED
  BY <1>1, <1>2, <1>3, <1>4, <1>5, <1>6, <1>7, <1>8 DEF Next

-----------------------------------------------------------------------------
(* What a step does to the row and to what was sent.                       *)

\* Handler c ends with a status write.
Writes(c) ==
  /\ hist' = hist
  /\ call[c].pc \in {"accepted", "broadcast", "refused", "observed"}
  /\ call' = [call EXCEPT ![c] = Idle]
  /\ \E s \in Journaled : SetStatus(s)

\* Handler c claims the row, for the first time or again, and sends.
Claims(c) ==
  /\ \/ call[c].pc = "validate" /\ op.status = "prepared"
     \/ call[c].pc = "stored" /\ Reclaimable(call[c].row)
  /\ op' = [op EXCEPT !.status = "submitting", !.tx = call[c].tx, !.updated = now]
  /\ Send(c, call[c].tx)

\* Everything else leaves the row and the bytes sent alone.
Keeps == op' = op /\ hist'.sent = hist.sent /\ hist'.last = hist.last

\* A handler writes a status, claims the row and sends, or touches neither.
LEMMA CallKinds ==
  ASSUME TypeOK, CallsOK, NEW c \in Calls, CallStep(c)
  PROVE  \/ Writes(c) /\ UNCHANGED <<chain, now>>
         \/ Claims(c) /\ UNCHANGED <<chain, now>>
         \/ Keeps
<1>1. CASE SubmitClaim(c)
  BY <1>1 DEF SubmitClaim, Claimable, Claims, coreVars
<1>2. CASE RetryClaim(c)
  <2>1. op.tx = call[c].tx
    BY <1>2 DEF RetryClaim, Reclaimable, CallsOK, Bound, Exists, Journaled
  <2>2. op' = [op EXCEPT !.status = "submitting", !.tx = call[c].tx,
                         !.updated = now]
    BY <1>2, <2>1 DEF RetryClaim, TypeOK, Op
  <2> QED
    BY <1>2, <2>2 DEF RetryClaim, Claims, coreVars
<1>3. CASE BroadcastDone(c) \/ BroadcastFailed(c) \/ RetryKnown(c)
  BY <1>3
  DEF BroadcastDone, BroadcastFailed, RetryKnown, MinedStatus, Writes, Done,
      Journaled, coreVars
<1>4. CASE ReconcileApply(c)
  BY <1>4
  DEF ReconcileApply, MinedStatus, Writes, Done, Journaled, coreVars, Keeps
<1>5. CASE CoreAccepts(c)
  BY <1>5 DEF CoreAccepts, Enter, Keeps, TypeOK, History
<1>6. CASE \/ \E s \in Signed : SubmitStart(c, s)
           \/ \E retry \in BOOLEAN : ReadbackStart(c, retry)
           \/ CheckFailed(c) \/ ReadbackFailed(c) \/ RetryAbsent(c)
           \/ ReadTx(c) \/ ReadNode(c) \/ CoreRefuses(c)
  BY <1>6
  DEF SubmitStart, ReadbackStart, CheckFailed, ReadbackFailed, RetryAbsent,
      ReadTx, ReadNode, CoreRefuses, Keeps
<1> QED
  BY <1>1, <1>2, <1>3, <1>4, <1>5, <1>6 DEF CallStep

\* The same, of any step.
LEMMA StepKinds ==
  ASSUME TypeOK, CallsOK, [Next]_vars
  PROVE  \/ Prepare
         \/ DeleteAccount
         \/ \E c \in Calls : Writes(c) /\ UNCHANGED <<chain, now>>
         \/ \E c \in Calls : Claims(c) /\ UNCHANGED <<chain, now>>
         \/ Keeps
<1>1. ASSUME NEW c \in Calls, CallStep(c)
      PROVE  \/ Writes(c) /\ UNCHANGED <<chain, now>>
             \/ Claims(c) /\ UNCHANGED <<chain, now>>
             \/ Keeps
  BY <1>1, CallKinds
<1>2. ASSUME NEW s \in Signed, TxStep(s) PROVE Keeps
  BY <1>2 DEF TxStep, Arrives, Enter, Mined, Dropped, Keeps, TypeOK, History
<1>3. CASE Restart \/ Supersede \/ ClockTick \/ UNCHANGED vars
  BY <1>3 DEF Restart, Supersede, ClockTick, vars, Keeps
<1> QED
  BY <1>1, <1>2, <1>3 DEF Next

\* The row and the bytes that were sent.
LEMMA RowStep ==
  ASSUME TypeOK, RowOK, CallsOK, [Next]_vars
  PROVE  RowOK'
<1>1. CASE Prepare
  BY <1>1 DEF Prepare, RowOK, NoOp, Journaled
<1>2. CASE DeleteAccount
  BY <1>2 DEF DeleteAccount, RowOK, NoOp, Journaled
<1>3. CASE \E c \in Calls : Writes(c)
  <2>1. PICK c \in Calls, s \in Journaled : Writes(c) /\ SetStatus(s)
    BY <1>3 DEF Writes
  <2>2. CASE Exists
    <3>1. op.tx # None
      BY <2>1, <2>2, SentryAssumption DEF Writes, CallsOK, Bound
    <3>2. op'.tx = op.tx /\ op'.status = s /\ hist' = hist
      BY <2>1, <2>2 DEF SetStatus, Writes, TypeOK, Op
    <3> QED
      BY <2>2, <3>1, <3>2 DEF RowOK, Exists, Journaled
  <2>3. CASE ~Exists
    BY <2>1, <2>3 DEF SetStatus, Writes, RowOK
  <2> QED
    BY <2>2, <2>3
<1>4. CASE \E c \in Calls : Claims(c)
  <2>1. PICK c \in Calls : Claims(c)
    BY <1>4
  <2>2. call[c].tx \in Signed
    BY <2>1 DEF Claims, CallsOK
  <2>3. /\ op'.status = "submitting" /\ op'.tx = call[c].tx
        /\ hist'.sent = hist.sent \cup {call[c].tx}
    BY <2>1 DEF Claims, Send, TypeOK, Op, History
  <2>4. hist.sent \subseteq {call[c].tx}
    BY <2>1 DEF Claims, Reclaimable, RowOK, CallsOK, Bound, Exists, Journaled
  <2> QED
    BY <2>2, <2>3, <2>4, SentryAssumption DEF RowOK, Journaled
<1>5. CASE Keeps
  BY <1>5 DEF Keeps, RowOK
<1> QED
  BY <1>1, <1>2, <1>3, <1>4, <1>5, StepKinds

\* The journal names what was sent.
LEMMA RowPublishesOnce == RowOK => OnePublication
BY DEF RowOK, OnePublication, Exists

\* The same, of the next state.
LEMMA RowPublishesOnceNext == RowOK' => OnePublication'
BY DEF RowOK, OnePublication, Exists

-----------------------------------------------------------------------------
(* What handlers hold, and what Core showed them.                          *)

\* A handler's step: it leaves the other handlers alone.
LEMMA OthersKept ==
  ASSUME TypeOK, NEW c \in Calls, CallStep(c)
  PROVE  \A d \in Calls \ {c} : call'[d] = call[d]
BY DEF TypeOK, CallStep, SubmitStart, SubmitClaim, CheckFailed, BroadcastDone,
       BroadcastFailed, ReadbackStart, ReadTx, ReadNode, ReadbackFailed,
       RetryKnown, RetryAbsent, RetryClaim, ReconcileApply, CoreAccepts,
       CoreRefuses, Done, Goto, Send, Saw

\* What becomes of the handler that steps: it ends, starts, or goes on with the
\* same transaction, bound to the row if it was or if it just claimed it.
LEMMA OwnCall ==
  ASSUME TypeOK, CallsOK, NEW c \in Calls, CallStep(c)
  PROVE  \/ call'[c].pc = "idle"
         \/ /\ call'[c].pc = "validate" /\ call'[c].tx \in Signed
            /\ op.status = "prepared"
         \/ /\ call'[c].pc = "readback" /\ call'[c].tx = op.tx
            /\ op.tx # None /\ op' = op
         \/ Bound(c) /\ call'[c].tx = call[c].tx /\ op' = op
         \/ call'[c].tx = call[c].tx /\ op'.tx = call[c].tx /\ call[c].pc # "idle"
<1> USE DEF TypeOK
<1>1. CASE \E s \in Signed : SubmitStart(c, s)
  BY <1>1 DEF SubmitStart, Idle
<1>2. CASE \E retry \in BOOLEAN : ReadbackStart(c, retry)
  BY <1>2 DEF ReadbackStart
<1>3. CASE SubmitClaim(c)
  BY <1>3 DEF SubmitClaim, Send, Op
<1>4. CASE RetryClaim(c)
  BY <1>4 DEF RetryClaim, Send, Reclaimable, CallsOK, Bound, Exists, Journaled, Op
<1>5. CASE \/ CheckFailed(c) \/ ReadbackFailed(c) \/ BroadcastDone(c)
           \/ BroadcastFailed(c) \/ RetryKnown(c) \/ ReconcileApply(c)
  BY <1>5 DEF CheckFailed, ReadbackFailed, BroadcastDone, BroadcastFailed,
              RetryKnown, ReconcileApply, Done, Idle
<1>6. CASE ReadTx(c) \/ ReadNode(c) \/ RetryAbsent(c) \/ CoreAccepts(c)
           \/ CoreRefuses(c)
  BY <1>6 DEF ReadTx, ReadNode, RetryAbsent, CoreAccepts, CoreRefuses, Goto,
              Saw, Bound, Call
<1> QED
  BY <1>1, <1>2, <1>3, <1>4, <1>5, <1>6 DEF CallStep

\* Handlers keep holding the transaction the row names.
LEMMA CallsStep ==
  ASSUME TypeOK, RowOK, CallsOK, [Next]_vars
  PROVE  CallsOK'
<1>1. CASE Prepare
  BY <1>1 DEF Prepare, CallsOK, Bound
<1>2. CASE DeleteAccount
  BY <1>2 DEF DeleteAccount, CallsOK, Bound, Exists, NoOp
<1>3. ASSUME NEW c \in Calls, CallStep(c)
      PROVE  CallsOK'
  <2>1. op.status # "none"
    BY <1>3 DEF CallsOK, CallStep, SubmitStart, SubmitClaim, CheckFailed,
       BroadcastDone, BroadcastFailed, ReadbackStart, ReadTx, ReadNode,
       ReadbackFailed, RetryKnown, RetryAbsent, RetryClaim, ReconcileApply,
       CoreAccepts, CoreRefuses, RowOK, Journaled
  <2>2. \/ op'.tx = op.tx /\ op'.status \notin {"none"} /\ (Exists' => Exists)
        \/ /\ Claims(c) /\ op'.tx = call[c].tx /\ op'.status = "submitting"
           /\ (op.status = "prepared" \/ op.tx = call[c].tx)
    <3>1. CASE Writes(c)
      BY <2>1, <3>1 DEF Writes, SetStatus, Exists, Journaled, TypeOK, Op
    <3>2. CASE Claims(c)
      BY <3>2 DEF Claims, Reclaimable, CallsOK, Bound, Exists, Journaled, TypeOK, Op
    <3>3. CASE Keeps
      BY <2>1, <3>3 DEF Keeps, Exists
    <3> QED
      BY <1>3, <3>1, <3>2, <3>3, CallKinds
  <2>3. ASSUME NEW d \in Calls \ {c}
        PROVE  /\ call'[d].pc # "idle" => call'[d].tx \in Signed
               /\ Bound(d)' /\ Exists' => call'[d].tx = op'.tx
    <3>1. call'[d] = call[d]
      BY <1>3, OthersKept
    <3>2. CASE op.status = "prepared"
      <4>1. ~Bound(d)
        BY <3>2, SentryAssumption DEF RowOK, CallsOK, Exists, Journaled, Bound
      <4> QED
        BY <3>1, <4>1 DEF CallsOK, Bound
    <3>3. CASE op.status # "prepared"
      BY <2>2, <3>1, <3>3 DEF CallsOK, Bound, Exists, Claims, Reclaimable, Journaled
    <3> QED
      BY <3>2, <3>3
  <2>4. /\ call'[c].pc # "idle" => call'[c].tx \in Signed
        /\ Bound(c)' /\ Exists' => call'[c].tx = op'.tx
    BY <1>3, <2>2, OwnCall DEF CallsOK, Bound, Exists, TypeOK, Op
  <2> QED
    BY <2>1, <2>2, <2>3, <2>4 DEF CallsOK
<1>4. CASE \E s \in Signed : TxStep(s)
  BY <1>4 DEF TxStep, Arrives, Mined, Dropped, CallsOK, Bound, Exists
<1>5. CASE Restart
  BY <1>5 DEF Restart, CallsOK, Bound, Idle
<1>6. CASE Supersede \/ ClockTick \/ UNCHANGED vars
  BY <1>6 DEF Supersede, ClockTick, vars, CallsOK, Bound, Exists
<1> QED
  BY <1>1, <1>2, <1>3, <1>4, <1>5, <1>6 DEF Next

\* What Core ever held only grows, and contains what it holds now.
LEMMA ChainStep ==
  ASSUME TypeOK, CallsOK, ObservedOK, [Next]_vars
  PROVE  /\ hist.seen \subseteq hist'.seen /\ hist.mined \subseteq hist'.mined
         /\ ChainOK'
<1> DEFINE Grows == /\ hist.seen \subseteq hist'.seen
                    /\ hist.mined \subseteq hist'.mined
                    /\ ChainOK'
<1>1. ASSUME NEW s \in Signed, Enter(s) PROVE Grows
  BY <1>1 DEF Enter, TypeOK, History, ObservedOK, ChainOK
<1>2. ASSUME UNCHANGED <<chain, hist>> PROVE Grows
  BY <1>2 DEF ObservedOK, ChainOK
<1>3. ASSUME NEW c \in Calls, CallStep(c) PROVE Grows
  <2>1. CASE CoreAccepts(c)
    <3>1. call[c].tx \in Signed
      BY <2>1 DEF CoreAccepts, CallsOK
    <3> QED
      BY <1>1, <1>2, <2>1, <3>1 DEF CoreAccepts
  <2>2. CASE SubmitClaim(c) \/ RetryClaim(c)
    BY <2>2 DEF SubmitClaim, RetryClaim, Send, coreVars, TypeOK, History, ObservedOK, ChainOK
  <2>3. CASE ~CoreAccepts(c) /\ ~SubmitClaim(c) /\ ~RetryClaim(c)
    BY <1>2, <1>3, <2>3
    DEF CallStep, SubmitStart, CheckFailed, BroadcastDone, BroadcastFailed,
        ReadbackStart, ReadTx, ReadNode, ReadbackFailed, RetryKnown,
        RetryAbsent, ReconcileApply, CoreRefuses, coreVars
  <2> QED
    BY <2>1, <2>2, <2>3
<1>4. ASSUME NEW s \in Signed, TxStep(s) PROVE Grows
  <2>1. CASE Arrives(s)
    BY <1>1, <2>1 DEF Arrives
  <2>2. CASE Mined(s)
    BY <2>2 DEF Mined, TypeOK, History, ObservedOK, ChainOK
  <2>3. CASE Dropped(s)
    BY <2>3 DEF Dropped, TypeOK, ObservedOK, ChainOK
  <2> QED
    BY <1>4, <2>1, <2>2, <2>3 DEF TxStep
<1>5. CASE Prepare \/ DeleteAccount \/ Restart \/ Supersede \/ ClockTick
           \/ UNCHANGED vars
  BY <1>2, <1>5 DEF Prepare, DeleteAccount, Restart, Supersede, ClockTick,
                    coreVars, vars
<1> QED
  BY <1>3, <1>4, <1>5 DEF Next

\* A handler that steps reports nothing that was not the case.
LEMMA OwnObservation ==
  ASSUME TypeOK, CallsOK, ObservedOK, NEW c \in Calls, CallStep(c)
  PROVE  ReportOK(c)'
<1> USE DEF TypeOK
<1>1. CASE CoreAccepts(c)
  <2>1. call'[c].pc = "accepted" /\ call'[c].tx = call[c].tx /\ call[c].tx \in Signed
    BY <1>1 DEF CoreAccepts, Goto, CallsOK, Call
  <2>2. call[c].tx \in hist'.seen
    BY <1>1, <2>1 DEF CoreAccepts, Enter, ObservedOK, ChainOK, History
  <2> QED
    BY <2>1, <2>2 DEF ReportOK
<1>2. CASE ReadTx(c)
  <2>1. call[c].pc = "readback" /\ call[c].tx \in Signed /\ hist' = hist
    BY <1>2 DEF ReadTx, CallsOK
  <2> QED
    BY <1>2, <2>1 DEF ReadTx, Saw, Goto, ObservedOK, ChainOK, ReportsOK, ReportOK, Call, SawMined
<1>3. CASE ReadNode(c)
  BY <1>3 DEF ReadNode, Saw, ObservedOK, ChainOK, ReportsOK, ReportOK, Call, SawMined
<1>4. CASE \/ \E s \in Signed : SubmitStart(c, s)
           \/ \E retry \in BOOLEAN : ReadbackStart(c, retry)
  <2>1. call'[c].pc \in {"validate", "readback"}
    <3>1. CASE \E s \in Signed : SubmitStart(c, s)
      BY <3>1, FreshCall DEF SubmitStart
    <3>2. CASE \E retry \in BOOLEAN : ReadbackStart(c, retry)
      BY <3>2 DEF ReadbackStart
    <3> QED
      BY <1>4, <3>1, <3>2
  <2> QED
    BY <2>1 DEF ReportOK
<1>5. CASE SubmitClaim(c) \/ RetryClaim(c) \/ RetryAbsent(c) \/ CoreRefuses(c)
  <2>1. call'[c].pc \in {"broadcast", "stored", "refused"}
    <3>1. CASE SubmitClaim(c) \/ RetryClaim(c)
      BY <3>1, SentCall DEF SubmitClaim, RetryClaim
    <3>2. CASE RetryAbsent(c) \/ CoreRefuses(c)
      BY <3>2 DEF RetryAbsent, CoreRefuses, Goto, Call
    <3> QED
      BY <1>5, <3>1, <3>2
  <2> QED
    BY <2>1 DEF ReportOK
<1>6. CASE \/ CheckFailed(c) \/ ReadbackFailed(c) \/ BroadcastDone(c)
           \/ BroadcastFailed(c) \/ RetryKnown(c) \/ ReconcileApply(c)
  BY <1>6 DEF CheckFailed, ReadbackFailed, BroadcastDone, BroadcastFailed,
              RetryKnown, ReconcileApply, Done, Idle, ReportOK
<1> QED
  BY <1>1, <1>2, <1>3, <1>4, <1>5, <1>6 DEF CallStep

\* A report stays true as long as the handler keeps it.
LEMMA ReportKept ==
  ASSUME TypeOK, CallsOK, ObservedOK, [Next]_vars, NEW d \in Calls,
         call'[d] = call[d]
  PROVE  ReportOK(d)'
<1>1. hist.seen \subseteq hist'.seen /\ hist.mined \subseteq hist'.mined
  BY ChainStep
<1> QED
  BY <1>1 DEF ObservedOK, ChainOK, ReportsOK, ReportOK, SawMined

\* Handlers' reports, and Core's history, stay true.
LEMMA ObservedStep ==
  ASSUME TypeOK, CallsOK, ObservedOK, [Next]_vars
  PROVE  ObservedOK'
<1>1. ASSUME NEW d \in Calls PROVE ReportOK(d)'
  <2>1. ASSUME NEW c \in Calls, CallStep(c) PROVE ReportOK(d)'
    <3>1. CASE d = c
      BY <2>1, <3>1, OwnObservation
    <3>2. CASE d # c
      BY <2>1, <3>2, OthersKept, ReportKept
    <3> QED
      BY <3>1, <3>2
  <2>2. CASE Restart
    BY <2>2 DEF Restart, Idle, ReportOK
  <2>3. CASE \/ Prepare \/ DeleteAccount \/ \E s \in Signed : TxStep(s)
             \/ Supersede \/ ClockTick \/ UNCHANGED vars
    BY <2>3, ReportKept
    DEF Prepare, DeleteAccount, TxStep, Arrives, Mined, Dropped, Supersede,
        ClockTick, vars
  <2> QED
    BY <2>1, <2>2, <2>3 DEF Next
<1>2. ReportsOK'
  BY <1>1 DEF ReportsOK
<1> QED
  BY <1>2, ChainStep DEF ObservedOK

-----------------------------------------------------------------------------
(* The clock, and the statuses.                                            *)

\* The row is touched whenever bytes are sent, and retries have waited.
LEMMA ClockStep ==
  ASSUME TypeOK, CallsOK, ClockOK, [Next]_vars
  PROVE  ClockOK'
<1>1. /\ now \in Int /\ op.updated \in Int /\ hist.last \in Int
      /\ RetryWait \in Int /\ \A c \in Calls : call[c].row.updated \in Int
  BY SentryAssumption DEF TypeOK, Op, History, Call, Read, Times
<1>2. /\ Exists' => hist'.last <= op'.updated
      /\ op'.status = "none" => hist'.last = 0
      /\ op'.updated <= now' /\ now' \in Int /\ now' >= now
  <2>1. now' \in Int /\ now' >= now
    <3>1. ASSUME NEW c \in Calls, CallStep(c) PROVE now' = now
      BY <3>1 DEF CallStep, SubmitStart, SubmitClaim, CheckFailed, BroadcastDone,
         BroadcastFailed, ReadbackStart, ReadTx, ReadNode, ReadbackFailed,
         RetryKnown, RetryAbsent, RetryClaim, ReconcileApply, CoreAccepts,
         CoreRefuses
    <3>2. ASSUME NEW s \in Signed, TxStep(s) PROVE now' = now
      BY <3>2 DEF TxStep, Arrives, Mined, Dropped
    <3>3. CASE ClockTick
      BY <1>1, <3>3 DEF ClockTick
    <3>4. CASE Prepare \/ DeleteAccount \/ Restart \/ Supersede \/ UNCHANGED vars
      BY <1>1, <3>4 DEF Prepare, DeleteAccount, Restart, Supersede, vars
    <3> QED
      BY <1>1, <3>1, <3>2, <3>3, <3>4 DEF Next
  <2>2. CASE Prepare
    BY <1>1, <2>2 DEF Prepare, NoOp, ClockOK, TypeOK, Times
  <2>3. CASE DeleteAccount
    BY <1>1, <2>3, SentryAssumption
    DEF DeleteAccount, NoOp, ClockOK, Exists, TypeOK, Times
  <2>4. CASE \E c \in Calls : Writes(c) /\ UNCHANGED <<chain, now>>
    BY <1>1, <2>4 DEF Writes, SetStatus, ClockOK, Exists, Journaled, TypeOK, Op
  <2>5. CASE \E c \in Calls : Claims(c) /\ UNCHANGED <<chain, now>>
    BY <1>1, <2>5 DEF Claims, Send, TypeOK, Op, History
  <2>6. CASE Keeps
    BY <1>1, <2>1, <2>6 DEF Keeps, ClockOK, Exists
  <2> QED
    BY <2>1, <2>2, <2>3, <2>4, <2>5, <2>6, StepKinds
<1>3. ASSUME NEW d \in Calls, call'[d].pc = "stored"
      PROVE  now' - call'[d].row.updated >= RetryWait
  <2>1. CASE call'[d] = call[d]
    BY <1>1, <1>2, <1>3, <2>1 DEF ClockOK
  <2>2. ASSUME NEW c \in Calls, CallStep(c), call'[d] # call[d]
        PROVE  RetryAbsent(d)
    <3>1. d = c
      BY <2>2, OthersKept
    <3>2. call[c] \in Call /\ call \in [Calls -> Call] /\ call'[c].pc = "stored"
      BY <1>3, <3>1 DEF TypeOK
    <3>3. CASE \E s \in Signed : SubmitStart(c, s)
      BY <3>2, <3>3, FreshCall DEF SubmitStart
    <3>7. CASE \E retry \in BOOLEAN : ReadbackStart(c, retry)
      BY <3>2, <3>7 DEF ReadbackStart
    <3>4. CASE SubmitClaim(c) \/ RetryClaim(c)
      BY <3>2, <3>4, SentCall DEF SubmitClaim, RetryClaim
    <3>5. CASE \/ CheckFailed(c) \/ ReadbackFailed(c) \/ BroadcastDone(c)
               \/ BroadcastFailed(c) \/ RetryKnown(c) \/ ReconcileApply(c)
      BY <3>2, <3>5 DEF CheckFailed, ReadbackFailed, BroadcastDone,
                        BroadcastFailed, RetryKnown, ReconcileApply, Done, Idle
    <3>6. CASE ReadTx(c) \/ ReadNode(c) \/ CoreAccepts(c) \/ CoreRefuses(c)
      BY <3>2, <3>6 DEF ReadTx, ReadNode, CoreAccepts, CoreRefuses, Goto, Saw, Call
    <3> QED
      BY <2>2, <3>1, <3>3, <3>4, <3>5, <3>6, <3>7 DEF CallStep
  <2>3. CASE RetryAbsent(d)
    BY <1>1, <2>3 DEF RetryAbsent, Goto, TypeOK, Call
  <2>4. CASE Restart
    BY <1>3, <2>4 DEF Restart, Idle
  <2>5. CASE \/ Prepare \/ DeleteAccount \/ \E s \in Signed : TxStep(s)
             \/ Supersede \/ ClockTick \/ UNCHANGED vars
    BY <2>1, <2>5 DEF Prepare, DeleteAccount, TxStep, Arrives, Mined, Dropped,
                      Supersede, ClockTick, vars
  <2> QED
    BY <2>1, <2>2, <2>3, <2>4, <2>5 DEF Next
<1> QED
  BY <1>2, <1>3 DEF ClockOK

\* A status write has its evidence behind it.
LEMMA EvidenceStep ==
  ASSUME TypeOK, CallsOK, ObservedOK, StatusWasObserved,
         NEW c \in Calls, CallStep(c)
  PROVE  /\ op'.status = "submitted" => op'.tx \in hist'.seen
         /\ op'.status \in {"confirmed", "state_changed"} => op'.tx \in hist'.mined
<1>1. hist.seen \subseteq hist'.seen /\ hist.mined \subseteq hist'.mined
  BY ChainStep DEF Next
<1>2. CASE op' = op
  BY <1>1, <1>2 DEF StatusWasObserved
<1>3. CASE op'.status \in {"submitting", "submission_unknown"}
  BY <1>3
<1>4. ASSUME NEW s \in {"submitted", "confirmed", "state_changed"}, Exists,
             SetStatus(s), Bound(c), hist' = hist,
             s = "submitted" => call[c].tx \in hist.seen,
             s # "submitted" => call[c].tx \in hist.mined
      PROVE  /\ op'.status = "submitted" => op'.tx \in hist'.seen
             /\ op'.status \in {"confirmed", "state_changed"} => op'.tx \in hist'.mined
  <2>1. op'.status = s /\ op'.tx = call[c].tx
    BY <1>4 DEF SetStatus, CallsOK, TypeOK, Op
  <2> QED
    BY <1>4, <2>1
<1>5. CASE BroadcastDone(c) /\ Exists
  BY <1>4, <1>5 DEF BroadcastDone, ObservedOK, ReportsOK, ReportOK, Bound
<1>6. CASE RetryKnown(c) /\ Exists
  <2>1. call[c].saw \in {"known", "matches", "differs"}
    BY <1>6 DEF RetryKnown, ObservedOK, ReportsOK, ReportOK, TypeOK, Call,
                Observation
  <2>2. /\ call[c].saw = "known" => call[c].tx \in hist.seen
        /\ SawMined(c) => call[c].tx \in hist.mined
    BY <1>6 DEF RetryKnown, ObservedOK, ReportsOK, ReportOK
  <2>3. CASE SawMined(c)
    BY <1>4, <1>6, <2>2, <2>3 DEF RetryKnown, MinedStatus, Bound
  <2>4. CASE ~SawMined(c)
    BY <1>4, <1>6, <2>1, <2>2, <2>4 DEF RetryKnown, SawMined, Bound
  <2> QED
    BY <2>3, <2>4
<1>7. CASE ReconcileApply(c) /\ Exists
  <2>1. CASE SawMined(c)
    BY <1>4, <1>7, <2>1
    DEF ReconcileApply, MinedStatus, Bound, ObservedOK, ReportsOK, ReportOK
  <2>2. CASE ~SawMined(c)
    BY <1>2, <1>3, <1>7, <2>2 DEF ReconcileApply, SetStatus, TypeOK, Op
  <2> QED
    BY <2>1, <2>2
<1>8. CASE SubmitClaim(c) \/ RetryClaim(c)
  BY <1>3, <1>8 DEF SubmitClaim, RetryClaim, TypeOK, Op
<1>9. CASE BroadcastFailed(c)
  BY <1>2, <1>3, <1>9 DEF BroadcastFailed, SetStatus, TypeOK, Op
<1>10. CASE ~Exists /\ (BroadcastDone(c) \/ RetryKnown(c) \/ ReconcileApply(c))
  BY <1>2, <1>10 DEF BroadcastDone, RetryKnown, ReconcileApply, SetStatus
<1>11. CASE \/ \E s \in Signed : SubmitStart(c, s)
            \/ \E retry \in BOOLEAN : ReadbackStart(c, retry)
            \/ CheckFailed(c) \/ ReadbackFailed(c) \/ RetryAbsent(c) \/ ReadTx(c)
            \/ ReadNode(c) \/ CoreAccepts(c) \/ CoreRefuses(c)
  BY <1>2, <1>11
  DEF SubmitStart, ReadbackStart, CheckFailed, ReadbackFailed, RetryAbsent,
      ReadTx, ReadNode, CoreAccepts, CoreRefuses
<1> QED
  BY <1>5, <1>6, <1>7, <1>8, <1>9, <1>10, <1>11 DEF CallStep

\* Every step leaves a status with its evidence.
LEMMA StatusStep ==
  ASSUME TypeOK, CallsOK, ObservedOK, StatusWasObserved, [Next]_vars
  PROVE  StatusWasObserved'
<1>1. CASE \E c \in Calls : CallStep(c)
  BY <1>1, EvidenceStep DEF StatusWasObserved
<1>2. CASE Prepare \/ DeleteAccount
  BY <1>2 DEF Prepare, DeleteAccount, NoOp, StatusWasObserved
<1>3. CASE op' = op
  BY <1>3, ChainStep DEF StatusWasObserved
<1> QED
  BY <1>1, <1>2, <1>3
  DEF Next, TxStep, Arrives, Mined, Dropped, Restart, Supersede, ClockTick, vars

-----------------------------------------------------------------------------
\* The journal invariant is inductive: the row and the bytes sent name the same
\* transaction, handlers hold that transaction and true reports of it, and
\* nothing was sent after the row was last touched.
THEOREM JournalInvariant == Spec => []JournalInv
<1>1. JournalInv /\ [Next]_vars => JournalInv'
  BY TypeStep, RowStep, CallsStep, ObservedStep, ClockStep, StatusStep,
     RowPublishesOnce, RowPublishesOnceNext DEF JournalInv
<1> QED
  BY JournalInit, <1>1, PTL DEF Spec

\* Whatever submits and retries race, and wherever the process is restarted,
\* the only bytes ever sent for an operation are those its row names.
THEOREM OnePublicationAlways == Spec => []OnePublication
<1>1. JournalInv => OnePublication
  BY DEF JournalInv
<1> QED
  BY JournalInvariant, <1>1, PTL

\* No status of an operation is made up: Core held, or mined, the transaction.
THEOREM StatusWasObservedAlways == Spec => []StatusWasObserved
<1>1. JournalInv => StatusWasObserved
  BY DEF JournalInv
<1> QED
  BY JournalInvariant, <1>1, PTL

\* A retry sends at least RetryWait after the last attempt, although the row
\* and the clock were looked at before several awaits.
THEOREM AttemptsSpacedAlways == Spec => AttemptsSpaced
<1> DEFINE Spaced == \A c \in Calls :
                       call[c].pc = "stored" /\ call'[c].pc = "broadcast" =>
                         now - hist.last >= RetryWait
<1>1. ASSUME JournalInv, [Next]_vars PROVE [Spaced]_vars
  <2> SUFFICES ASSUME NEW c \in Calls,
                      call[c].pc = "stored", call'[c].pc = "broadcast"
               PROVE  now - hist.last >= RetryWait
    OBVIOUS
  <2>1. RetryClaim(c)
    <3>1. ASSUME NEW d \in Calls, CallStep(d) PROVE d = c /\ CallStep(c)
      BY <1>1, <3>1, OthersKept DEF JournalInv
    <3>2. CallStep(c)
      BY <1>1, <3>1 DEF Next, Prepare, DeleteAccount, TxStep, Arrives, Mined,
                        Dropped, Restart, Supersede, ClockTick, vars, Idle
    <3> QED
      BY <1>1, <3>2
      DEF JournalInv, TypeOK, CallStep, SubmitStart, SubmitClaim, CheckFailed,
          BroadcastDone, BroadcastFailed, ReadbackStart, ReadTx, ReadNode,
          ReadbackFailed, RetryKnown, RetryAbsent, ReconcileApply, CoreAccepts,
          CoreRefuses, Done, Idle
  <2>2. op.updated = call[c].row.updated /\ Exists
    BY <2>1 DEF RetryClaim, Reclaimable, Exists, Journaled
  <2>3. /\ now \in Int /\ op.updated \in Int /\ hist.last \in Int
        /\ RetryWait \in Int
    BY <1>1, SentryAssumption DEF JournalInv, TypeOK, Op, History, Times
  <2> QED
    BY <1>1, <2>2, <2>3 DEF JournalInv, ClockOK
<1> QED
  BY JournalInvariant, <1>1, PTL DEF Spec, AttemptsSpaced
=============================================================================
