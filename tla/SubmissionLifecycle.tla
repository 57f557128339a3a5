------------------------- MODULE SubmissionLifecycle -------------------------
(***************************************************************************)
(* What the proposal pipeline promises about one table of submissions,     *)
(* without saying how: the state diagram in the header comment of          *)
(* lib/proposalSubmissions.js, together with the notification the          *)
(* dispatcher owes the user for a terminal transition.                     *)
(*                                                                         *)
(* A submission is created prepared, is paid once, is then published or    *)
(* given up for good, and may be removed.  The terminal transition creates *)
(* the one and only obligation to tell the user that very outcome; it is   *)
(* discharged at most once and may be forgotten (a crash, a mailer error). *)
(***************************************************************************)
CONSTANT Ids   \* submissions that may ever exist

VARIABLES
  life,   \* per submission, where it is in the diagram
  owed,   \* per submission, the outcome about to be told
  told    \* per submission, the outcome the user was told

lifeVars == <<life, owed, told>>

Outcome == {"submitted", "failed"}
Life == {"absent", "prepared", "awaiting_collateral", "removed"} \cup Outcome

LifeTypeOK ==
  /\ life \in [Ids -> Life]
  /\ owed \in [Ids -> Outcome \cup {"none"}]
  /\ told \in [Ids -> Outcome \cup {"none"}]

LifeInit ==
  /\ life = [i \in Ids |-> "absent"]
  /\ owed = [i \in Ids |-> "none"]
  /\ told = [i \in Ids |-> "none"]

Prepare(i) ==
  /\ life[i] = "absent"
  /\ life' = [life EXCEPT ![i] = "prepared"]
  /\ UNCHANGED <<owed, told>>

Pay(i) ==
  /\ life[i] = "prepared"
  /\ life' = [life EXCEPT ![i] = "awaiting_collateral"]
  /\ UNCHANGED <<owed, told>>

Settle(i, outcome) ==
  /\ life[i] = "awaiting_collateral"
  /\ life' = [life EXCEPT ![i] = outcome]
  /\ owed' = [owed EXCEPT ![i] = outcome]
  /\ UNCHANGED told

Tell(i) ==
  /\ owed[i] # "none"
  /\ told' = [told EXCEPT ![i] = owed[i]]
  /\ owed' = [owed EXCEPT ![i] = "none"]
  /\ UNCHANGED life

Forget(i) ==
  /\ owed[i] # "none"
  /\ owed' = [owed EXCEPT ![i] = "none"]
  /\ UNCHANGED <<life, told>>

\* A prepared or failed submission alone, or whatever an account holds.
Remove(S) ==
  /\ \A i \in S : life[i] \notin {"absent", "removed"}
  /\ life' = [i \in Ids |-> IF i \in S THEN "removed" ELSE life[i]]
  /\ UNCHANGED <<owed, told>>

LifeNext ==
  \/ \E i \in Ids : \/ Prepare(i) \/ Pay(i) \/ Tell(i) \/ Forget(i)
                    \/ \E outcome \in Outcome : Settle(i, outcome)
  \/ \E S \in SUBSET Ids : Remove(S)

LifeSpec == LifeInit /\ [][LifeNext]_lifeVars

\* One outcome is told, and it is the one that was recorded: nothing is told
\* before the row is terminal, nothing is owed once something was told.
ToldOutcome ==
  \A i \in Ids :
    /\ told[i] # "none" => owed[i] = "none" /\ life[i] \in {told[i], "removed"}
    /\ owed[i] # "none" => told[i] = "none" /\ life[i] \in {owed[i], "removed"}
=============================================================================
