------------------------- MODULE ProposalsImplements -------------------------
(***************************************************************************)
(* The pipeline implements the abstract life cycle of submissions: the     *)
(* refinement mapping, checked by TLC as the property Implements.          *)
(***************************************************************************)
EXTENDS Proposals

\* Row ids are never reused (AUTOINCREMENT): an empty slot below nextId is a
\* submission that was removed.
LifeOf(i) ==
  IF rows[i].status # "none" THEN rows[i].status
  ELSE IF i < nextId THEN "removed" ELSE "absent"

\* The dispatcher that won the compare-and-swap is about to run the hook.
OwedOf(i) ==
  IF \E w \in Workers : pc[w] = "hook" /\ cur[w].id = i
    THEN LET w == CHOOSE v \in Workers : pc[v] = "hook" /\ cur[v].id = i
         IN IF why[w] = "submitted" THEN "submitted" ELSE "failed"
    ELSE "none"

ToldOf(i) ==
  IF mails[i].submitted > 0 THEN "submitted"
  ELSE IF mails[i].failed > 0 THEN "failed" ELSE "none"

Life == INSTANCE SubmissionLifecycle WITH
  life <- [i \in Ids |-> LifeOf(i)],
  owed <- [i \in Ids |-> OwedOf(i)],
  told <- [i \in Ids |-> ToldOf(i)]

\* Every behaviour of routes, dispatchers and crashes is a behaviour of the
\* documented life cycle: no transition outside the diagram, and the user is
\* told the outcome of the transition, once.
Implements == Life!LifeSpec
=============================================================================
