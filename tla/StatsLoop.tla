----------------------------- MODULE StatsLoop -----------------------------
(***************************************************************************)
(* The loop that aggregates Core and market statistics for /mnstats        *)
(* (services/sysMain.js) and the health it publishes with them             *)
(* (lib/statsSnapshot.js).                                                 *)
(*                                                                         *)
(* Time is counted in units of the base pace (20 s): a timer that is due   *)
(* and a call with a shorter deadline are over before time passes.  A tick *)
(* finds Core prompt or not; Core when it is not, and the market always,   *)
(* may answer or fail whenever they like, or never.                        *)
(***************************************************************************)
EXTENDS Integers, FiniteSets

CONSTANTS
  None,
  Base,        \* BASE_TICK_MS
  MaxBackoff,  \* MAX_BACKOFF_MS
  Watchdog,    \* TICK_WATCHDOG_MS
  MaxGen,      \* bound: ticks ever run
  MaxStops     \* bound: calls of stop()

ASSUME StatsAssumption ==
  /\ Base \in Nat \ {0} /\ MaxBackoff \in Nat /\ Base <= MaxBackoff
  /\ Watchdog \in Nat \ {0}
  /\ MaxGen \in Nat /\ MaxStops \in Nat
  /\ None \notin Int

VARIABLES
  started,
  timer,          \* tickTimer: units left, or None
  token,          \* activeRunToken: the generation it was made for, or None
  tickGen,
  completed,      \* lastCompletedGen
  done,           \* lastCoreCompletedGen and lastMarketCompletedGen
  marketStarted,  \* lastMarketStartedGen
  pace,           \* currentTickMs and marketTickMs
  marketWait,     \* units left until marketNextAt
  run,            \* the call of runAndReschedule of each generation
  pub,            \* the data published of each source, with its health
  retired,        \* history: tickGen at the last stop
  stops

loop == <<started, timer, token, tickGen, retired, stops>>
fences == <<completed, done, marketStarted>>
vars == <<started, timer, token, tickGen, completed, done, marketStarted,
          pace, marketWait, run, pub, retired, stops>>

Sources == {"core", "market"}
CoreCalls == {"head", "count"}
Gens == 1..MaxGen

NoRun == [core |-> "none", market |-> "none", prompt |-> FALSE,
          age |-> 0, watched |-> FALSE, rescheduled |-> FALSE]

Lower(a, b) == IF a < b THEN a ELSE b
Higher(a, b) == IF a < b THEN b ELSE a
-----------------------------------------------------------------------------
(* The two snapshots and their health.                                     *)

MarkSuccess(g) == [gen |-> g, status |-> "ready"]
\* Mutant of MarkFailure: a failed group stays as it was.
MarkFailureKeeps(p) == p

\* The values are kept: a group that was never read has none.
MarkFailure(p) == [p EXCEPT !.status = IF p.gen = 0 THEN "unavailable" ELSE "stale"]

Backoff(n) == Lower(2 * n, MaxBackoff)

\* Mutant of Overtaken: only the source's own fence.
OvertakenBySource(s, g) == g <= done[s]

\* A tick that a newer result, the watchdog or stop() has overtaken.
Overtaken(s, g) == g <= completed \/ g <= done[s]

(* What the tick g does with the result of source s.                       *)
Publish(s, g, ok) ==
  IF Overtaken(s, g)
  THEN UNCHANGED <<done, pub, pace, marketWait>>
  ELSE /\ done' = [done EXCEPT ![s] = g]
       /\ pub' = [pub EXCEPT ![s] = IF ok THEN MarkSuccess(g) ELSE MarkFailure(@)]
       /\ pace' = [pace EXCEPT ![s] = IF ok THEN Base ELSE Backoff(@)]
       /\ marketWait' = IF s = "market" THEN pace'[s] ELSE marketWait
-----------------------------------------------------------------------------
(* One tick.  Core is read over several calls; only the projected budgets  *)
(* have a deadline of their own.                                           *)

CoreReads(g) ==
  /\ run[g].core = "head"
  /\ run' = [run EXCEPT ![g].core = "budgets"]
  /\ UNCHANGED <<loop, fences, pace, marketWait, pub>>

ProjectsBudgets(g) ==
  /\ run[g].core = "budgets"
  /\ run' = [run EXCEPT ![g].core = "count"]
  /\ UNCHANGED <<loop, fences, pace, marketWait, pub>>

\* Mutant of BudgetsOverdue: the calls have no deadline.
BudgetsUnbounded(g) == FALSE

\* withTimeout: no budget call outlives SB_BUDGET_TIMEOUT_MS.
BudgetsOverdue(g) == run[g].core = "budgets"
BudgetsTimeOut(g) == BudgetsOverdue(g) /\ ProjectsBudgets(g)

CoreSettles(g) ==
  \E ok \in BOOLEAN :
    /\ IF ok THEN run[g].core = "count"
             ELSE run[g].core \in CoreCalls /\ ~run[g].prompt
    /\ run' = [run EXCEPT ![g].core = "done", ![g].prompt = FALSE]
    /\ Publish("core", g, ok)
    /\ UNCHANGED <<loop, completed, marketStarted>>

MarketSettles(g) ==
  \E ok \in BOOLEAN :
    /\ run[g].market = "asked"
    /\ run' = [run EXCEPT ![g].market = "done"]
    /\ Publish("market", g, ok)
    /\ UNCHANGED <<loop, completed, marketStarted>>
-----------------------------------------------------------------------------
(* The scheduler.                                                          *)

\* Mutant of MayReschedule: the run's token is not compared.
MayRescheduleAnyRun(g) == ~run[g].rescheduled /\ started

MayReschedule(g) == ~run[g].rescheduled /\ started /\ token = g

\* rescheduleOnce() of run g, which is left as r.
RescheduleOnce(g, r) ==
  /\ run' = [run EXCEPT ![g] = [r EXCEPT !.rescheduled = @ \/ MayReschedule(g)]]
  /\ timer' = IF MayReschedule(g) THEN pace'.core ELSE timer

TickEnds(g) ==
  /\ run[g].core = "done" /\ run[g].market = "done"
  /\ completed' = Higher(completed, g)
  /\ UNCHANGED <<started, token, tickGen, retired, stops, done, marketStarted,
                 pace, marketWait, pub>>
  /\ RescheduleOnce(g, [run[g] EXCEPT !.core = "over", !.watched = FALSE, !.age = 0])

(* The watchdog gives up the sources of its tick that have not answered.   *)
Abandoned(g) ==
  {s \in Sources : g > done[s] /\ (s = "market" => marketStarted = g)}

Abandon(g) ==
  /\ completed' = g
  /\ done' = [s \in Sources |-> IF s \in Abandoned(g) THEN g ELSE done[s]]
  /\ pace' = [s \in Sources |-> IF s \in Abandoned(g) THEN Backoff(pace[s]) ELSE pace[s]]
  /\ pub' = [s \in Sources |-> IF s \in Abandoned(g) THEN MarkFailure(pub[s]) ELSE pub[s]]
  /\ marketWait' = IF "market" \in Abandoned(g) THEN pace'.market ELSE marketWait

\* Mutant of WatchdogDue: the next tick waits for this one.
WatchdogNever(g) == FALSE

WatchdogDue(g) == run[g].watched /\ run[g].age >= Watchdog

WatchdogFires(g) ==
  LET r == [run[g] EXCEPT !.watched = FALSE]
  IN /\ WatchdogDue(g)
     /\ IF token = g /\ g > completed THEN Abandon(g)
        ELSE UNCHANGED <<completed, done, pace, pub, marketWait>>
     /\ RescheduleOnce(g, r)
     /\ UNCHANGED <<started, token, tickGen, retired, stops, marketStarted>>

RunAndReschedule ==
  LET g == tickGen + 1
  IN /\ tickGen < MaxGen
     /\ tickGen' = g /\ token' = g
     /\ \E prompt \in BOOLEAN :
          run' = [run EXCEPT ![g] =
            [NoRun EXCEPT !.core = "head", !.watched = TRUE, !.prompt = prompt,
               !.market = IF marketWait = 0 THEN "asked" ELSE "done"]]
     /\ marketStarted' = IF marketWait = 0 THEN g ELSE marketStarted
     /\ UNCHANGED <<completed, done, pace, marketWait, pub, retired, stops>>

TimerFires ==
  /\ timer = 0
  /\ timer' = None /\ RunAndReschedule
  /\ UNCHANGED started

Start ==
  /\ ~started
  /\ started' = TRUE /\ RunAndReschedule
  /\ UNCHANGED timer

Stop ==
  /\ stops < MaxStops
  /\ started' = FALSE /\ token' = None /\ timer' = None
  /\ completed' = Higher(completed, tickGen)
  /\ retired' = tickGen /\ stops' = stops + 1
  /\ UNCHANGED <<tickGen, done, marketStarted, pace, marketWait, run, pub>>
-----------------------------------------------------------------------------
(* Time passes once nothing is due: no timer, no prompt call, no deadline. *)

Prompt(g) ==
  \/ run[g].core \in CoreCalls /\ run[g].prompt
  \/ run[g].core = "done" /\ run[g].market = "done"

Advance ==
  /\ timer = 0 => tickGen = MaxGen
  /\ \A g \in Gens : ~Prompt(g) /\ ~BudgetsOverdue(g) /\ ~WatchdogDue(g)
  /\ timer' = IF timer = None THEN None ELSE Higher(timer - 1, 0)
  /\ marketWait' = Higher(marketWait - 1, 0)
  /\ run' = [g \in Gens |-> [run[g] EXCEPT !.age =
               IF run[g].core \in {"none", "over"} THEN 0 ELSE Lower(@ + 1, Watchdog)]]
  /\ UNCHANGED <<started, token, tickGen, retired, stops, fences, pace, pub>>

Init ==
  /\ started = FALSE /\ timer = None /\ token = None
  /\ tickGen = 0 /\ completed = 0 /\ done = [s \in Sources |-> 0]
  /\ marketStarted = 0
  /\ pace = [s \in Sources |-> Base] /\ marketWait = 0
  /\ run = [g \in Gens |-> NoRun]
  /\ pub = [s \in Sources |-> [gen |-> 0, status |-> "unavailable"]]
  /\ retired = 0 /\ stops = 0

TickStep(g) ==
  CoreReads(g) \/ ProjectsBudgets(g) \/ CoreSettles(g) \/ MarketSettles(g) \/ TickEnds(g)
Timers(g) == BudgetsTimeOut(g) \/ WatchdogFires(g)

Next ==
  \/ \E g \in Gens : TickStep(g) \/ Timers(g)
  \/ TimerFires \/ Start \/ Stop \/ Advance

(* Timers fire and time passes.  Only a Core the tick found prompt is      *)
(* promised to answer; every other call may hang, the budgets included.    *)
Returns(g) ==
  \/ run[g].prompt /\ (CoreReads(g) \/ CoreSettles(g))
  \/ TickEnds(g)

Fairness ==
  /\ WF_vars(Advance) /\ WF_vars(TimerFires)
  /\ WF_vars(\E g \in Gens : Returns(g)) /\ WF_vars(\E g \in Gens : Timers(g))

Spec == Init /\ [][Next]_vars
FairSpec == Spec /\ Fairness
-----------------------------------------------------------------------------
Runs == [core : CoreCalls \cup {"budgets", "none", "done", "over"},
         market : {"none", "asked", "done"}, prompt : BOOLEAN, age : 0..Watchdog,
         watched : BOOLEAN, rescheduled : BOOLEAN]
Published(n) == [gen : 0..n, status : {"ready", "stale", "unavailable"}]

(* Every counter stays within its bound and every pace within the ceiling. *)
TypeOK ==
  /\ started \in BOOLEAN
  /\ timer \in 0..MaxBackoff \cup {None} /\ token \in Gens \cup {None}
  /\ tickGen \in 0..MaxGen /\ completed \in 0..tickGen /\ retired \in 0..tickGen
  /\ done \in [Sources -> 0..tickGen] /\ marketStarted \in 0..tickGen
  /\ pace \in [Sources -> Base..MaxBackoff] /\ marketWait \in 0..MaxBackoff
  /\ run \in [Gens -> Runs] /\ pub \in [Sources -> Published(tickGen)]
  /\ stops \in 0..MaxStops

(* A started service has exactly one thing that will start the next tick,  *)
(* its timer or the run that has yet to set it; a stopped one has none.    *)
(* Ticks stalled across stop() and start() never make a second loop.       *)
Drivers ==
  {g \in Gens : token = g /\ ~run[g].rescheduled
                /\ (run[g].core # "over" \/ run[g].watched)}
  \cup (IF timer = None THEN {} ELSE {0})
OneLoop == Cardinality(Drivers) = IF started THEN 1 ELSE 0

(* A snapshot is only replaced by one of a later tick, and never by a tick *)
(* that began before the last stop(), however late its answer arrives.     *)
NewerOnly ==
  [][\A s \in Sources : pub'[s].gen # pub[s].gen
       => pub'[s].gen > pub[s].gen /\ pub'[s].gen > retired]_vars

(* What is reported ready is the newest word of its source: no later tick  *)
(* has failed to read it or been given up waiting for it.                  *)
ReadyIsCurrent ==
  \A s \in Sources : pub[s].status = "ready" =>
    \A g \in Gens : g > pub[s].gen /\ g > retired /\ g <= completed =>
      s = "market" /\ run[g].market = "done"

(* Whatever hangs, the loop reaches its next tick until it is stopped.     *)
LoopGoesOn ==
  \A g \in 1..(MaxGen - 1) :
    (tickGen = g /\ started) ~> (tickGen > g \/ retired >= g)

(* A tick to which Core answers refreshes the Core statistics, with the    *)
(* market or every projected budget hanging, until the loop is stopped.    *)
CoreRefreshed ==
  \A g \in Gens :
    (tickGen = g /\ started /\ run[g].prompt)
      ~> (pub["core"].gen >= g \/ retired >= g)
-----------------------------------------------------------------------------
(* The inductive invariant.                                                *)

\* A generation has a run from its start on.
RunsOK ==
  \A g \in Gens :
    IF g > tickGen THEN run[g].core = "none" /\ run[g].market = "none" /\ ~run[g].watched
    ELSE run[g].core # "none" /\ run[g].market # "none"

\* The last run started owns the loop: it has set the timer or still will.
LoopOK ==
  IF started
  THEN /\ token = tickGen /\ token \in Gens
       /\ (timer # None) = run[token].rescheduled
       /\ run[token].rescheduled \/ run[token].core # "over" \/ run[token].watched
  ELSE token = None /\ timer = None /\ retired = tickGen

\* What was published is not newer than the fence, and a group is only ready
\* while nothing later of its source was settled.
PublishedOK ==
  \A s \in Sources :
    /\ pub[s].gen <= done[s]
    /\ pub[s].status = "ready" => pub[s].gen = done[s]

\* A tick is complete once Core was settled, by an answer or by the watchdog, or
\* the loop was stopped.
CoreOK ==
  /\ retired <= completed
  /\ completed <= done["core"] \/ completed <= retired
  /\ \A g \in Gens : run[g].core \in {"done", "over"} => g <= completed \/ g <= done["core"]

\* A market call still out has been given up, or is the current run's.
MarketOK ==
  \A g \in Gens : run[g].market = "asked" =>
    \/ g <= retired \/ g <= done["market"]
    \/ token = g /\ timer = None /\ completed < g /\ marketStarted = g

StatsInv == TypeOK /\ RunsOK /\ LoopOK /\ PublishedOK /\ CoreOK /\ MarketOK
=============================================================================
