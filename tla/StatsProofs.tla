---------------------------- MODULE StatsProofs ----------------------------
(* Theorems about the scheduler of the statistics loop, for any number of  *)
(* ticks and stops, any pace and any watchdog.                             *)
EXTENDS StatsLoop, TLAPS, FiniteSetTheorems

USE StatsAssumption

(* The parts of the state the lemmas below speak of.                       *)
LEMMA Parts ==
  ASSUME TypeOK
  PROVE  /\ tickGen \in Nat /\ tickGen <= MaxGen /\ completed \in 0..tickGen /\ retired \in 0..tickGen
         /\ marketStarted \in 0..tickGen /\ stops \in 0..MaxStops /\ started \in BOOLEAN
         /\ done \in [Sources -> 0..tickGen] /\ pace \in [Sources -> Base..MaxBackoff]
         /\ marketWait \in 0..MaxBackoff /\ run \in [Gens -> Runs]
         /\ pub \in [Sources -> Published(tickGen)]
         /\ timer \in 0..MaxBackoff \cup {None} /\ token \in Gens \cup {None}
  BY DEF TypeOK

LEMMA PaceTypes ==
  /\ \A n \in Base..MaxBackoff : Backoff(n) \in Base..MaxBackoff
  /\ Base \in Base..MaxBackoff /\ Base..MaxBackoff \subseteq 0..MaxBackoff
  BY DEF Backoff, Lower

(* What the result of one source does.                                     *)
LEMMA PublishTypes ==
  ASSUME TypeOK, NEW s \in Sources, NEW g \in Gens, g <= tickGen, NEW ok \in BOOLEAN, Publish(s, g, ok)
  PROVE  /\ done' \in [Sources -> 0..tickGen] /\ pub' \in [Sources -> Published(tickGen)]
         /\ pace' \in [Sources -> Base..MaxBackoff] /\ marketWait' \in 0..MaxBackoff
<1>1. CASE Overtaken(s, g)
  BY <1>1, Parts DEF Publish
<1>2. CASE ~Overtaken(s, g)
  <2>1. done' = [done EXCEPT ![s] = g]
    BY <1>2 DEF Publish
  <2>2. pub' = [pub EXCEPT ![s] = IF ok THEN MarkSuccess(g) ELSE MarkFailure(@)]
    BY <1>2 DEF Publish
  <2>3. pace' = [pace EXCEPT ![s] = IF ok THEN Base ELSE Backoff(@)]
    BY <1>2 DEF Publish
  <2>4. marketWait' = IF s = "market" THEN pace'[s] ELSE marketWait
    BY <1>2 DEF Publish
  <2>5. MarkSuccess(g) \in Published(tickGen) /\ MarkFailure(pub[s]) \in Published(tickGen)
    BY Parts DEF MarkSuccess, MarkFailure, Published, Gens
  <2>6. done' \in [Sources -> 0..tickGen]
    BY <2>1, Parts DEF Gens
  <2>7. pub' \in [Sources -> Published(tickGen)]
    BY <2>2, <2>5, Parts
  <2>8. pace' \in [Sources -> Base..MaxBackoff]
    BY <2>3, Parts, PaceTypes
  <2>9. marketWait' \in 0..MaxBackoff
    BY <2>4, <2>8, Parts, PaceTypes
  <2>. QED
    BY <2>6, <2>7, <2>8, <2>9
<1>. QED
  BY <1>1, <1>2

(* Rescheduling leaves the run as r, with the timer set or as it was.      *)
LEMMA RescheduleTypes ==
  ASSUME TypeOK, NEW g \in Gens, NEW r \in Runs, RescheduleOnce(g, r),
         pace' \in [Sources -> Base..MaxBackoff]
  PROVE  /\ run' \in [Gens -> Runs] /\ timer' \in 0..MaxBackoff \cup {None}
         /\ run'[g] = [r EXCEPT !.rescheduled = r.rescheduled \/ MayReschedule(g)]
         /\ \A h \in Gens \ {g} : run'[h] = run[h]
<1>1. [r EXCEPT !.rescheduled = r.rescheduled \/ MayReschedule(g)] \in Runs
  BY DEF Runs
<1>2. run' = [run EXCEPT ![g] = [r EXCEPT !.rescheduled = r.rescheduled \/ MayReschedule(g)]]
  BY DEF RescheduleOnce
<1>3. timer' = IF MayReschedule(g) THEN pace'["core"] ELSE timer
  BY DEF RescheduleOnce
<1>4. timer' \in 0..MaxBackoff \cup {None}
  BY <1>3, Parts, PaceTypes DEF Sources
<1>. QED
  BY <1>1, <1>2, <1>4, Parts

LEMMA AbandonTypes ==
  ASSUME TypeOK, NEW g \in Gens, g <= tickGen, Abandon(g)
  PROVE  /\ done' \in [Sources -> 0..tickGen] /\ pub' \in [Sources -> Published(tickGen)]
         /\ pace' \in [Sources -> Base..MaxBackoff] /\ marketWait' \in 0..MaxBackoff
         /\ completed' \in 0..tickGen
<1>1. \A s \in Sources : MarkFailure(pub[s]) \in Published(tickGen)
  BY Parts DEF MarkFailure, Published
<1>2. done' \in [Sources -> 0..tickGen] /\ completed' \in 0..tickGen
  BY Parts DEF Abandon, Gens
<1>3. pub' \in [Sources -> Published(tickGen)]
  BY <1>1, Parts DEF Abandon
<1>4. pace' \in [Sources -> Base..MaxBackoff]
  BY Parts, PaceTypes DEF Abandon
<1>5. marketWait' \in 0..MaxBackoff
  BY <1>4, Parts, PaceTypes DEF Abandon, Sources
<1>. QED
  BY <1>2, <1>3, <1>4, <1>5

(* Only a run that was started does anything.                              *)
LEMMA Begun ==
  ASSUME TypeOK, RunsOK, NEW g \in Gens,
         run[g].core # "none" \/ run[g].market # "none" \/ run[g].watched
  PROVE  g <= tickGen
  BY Parts DEF RunsOK, Gens

LEMMA TypeInit == Init => TypeOK
<1>. SUFFICES ASSUME Init PROVE TypeOK
  OBVIOUS
<1>1. NoRun \in Runs
  BY DEF NoRun, Runs
<1>2. [gen |-> 0, status |-> "unavailable"] \in Published(0)
  BY DEF Published
<1>3. run \in [Gens -> Runs]
  BY <1>1 DEF Init
<1>4. pub \in [Sources -> Published(0)] /\ tickGen = 0
  BY <1>2 DEF Init
<1>5. /\ done \in [Sources -> 0..0] /\ pace \in [Sources -> Base..MaxBackoff]
      /\ marketWait \in 0..MaxBackoff /\ stops \in 0..MaxStops
      /\ completed \in 0..0 /\ retired \in 0..0 /\ marketStarted \in 0..0 /\ tickGen \in 0..MaxGen
  BY PaceTypes DEF Init
<1>6. started \in BOOLEAN /\ timer \in 0..MaxBackoff \cup {None} /\ token \in Gens \cup {None}
  BY DEF Init
<1>. QED
  BY <1>3, <1>4, <1>5, <1>6 DEF TypeOK

(* What a new run starts from.                                             *)
LEMMA RunTypes ==
  ASSUME TypeOK, RunAndReschedule
  PROVE  /\ tickGen' = tickGen + 1 /\ token' = tickGen + 1 /\ tickGen + 1 \in Gens
         /\ run' \in [Gens -> Runs] /\ marketStarted' \in 0..tickGen'
         /\ UNCHANGED <<completed, done, pace, marketWait, pub, retired, stops>>
<1>1. tickGen + 1 \in Gens
  BY Parts DEF RunAndReschedule, Gens
<1>2. PICK prompt \in BOOLEAN :
        run' = [run EXCEPT ![tickGen + 1] =
            [NoRun EXCEPT !.core = "head", !.watched = TRUE, !.prompt = prompt,
               !.market = IF marketWait = 0 THEN "asked" ELSE "done"]]
  BY DEF RunAndReschedule
<1>3. [NoRun EXCEPT !.core = "head", !.watched = TRUE, !.prompt = prompt,
               !.market = IF marketWait = 0 THEN "asked" ELSE "done"] \in Runs
  <2>. DEFINE market == IF marketWait = 0 THEN "asked" ELSE "done"
  <2>1. [NoRun EXCEPT !.core = "head"] \in Runs
    <3>1. NoRun \in Runs
      BY DEF NoRun, Runs
    <3>2. \A r \in Runs : [r EXCEPT !.core = "head"] \in Runs
      BY DEF Runs, CoreCalls
    <3>. QED
      BY <3>1, <3>2
  <2>2. \A r \in Runs : [r EXCEPT !.watched = TRUE] \in Runs
    BY DEF Runs
  <2>3. \A r \in Runs : [r EXCEPT !.prompt = prompt] \in Runs
    BY DEF Runs
  <2>4. \A r \in Runs : [r EXCEPT !.market = market] \in Runs
    BY DEF Runs
  <2>. QED
    BY <2>1, <2>2, <2>3, <2>4
<1>4. run' \in [Gens -> Runs]
  BY <1>2, <1>3, Parts
<1>. QED
  BY <1>1, <1>4, Parts DEF RunAndReschedule, Gens

LEMMA TypeStep == TypeOK /\ RunsOK /\ [Next]_vars => TypeOK'
<1>. SUFFICES ASSUME TypeOK, RunsOK, [Next]_vars PROVE TypeOK'
  OBVIOUS
<1>1. ASSUME NEW g \in Gens, CoreReads(g) \/ ProjectsBudgets(g) PROVE TypeOK'
  <2>1. run' \in [Gens -> Runs]
    <3>1. run[g] \in Runs
      BY Parts
    <3>2. [run[g] EXCEPT !.core = "budgets"] \in Runs /\ [run[g] EXCEPT !.core = "count"] \in Runs
      BY <3>1 DEF Runs, CoreCalls
    <3>3. \/ run' = [run EXCEPT ![g] = [run[g] EXCEPT !.core = "budgets"]]
          \/ run' = [run EXCEPT ![g] = [run[g] EXCEPT !.core = "count"]]
      BY <1>1 DEF CoreReads, ProjectsBudgets
    <3>. QED
      BY <3>2, <3>3, Parts
  <2>. QED
    BY <1>1, <2>1 DEF CoreReads, ProjectsBudgets, TypeOK, loop, fences
<1>2. ASSUME NEW g \in Gens, CoreSettles(g) PROVE TypeOK'
  <2>1. g <= tickGen
    BY <1>2, Begun DEF CoreSettles, CoreCalls
  <2>2. PICK ok \in BOOLEAN :
          /\ run' = [run EXCEPT ![g].core = "done", ![g].prompt = FALSE]
          /\ Publish("core", g, ok) /\ UNCHANGED <<loop, completed, marketStarted>>
    BY <1>2 DEF CoreSettles
  <2>3. run' \in [Gens -> Runs]
    <3>1. [[run[g] EXCEPT !.core = "done"] EXCEPT !.prompt = FALSE] \in Runs
      BY Parts DEF Runs
    <3>. QED
      BY <2>2, <3>1, Parts
  <2>. QED
    BY <2>1, <2>2, <2>3, PublishTypes DEF TypeOK, loop, Sources
<1>3. ASSUME NEW g \in Gens, MarketSettles(g) PROVE TypeOK'
  <2>1. g <= tickGen
    BY <1>3, Begun DEF MarketSettles
  <2>2. PICK ok \in BOOLEAN :
          /\ run' = [run EXCEPT ![g].market = "done"]
          /\ Publish("market", g, ok) /\ UNCHANGED <<loop, completed, marketStarted>>
    BY <1>3 DEF MarketSettles
  <2>3. run' \in [Gens -> Runs]
    <3>1. [run[g] EXCEPT !.market = "done"] \in Runs
      BY Parts DEF Runs
    <3>. QED
      BY <2>2, <3>1, Parts
  <2>. QED
    BY <2>1, <2>2, <2>3, PublishTypes DEF TypeOK, loop, Sources
<1>4. ASSUME NEW g \in Gens, TickEnds(g) PROVE TypeOK'
  <2>1. g <= tickGen
    BY <1>4, Begun DEF TickEnds
  <2>2. [run[g] EXCEPT !.core = "over", !.watched = FALSE, !.age = 0] \in Runs
    <3>1. [run[g] EXCEPT !.core = "over"] \in Runs
      BY Parts DEF Runs
    <3>2. \A r \in Runs : [r EXCEPT !.watched = FALSE] \in Runs
      BY DEF Runs
    <3>3. \A r \in Runs : [r EXCEPT !.age = 0] \in Runs
      BY DEF Runs
    <3>. QED
      BY <3>1, <3>2, <3>3
  <2>3. run' \in [Gens -> Runs] /\ timer' \in 0..MaxBackoff \cup {None}
    BY <1>4, <2>2, Parts, RescheduleTypes DEF TickEnds
  <2>4. completed' \in 0..tickGen
    BY <1>4, <2>1, Parts DEF TickEnds, Higher, Gens
  <2>. QED
    BY <1>4, <2>3, <2>4 DEF TickEnds, TypeOK
<1>5. ASSUME NEW g \in Gens, WatchdogFires(g) PROVE TypeOK'
  <2>1. g <= tickGen
    BY <1>5, Begun DEF WatchdogFires, WatchdogDue
  <2>2. [run[g] EXCEPT !.watched = FALSE] \in Runs
    BY Parts DEF Runs
  <2>3. /\ done' \in [Sources -> 0..tickGen] /\ pub' \in [Sources -> Published(tickGen)]
        /\ pace' \in [Sources -> Base..MaxBackoff] /\ marketWait' \in 0..MaxBackoff
        /\ completed' \in 0..tickGen
    <3>1. CASE Abandon(g)
      BY <2>1, <3>1, AbandonTypes
    <3>2. CASE UNCHANGED <<completed, done, pace, pub, marketWait>>
      BY <3>2, Parts
    <3>. QED
      BY <1>5, <3>1, <3>2 DEF WatchdogFires
  <2>4. run' \in [Gens -> Runs] /\ timer' \in 0..MaxBackoff \cup {None}
    BY <1>5, <2>2, <2>3, RescheduleTypes DEF WatchdogFires
  <2>. QED
    BY <1>5, <2>3, <2>4 DEF WatchdogFires, TypeOK
<1>6. ASSUME TimerFires \/ Start PROVE TypeOK'
  <2>1. RunAndReschedule /\ started' \in BOOLEAN /\ timer' \in 0..MaxBackoff \cup {None}
    BY <1>6, Parts DEF TimerFires, Start
  <2>2. /\ tickGen' \in 0..MaxGen
        /\ completed \in 0..tickGen' /\ retired \in 0..tickGen' /\ done \in [Sources -> 0..tickGen']
    BY <2>1, Parts, RunTypes DEF Gens
  <2>3. pub \in [Sources -> Published(tickGen')]
    <3>1. \A p \in Published(tickGen) : p \in Published(tickGen')
      BY <2>1, Parts, RunTypes DEF Published
    <3>. QED
      BY <3>1, Parts
  <2>. QED
    BY <2>1, <2>2, <2>3, RunTypes DEF TypeOK
<1>7. ASSUME Stop PROVE TypeOK'
  <2>1. stops' \in 0..MaxStops /\ completed' \in 0..tickGen /\ retired' \in 0..tickGen
    BY <1>7, Parts DEF Stop, Higher
  <2>2. started' \in BOOLEAN /\ timer' = None /\ token' = None
    BY <1>7 DEF Stop
  <2>. QED
    BY <1>7, <2>1, <2>2 DEF Stop, TypeOK
<1>8. ASSUME Advance PROVE TypeOK'
  <2>1. /\ timer' \in 0..MaxBackoff \cup {None} /\ marketWait' \in 0..MaxBackoff
    BY <1>8, Parts DEF Advance, Higher
  <2>2. run' \in [Gens -> Runs]
    <3>1. \A g \in Gens : run'[g] \in Runs
      <4>. SUFFICES ASSUME NEW g \in Gens PROVE run'[g] \in Runs
        OBVIOUS
      <4>1. run[g] \in Runs /\ run[g].age \in 0..Watchdog
        BY Parts DEF Runs
      <4>2. Lower(run[g].age + 1, Watchdog) \in 0..Watchdog /\ 0 \in 0..Watchdog
        BY <4>1 DEF Lower
      <4>3. run'[g] = [run[g] EXCEPT !.age =
               IF run[g].core \in {"none", "over"} THEN 0 ELSE Lower(run[g].age + 1, Watchdog)]
        BY <1>8 DEF Advance
      <4>. QED
        BY <4>1, <4>2, <4>3 DEF Runs
    <3>. QED
      BY <1>8, <3>1 DEF Advance
  <2>. QED
    BY <1>8, <2>1, <2>2 DEF Advance, TypeOK, fences
<1>9. ASSUME UNCHANGED vars PROVE TypeOK'
  BY <1>9 DEF vars, TypeOK
<1>. QED
  BY <1>1, <1>2, <1>3, <1>4, <1>5, <1>6, <1>7, <1>8, <1>9 DEF Next, TickStep, Timers, BudgetsTimeOut

(* How each kind of step changes the runs.                                 *)
OnlyRun(g) == \A h \in Gens \ {g} : run'[h] = run[h]

LEMMA CoreMoves ==
  ASSUME TypeOK, NEW g \in Gens, CoreReads(g) \/ ProjectsBudgets(g)
  PROVE  /\ OnlyRun(g) /\ run[g].core \notin {"none", "done", "over"} /\ run'[g].core \in {"budgets", "count"}
         /\ run'[g].market = run[g].market /\ run'[g].watched = run[g].watched
         /\ run'[g].rescheduled = run[g].rescheduled
  BY Parts DEF OnlyRun, CoreReads, ProjectsBudgets, Runs

LEMMA CoreSettled ==
  ASSUME TypeOK, NEW g \in Gens, CoreSettles(g)
  PROVE  /\ OnlyRun(g) /\ run[g].core \notin {"none", "done", "over"} /\ run'[g].core = "done"
         /\ run'[g].market = run[g].market /\ run'[g].watched = run[g].watched
         /\ run'[g].rescheduled = run[g].rescheduled
<1>1. run' = [run EXCEPT ![g] = [[run[g] EXCEPT !.core = "done"] EXCEPT !.prompt = FALSE]]
  BY Parts DEF CoreSettles
<1>2. run[g] \in Runs /\ run[g].core \notin {"none", "done", "over"}
  BY Parts DEF CoreSettles, CoreCalls
<1>. QED
  BY <1>1, <1>2, Parts DEF OnlyRun, Runs

LEMMA MarketSettled ==
  ASSUME TypeOK, NEW g \in Gens, MarketSettles(g)
  PROVE  /\ OnlyRun(g) /\ run[g].market = "asked" /\ run'[g].market = "done"
         /\ run'[g].core = run[g].core /\ run'[g].watched = run[g].watched
         /\ run'[g].rescheduled = run[g].rescheduled
  BY Parts DEF OnlyRun, MarketSettles, Runs

LEMMA TickEnded ==
  ASSUME TypeOK, NEW g \in Gens, TickEnds(g)
  PROVE  /\ OnlyRun(g) /\ run[g].core = "done" /\ run[g].market = "done"
         /\ run'[g].core = "over" /\ run'[g].market = "done" /\ run'[g].watched = FALSE
         /\ run'[g].rescheduled = (run[g].rescheduled \/ MayReschedule(g))
         /\ timer' = IF MayReschedule(g) THEN pace["core"] ELSE timer
<1>. DEFINE r == [run[g] EXCEPT !.core = "over", !.watched = FALSE, !.age = 0]
<1>1. run' = [run EXCEPT ![g] = [r EXCEPT !.rescheduled = r.rescheduled \/ MayReschedule(g)]]
  BY DEF TickEnds, RescheduleOnce
<1>2. run[g] \in Runs /\ run[g].core = "done" /\ run[g].market = "done"
  BY Parts DEF TickEnds
<1>3. r.core = "over" /\ r.market = run[g].market /\ r.watched = FALSE /\ r.rescheduled = run[g].rescheduled
  BY <1>2 DEF Runs
<1>4. run'[g] = [r EXCEPT !.rescheduled = r.rescheduled \/ MayReschedule(g)] /\ OnlyRun(g)
  BY <1>1, Parts DEF OnlyRun
<1>5. /\ run'[g].core = r.core /\ run'[g].market = r.market /\ run'[g].watched = r.watched
      /\ run'[g].rescheduled = (r.rescheduled \/ MayReschedule(g))
  BY <1>2, <1>4 DEF Runs
<1>6. timer' = IF MayReschedule(g) THEN pace["core"] ELSE timer
  BY DEF TickEnds, RescheduleOnce
<1>. QED
  BY <1>2, <1>3, <1>4, <1>5, <1>6

LEMMA WatchdogFired ==
  ASSUME TypeOK, NEW g \in Gens, WatchdogFires(g)
  PROVE  /\ OnlyRun(g) /\ run[g].watched /\ run'[g].watched = FALSE
         /\ run'[g].core = run[g].core /\ run'[g].market = run[g].market
         /\ run'[g].rescheduled = (run[g].rescheduled \/ MayReschedule(g))
         /\ timer' = IF MayReschedule(g) THEN pace'["core"] ELSE timer
<1>. DEFINE r == [run[g] EXCEPT !.watched = FALSE]
<1>1. run' = [run EXCEPT ![g] = [r EXCEPT !.rescheduled = r.rescheduled \/ MayReschedule(g)]]
  BY DEF WatchdogFires, RescheduleOnce
<1>2. run[g] \in Runs /\ run[g].watched
  BY Parts DEF WatchdogFires, WatchdogDue
<1>3. r.core = run[g].core /\ r.market = run[g].market /\ r.watched = FALSE /\ r.rescheduled = run[g].rescheduled
  BY <1>2 DEF Runs
<1>4. run'[g] = [r EXCEPT !.rescheduled = r.rescheduled \/ MayReschedule(g)] /\ OnlyRun(g)
  BY <1>1, Parts DEF OnlyRun
<1>5. /\ run'[g].core = r.core /\ run'[g].market = r.market /\ run'[g].watched = r.watched
      /\ run'[g].rescheduled = (r.rescheduled \/ MayReschedule(g))
  BY <1>2, <1>4 DEF Runs
<1>6. timer' = IF MayReschedule(g) THEN pace'["core"] ELSE timer
  BY DEF WatchdogFires, RescheduleOnce
<1>. QED
  BY <1>2, <1>3, <1>4, <1>5, <1>6

LEMMA RunStarted ==
  ASSUME TypeOK, RunAndReschedule
  PROVE  LET g == tickGen + 1
         IN /\ OnlyRun(g) /\ run'[g].core = "head" /\ run'[g].watched = TRUE /\ run'[g].rescheduled = FALSE
            /\ run'[g].market \in {"asked", "done"}
            /\ run'[g].market = "asked" => marketStarted' = g
<1>. DEFINE g == tickGen + 1
<1>1. PICK prompt \in BOOLEAN :
        run' = [run EXCEPT ![g] =
            [NoRun EXCEPT !.core = "head", !.watched = TRUE, !.prompt = prompt,
               !.market = IF marketWait = 0 THEN "asked" ELSE "done"]]
  BY DEF RunAndReschedule
<1>2. g \in Gens
  BY RunTypes
<1>3. OnlyRun(g)
  BY <1>1, Parts DEF OnlyRun
<1>4. run'[g] = [NoRun EXCEPT !.core = "head", !.watched = TRUE, !.prompt = prompt,
               !.market = IF marketWait = 0 THEN "asked" ELSE "done"]
  BY <1>1, <1>2, Parts
<1>5. /\ run'[g].core = "head" /\ run'[g].watched = TRUE /\ run'[g].rescheduled = FALSE
      /\ run'[g].market = IF marketWait = 0 THEN "asked" ELSE "done"
  BY <1>4 DEF NoRun
<1>6. marketStarted' = IF marketWait = 0 THEN g ELSE marketStarted
  BY DEF RunAndReschedule
<1>. QED
  BY <1>3, <1>5, <1>6

LEMMA TimePassed ==
  ASSUME TypeOK, Advance, NEW g \in Gens
  PROVE  /\ run'[g].core = run[g].core /\ run'[g].market = run[g].market
         /\ run'[g].watched = run[g].watched /\ run'[g].rescheduled = run[g].rescheduled
         /\ (timer' = None) = (timer = None)
<1>1. run[g] \in Runs /\ timer \in 0..MaxBackoff \cup {None}
  BY Parts
<1>2. run'[g] = [run[g] EXCEPT !.age =
               IF run[g].core \in {"none", "over"} THEN 0 ELSE Lower(run[g].age + 1, Watchdog)]
  BY DEF Advance
<1>3. /\ run'[g].core = run[g].core /\ run'[g].market = run[g].market
      /\ run'[g].watched = run[g].watched /\ run'[g].rescheduled = run[g].rescheduled
  BY <1>1, <1>2 DEF Runs
<1>4. (timer' = None) = (timer = None)
  BY <1>1 DEF Advance, Higher
<1>. QED
  BY <1>3, <1>4

(* A generation has a run from its start on.                               *)
LEMMA RunsStep == TypeOK /\ RunsOK /\ [Next]_vars => RunsOK'
<1>. SUFFICES ASSUME TypeOK, RunsOK, [Next]_vars PROVE RunsOK'
  OBVIOUS
<1>1. ASSUME NEW g \in Gens, TickStep(g) \/ Timers(g) PROVE RunsOK'
  <2>1. UNCHANGED tickGen
    BY <1>1 DEF TickStep, Timers, CoreReads, ProjectsBudgets, BudgetsTimeOut, CoreSettles, MarketSettles,
                TickEnds, WatchdogFires, loop
  <2>2. CoreReads(g) \/ ProjectsBudgets(g) \/ CoreSettles(g) \/ MarketSettles(g) \/ TickEnds(g) \/ WatchdogFires(g)
    BY <1>1 DEF TickStep, Timers, BudgetsTimeOut
  <2>3. OnlyRun(g) /\ g <= tickGen
    BY <2>2, Begun, CoreMoves, CoreSettled, MarketSettled, TickEnded, WatchdogFired
  <2>4. run'[g].core # "none" /\ run'[g].market # "none"
    <3>1. run[g].core # "none" /\ run[g].market # "none"
      BY <2>3, Parts DEF RunsOK, Gens
    <3>2. CASE CoreReads(g) \/ ProjectsBudgets(g) \/ CoreSettles(g)
      BY <3>1, <3>2, CoreMoves, CoreSettled
    <3>3. CASE MarketSettles(g)
      BY <3>1, <3>3, MarketSettled
    <3>4. CASE TickEnds(g) \/ WatchdogFires(g)
      BY <3>1, <3>4, TickEnded, WatchdogFired
    <3>. QED
      BY <2>2, <3>2, <3>3, <3>4
  <2>. QED
    BY <2>1, <2>3, <2>4, Parts DEF RunsOK, OnlyRun, Gens
<1>2. ASSUME TimerFires \/ Start PROVE RunsOK'
  <2>1. RunAndReschedule
    BY <1>2 DEF TimerFires, Start
  <2>. QED
    BY <2>1, Parts, RunTypes, RunStarted DEF RunsOK, OnlyRun, Gens
<1>3. ASSUME Advance PROVE RunsOK'
  BY <1>3, TimePassed DEF RunsOK, Advance
<1>4. ASSUME Stop \/ UNCHANGED vars PROVE RunsOK'
  BY <1>4 DEF RunsOK, Stop, vars
<1>. QED
  BY <1>1, <1>2, <1>3, <1>4 DEF Next

(* One run, the last one, owns the loop.                                   *)
LEMMA LoopStep == TypeOK /\ RunsOK /\ LoopOK /\ [Next]_vars => LoopOK'
<1>. SUFFICES ASSUME TypeOK, RunsOK, LoopOK, [Next]_vars PROVE LoopOK'
  OBVIOUS
<1>1. ASSUME NEW g \in Gens, CoreReads(g) \/ ProjectsBudgets(g) PROVE LoopOK'
  <2>1. UNCHANGED loop
    BY <1>1 DEF CoreReads, ProjectsBudgets
  <2>. QED
    BY <1>1, <2>1, Parts, CoreMoves DEF LoopOK, OnlyRun, loop
<1>2. ASSUME NEW g \in Gens, CoreSettles(g) PROVE LoopOK'
  <2>1. UNCHANGED loop
    BY <1>2 DEF CoreSettles
  <2>. QED
    BY <1>2, <2>1, Parts, CoreSettled DEF LoopOK, OnlyRun, loop
<1>3. ASSUME NEW g \in Gens, MarketSettles(g) PROVE LoopOK'
  <2>1. UNCHANGED loop
    BY <1>3 DEF MarketSettles
  <2>. QED
    BY <1>3, <2>1, Parts, MarketSettled DEF LoopOK, OnlyRun, loop
<1>4. ASSUME NEW g \in Gens, TickEnds(g) \/ WatchdogFires(g) PROVE LoopOK'
  <2>1. UNCHANGED <<started, token, tickGen, retired>>
    BY <1>4 DEF TickEnds, WatchdogFires
  <2>2. /\ OnlyRun(g) /\ run'[g].rescheduled = (run[g].rescheduled \/ MayReschedule(g))
        /\ timer' = (IF MayReschedule(g) THEN timer' ELSE timer)
        /\ MayReschedule(g) => timer' # None
    <3>1. pace["core"] # None /\ pace'["core"] # None
      <4>1. CASE TickEnds(g)
        BY <4>1, Parts DEF TickEnds, Sources
      <4>2. CASE WatchdogFires(g)
        <5>1. g <= tickGen
          BY <4>2, Begun, WatchdogFired
        <5>2. pace' \in [Sources -> Base..MaxBackoff]
          BY <4>2, <5>1, Parts, AbandonTypes DEF WatchdogFires
        <5>. QED
          BY <5>2, Parts DEF Sources
      <4>. QED
        BY <1>4, <4>1, <4>2
    <3>. QED
      BY <1>4, <3>1, TickEnded, WatchdogFired
  <2>3. CASE started /\ token = g
    <3>1. run'[g].rescheduled = TRUE
      <4>1. run[g].rescheduled \in BOOLEAN
        BY Parts DEF Runs
      <4>. QED
        BY <2>2, <2>3, <4>1 DEF MayReschedule
    <3>2. timer' # None
      <4>1. CASE run[g].rescheduled
        BY <2>2, <2>3, <4>1 DEF MayReschedule, LoopOK
      <4>2. CASE ~run[g].rescheduled
        BY <2>2, <2>3, <4>2 DEF MayReschedule
      <4>. QED
        BY <4>1, <4>2
    <3>. QED
      BY <2>1, <2>3, <3>1, <3>2 DEF LoopOK
  <2>4. CASE ~(started /\ token = g)
    <3>1. ~MayReschedule(g) /\ timer' = timer
      BY <2>2, <2>4 DEF MayReschedule
    <3>2. started => run'[token] = run[token]
      BY <2>2, <2>4 DEF OnlyRun, LoopOK
    <3>. QED
      BY <2>1, <3>1, <3>2 DEF LoopOK
  <2>. QED
    BY <2>3, <2>4
<1>5. ASSUME TimerFires \/ Start PROVE LoopOK'
  <2>1. RunAndReschedule /\ timer' = None /\ started'
    BY <1>5 DEF TimerFires, Start, LoopOK
  <2>. QED
    BY <2>1, RunTypes, RunStarted DEF LoopOK
<1>6. ASSUME Advance PROVE LoopOK'
  BY <1>6, Parts, TimePassed DEF LoopOK, Advance
<1>7. ASSUME Stop PROVE LoopOK'
  BY <1>7 DEF LoopOK, Stop
<1>8. ASSUME UNCHANGED vars PROVE LoopOK'
  BY <1>8 DEF LoopOK, vars
<1>. QED
  BY <1>1, <1>2, <1>3, <1>4, <1>5, <1>6, <1>7, <1>8 DEF Next, TickStep, Timers, BudgetsTimeOut

(* What the result of one source, and the watchdog, leave published.       *)
LEMMA PublishLeaves ==
  ASSUME TypeOK, NEW s \in Sources, NEW g \in Gens, NEW ok \in BOOLEAN, Publish(s, g, ok)
  PROVE  /\ \A t \in Sources \ {s} : done'[t] = done[t] /\ pub'[t] = pub[t]
         /\ \/ Overtaken(s, g) /\ done'[s] = done[s] /\ pub'[s] = pub[s]
            \/ /\ g > completed /\ g > done[s] /\ done'[s] = g
               /\ \/ pub'[s].gen = g
                  \/ pub'[s].gen = pub[s].gen /\ pub'[s].status # "ready"
<1>1. CASE Overtaken(s, g)
  BY <1>1 DEF Publish
<1>2. CASE ~Overtaken(s, g)
  <2>1. g > completed /\ g > done[s]
    BY <1>2, Parts DEF Overtaken, Gens
  <2>2. done' = [done EXCEPT ![s] = g] /\ pub' = [pub EXCEPT ![s] = IF ok THEN MarkSuccess(g) ELSE MarkFailure(@)]
    BY <1>2 DEF Publish
  <2>3. /\ MarkSuccess(g).gen = g /\ MarkFailure(pub[s]).gen = pub[s].gen
        /\ MarkFailure(pub[s]).status # "ready"
    BY Parts DEF MarkSuccess, MarkFailure, Published
  <2>4. done'[s] = g /\ \A t \in Sources \ {s} : done'[t] = done[t] /\ pub'[t] = pub[t]
    BY <2>2, Parts
  <2>5. pub'[s] = IF ok THEN MarkSuccess(g) ELSE MarkFailure(pub[s])
    BY <2>2, Parts
  <2>. QED
    BY <2>1, <2>3, <2>4, <2>5
<1>. QED
  BY <1>1, <1>2

LEMMA AbandonLeaves ==
  ASSUME TypeOK, NEW g \in Gens, Abandon(g), NEW s \in Sources
  PROVE  IF s \in Abandoned(g)
         THEN g > done[s] /\ done'[s] = g /\ pub'[s].gen = pub[s].gen /\ pub'[s].status # "ready"
         ELSE done'[s] = done[s] /\ pub'[s] = pub[s]
<1>1. MarkFailure(pub[s]).gen = pub[s].gen /\ MarkFailure(pub[s]).status # "ready"
  BY Parts DEF MarkFailure, Published
<1>2. s \in Abandoned(g) => g > done[s]
  BY DEF Abandoned
<1>3. /\ done'[s] = IF s \in Abandoned(g) THEN g ELSE done[s]
      /\ pub'[s] = IF s \in Abandoned(g) THEN MarkFailure(pub[s]) ELSE pub[s]
  BY DEF Abandon
<1>. QED
  BY <1>1, <1>2, <1>3

(* How one step changes what is published of one source: not at all, by    *)
(* the result of a later tick, or by giving that tick up.                  *)
SourceKept(s) == done'[s] = done[s] /\ pub'[s] = pub[s]
SourceMoved(s, g) ==
  /\ g > done[s] /\ done'[s] = g /\ retired' = retired
  /\ \/ g > completed /\ pub'[s].gen = g
     \/ pub'[s].gen = pub[s].gen /\ pub'[s].status # "ready"

LEMMA SourceStep ==
  ASSUME TypeOK, [Next]_vars, NEW s \in Sources
  PROVE  SourceKept(s) \/ \E g \in Gens : SourceMoved(s, g)
<1>1. ASSUME NEW g \in Gens, CoreSettles(g) \/ MarketSettles(g)
      PROVE  SourceKept(s) \/ SourceMoved(s, g)
  <2>1. retired' = retired
    BY <1>1 DEF CoreSettles, MarketSettles, loop
  <2>2. PICK u \in Sources, ok \in BOOLEAN : Publish(u, g, ok)
    BY <1>1 DEF CoreSettles, MarketSettles, Sources
  <2>. QED
    BY <2>1, <2>2, PublishLeaves DEF SourceKept, SourceMoved
<1>2. ASSUME NEW g \in Gens, WatchdogFires(g) PROVE SourceKept(s) \/ SourceMoved(s, g)
  <2>1. retired' = retired
    BY <1>2 DEF WatchdogFires
  <2>2. CASE Abandon(g)
    BY <2>1, <2>2, AbandonLeaves DEF SourceKept, SourceMoved
  <2>3. CASE UNCHANGED <<completed, done, pace, pub, marketWait>>
    BY <2>3 DEF SourceKept
  <2>. QED
    BY <1>2, <2>2, <2>3 DEF WatchdogFires
<1>3. ASSUME NEW g \in Gens, CoreReads(g) \/ ProjectsBudgets(g) \/ TickEnds(g) PROVE SourceKept(s)
  BY <1>3 DEF CoreReads, ProjectsBudgets, TickEnds, fences, SourceKept
<1>4. ASSUME TimerFires \/ Start \/ Stop \/ Advance \/ UNCHANGED vars PROVE SourceKept(s)
  BY <1>4 DEF TimerFires, Start, RunAndReschedule, Stop, Advance, fences, vars, SourceKept
<1>. QED
  BY <1>1, <1>2, <1>3, <1>4 DEF Next, TickStep, Timers, BudgetsTimeOut

LEMMA PublishedStep == TypeOK /\ PublishedOK /\ [Next]_vars => PublishedOK'
<1>. SUFFICES ASSUME TypeOK, PublishedOK, [Next]_vars, NEW s \in Sources
              PROVE  /\ pub'[s].gen <= done'[s]
                     /\ pub'[s].status = "ready" => pub'[s].gen = done'[s]
  BY DEF PublishedOK
<1>1. pub[s].gen \in Nat /\ done[s] \in Nat /\ pub[s].gen <= done[s]
  BY Parts DEF Published, PublishedOK
<1>2. CASE SourceKept(s)
  BY <1>1, <1>2 DEF SourceKept, PublishedOK
<1>3. ASSUME NEW g \in Gens, SourceMoved(s, g)
      PROVE  pub'[s].gen <= done'[s] /\ (pub'[s].status = "ready" => pub'[s].gen = done'[s])
  BY <1>1, <1>3 DEF SourceMoved, Gens
<1>. QED
  BY <1>2, <1>3, SourceStep

LEMMA DoneGrows ==
  ASSUME TypeOK, [Next]_vars, NEW s \in Sources
  PROVE  done[s] \in Nat /\ done'[s] \in Nat /\ done[s] <= done'[s]
<1>1. done[s] \in Nat
  BY Parts
<1>. QED
  BY <1>1, SourceStep DEF SourceKept, SourceMoved, Gens

(* A complete tick settled Core, or the loop was stopped over it.          *)
LEMMA CoreStep == TypeOK /\ RunsOK /\ CoreOK /\ [Next]_vars => CoreOK'
<1>. SUFFICES ASSUME TypeOK, RunsOK, CoreOK, [Next]_vars PROVE CoreOK'
  OBVIOUS
<1>0. /\ "core" \in Sources /\ done["core"] \in Nat /\ done'["core"] \in Nat
      /\ done["core"] <= done'["core"] /\ completed \in Nat /\ retired \in Nat
  BY Parts, DoneGrows DEF Sources
<1>1. ASSUME NEW g \in Gens, CoreReads(g) \/ ProjectsBudgets(g) PROVE CoreOK'
  <2>1. UNCHANGED <<completed, retired, done>>
    BY <1>1 DEF CoreReads, ProjectsBudgets, loop, fences
  <2>. QED
    BY <1>1, <2>1, CoreMoves DEF CoreOK, OnlyRun
<1>2. ASSUME NEW g \in Gens, CoreSettles(g) PROVE CoreOK'
  <2>1. UNCHANGED <<completed, retired>>
    BY <1>2 DEF CoreSettles, loop
  <2>2. g <= completed \/ g <= done'["core"]
    <3>1. PICK ok \in BOOLEAN : Publish("core", g, ok)
      BY <1>2 DEF CoreSettles
    <3>. QED
      BY <1>0, <3>1, PublishLeaves DEF Overtaken, Gens
  <2>. QED
    BY <1>0, <1>2, <2>1, <2>2, CoreSettled DEF CoreOK, OnlyRun, Gens
<1>3. ASSUME NEW g \in Gens, MarketSettles(g) PROVE CoreOK'
  <2>1. UNCHANGED <<completed, retired>>
    BY <1>3 DEF MarketSettles, loop
  <2>. QED
    BY <1>0, <1>3, <2>1, MarketSettled DEF CoreOK, OnlyRun, Gens
<1>4. ASSUME NEW g \in Gens, TickEnds(g) PROVE CoreOK'
  <2>1. UNCHANGED <<done, retired>> /\ completed' = Higher(completed, g)
    BY <1>4 DEF TickEnds
  <2>2. g <= completed \/ g <= done["core"]
    BY <1>4, TickEnded DEF CoreOK
  <2>3. completed <= completed' /\ g <= completed' /\ (completed' = completed \/ completed' <= done["core"])
    BY <1>0, <2>1, <2>2 DEF Higher, Gens
  <2>4. \A h \in Gens : run'[h].core \in {"done", "over"} => h <= completed' \/ h <= done["core"]
    <3>1. ASSUME NEW h \in Gens, h # g, run'[h].core \in {"done", "over"}
          PROVE  h <= completed \/ h <= done["core"]
      BY <1>4, <3>1, TickEnded DEF CoreOK, OnlyRun
    <3>. QED
      BY <1>0, <2>1, <2>3, <3>1 DEF Gens, Higher
  <2>5. retired <= completed /\ (completed <= done["core"] \/ completed <= retired)
    BY DEF CoreOK
  <2>6. retired <= completed' /\ (completed' <= done["core"] \/ completed' <= retired)
    BY <1>0, <2>1, <2>3, <2>5 DEF Higher, Gens
  <2>. QED
    BY <2>1, <2>4, <2>6 DEF CoreOK
<1>5. ASSUME NEW g \in Gens, WatchdogFires(g) PROVE CoreOK'
  <2>1. retired' = retired
    BY <1>5 DEF WatchdogFires
  <2>2. \/ completed' = completed
        \/ completed' = g /\ g > completed /\ g <= done'["core"]
    <3>1. CASE token = g /\ g > completed
      <4>1. Abandon(g) /\ completed' = g
        BY <1>5, <3>1 DEF WatchdogFires, Abandon
      <4>2. g <= done'["core"]
        <5>1. "core" \in Abandoned(g) \/ g <= done["core"]
          BY <1>0 DEF Abandoned, Gens
        <5>. QED
          BY <1>0, <4>1, <5>1, AbandonLeaves DEF Gens
      <4>. QED
        BY <3>1, <4>1, <4>2
    <3>. QED
      BY <1>5, <3>1 DEF WatchdogFires
  <2>3. \A h \in Gens : run'[h].core \in {"done", "over"} => h <= completed \/ h <= done["core"]
    BY <1>5, WatchdogFired DEF CoreOK, OnlyRun
  <2>4. \A h \in Gens : run'[h].core \in {"done", "over"} => h <= completed' \/ h <= done'["core"]
    BY <1>0, <2>2, <2>3 DEF Gens
  <2>5. retired <= completed /\ (completed <= done["core"] \/ completed <= retired)
    BY DEF CoreOK
  <2>6. retired <= completed' /\ (completed' <= done'["core"] \/ completed' <= retired)
    BY <1>0, <2>2, <2>5 DEF Gens
  <2>. QED
    BY <2>1, <2>4, <2>6 DEF CoreOK
<1>6. ASSUME TimerFires \/ Start PROVE CoreOK'
  <2>1. RunAndReschedule
    BY <1>6 DEF TimerFires, Start
  <2>. QED
    BY <2>1, RunTypes, RunStarted DEF CoreOK, OnlyRun, Gens
<1>7. ASSUME Stop PROVE CoreOK'
  <2>1. /\ retired' = tickGen /\ completed' = Higher(completed, tickGen) /\ UNCHANGED <<done, run>>
    BY <1>7 DEF Stop
  <2>2. completed' = tickGen /\ completed <= tickGen /\ tickGen \in Nat
    BY <2>1, Parts DEF Higher
  <2>. QED
    BY <1>0, <2>1, <2>2 DEF CoreOK, Gens
<1>8. ASSUME Advance PROVE CoreOK'
  BY <1>8, TimePassed DEF CoreOK, Advance, fences
<1>9. ASSUME UNCHANGED vars PROVE CoreOK'
  BY <1>9 DEF CoreOK, vars
<1>. QED
  BY <1>1, <1>2, <1>3, <1>4, <1>5, <1>6, <1>7, <1>8, <1>9 DEF Next, TickStep, Timers, BudgetsTimeOut

(* A market call still out has been given up, or is the current run's.     *)
LEMMA MarketStep == TypeOK /\ RunsOK /\ LoopOK /\ MarketOK /\ [Next]_vars => MarketOK'
<1>. SUFFICES ASSUME TypeOK, RunsOK, LoopOK, MarketOK, [Next]_vars, NEW h \in Gens, run'[h].market = "asked"
              PROVE  \/ h <= retired' \/ h <= done'["market"]
                     \/ token' = h /\ timer' = None /\ completed' < h /\ marketStarted' = h
  BY DEF MarketOK
<1>. DEFINE Out == token = h /\ timer = None /\ completed < h /\ marketStarted = h
            Given == h <= retired' \/ h <= done'["market"]
            Kept == token' = h /\ timer' = None /\ completed' < h /\ marketStarted' = h
<1>0. /\ "market" \in Sources /\ done["market"] \in Nat /\ done'["market"] \in Nat
      /\ done["market"] <= done'["market"] /\ completed \in Nat /\ retired \in Nat /\ h \in Nat
      /\ tickGen \in Nat
  BY Parts, DoneGrows DEF Sources, Gens
<1>1. ASSUME run[h].market = "asked", retired <= retired', retired' \in Nat PROVE Given \/ Out
  BY <1>0, <1>1 DEF MarketOK
<1>2. ASSUME NEW g \in Gens, CoreReads(g) \/ ProjectsBudgets(g) \/ CoreSettles(g) \/ MarketSettles(g)
      PROVE  Given \/ Kept
  <2>1. UNCHANGED <<loop, completed, marketStarted>>
    BY <1>2 DEF CoreReads, ProjectsBudgets, CoreSettles, MarketSettles, fences
  <2>2. run[h].market = "asked"
    BY <1>2, CoreMoves, CoreSettled, MarketSettled DEF OnlyRun
  <2>. QED
    BY <1>0, <1>1, <2>1, <2>2 DEF loop
<1>3. ASSUME NEW g \in Gens, TickEnds(g) PROVE Given \/ Kept
  <2>1. /\ UNCHANGED <<token, tickGen, retired, marketStarted>> /\ completed' = Higher(completed, g)
    BY <1>3 DEF TickEnds
  <2>2. h # g /\ run[h].market = "asked" /\ g <= tickGen
    BY <1>3, Begun, TickEnded DEF OnlyRun
  <2>3. ASSUME Out PROVE Kept
    <3>1. timer' = None
      BY <1>3, <2>2, <2>3, TickEnded DEF MayReschedule
    <3>2. g < h
      <4>1. h = tickGen
        BY <2>3, <1>0, StatsAssumption DEF LoopOK
      <4>. QED
        BY <1>0, <2>2, <4>1 DEF Gens
    <3>. QED
      BY <1>0, <2>1, <2>3, <3>1, <3>2 DEF Higher, Gens
  <2>. QED
    BY <1>0, <1>1, <2>1, <2>2, <2>3
<1>4. ASSUME NEW g \in Gens, WatchdogFires(g) PROVE Given \/ Kept
  <2>1. UNCHANGED <<token, retired, marketStarted>>
    BY <1>4 DEF WatchdogFires
  <2>2. run[h].market = "asked"
    BY <1>4, WatchdogFired DEF OnlyRun
  <2>3. ASSUME Out, g = h PROVE Given
    <3>1. Abandon(g)
      BY <1>0, <1>4, <2>3 DEF WatchdogFires
    <3>2. "market" \in Abandoned(g) \/ g <= done["market"]
      BY <1>0, <2>3 DEF Abandoned
    <3>. QED
      BY <1>0, <2>3, <3>1, <3>2, AbandonLeaves
  <2>4. ASSUME Out, g # h PROVE Kept
    <3>1. completed' = completed
      BY <1>4, <2>4 DEF WatchdogFires
    <3>2. timer' = None
      BY <1>4, <2>4, WatchdogFired DEF MayReschedule
    <3>. QED
      BY <2>1, <2>4, <3>1, <3>2
  <2>. QED
    BY <1>0, <1>1, <2>1, <2>2, <2>3, <2>4
<1>5. ASSUME TimerFires \/ Start PROVE Given \/ Kept
  <2>1. RunAndReschedule /\ timer' = None /\ (timer # None \/ token = None)
    BY <1>5 DEF TimerFires, Start, LoopOK
  <2>2. CASE h = tickGen + 1
    BY <1>0, <2>1, <2>2, Parts, RunTypes, RunStarted
  <2>3. CASE h # tickGen + 1
    <3>1. run[h].market = "asked" /\ retired' = retired
      BY <2>1, <2>3, RunTypes, RunStarted DEF OnlyRun
    <3>2. ~Out
      BY <2>1 DEF Gens
    <3>. QED
      BY <1>0, <1>1, <3>1, <3>2
  <2>. QED
    BY <2>2, <2>3
<1>6. ASSUME Stop PROVE Given \/ Kept
  <2>1. retired' = tickGen /\ run' = run
    BY <1>6 DEF Stop
  <2>2. h <= tickGen
    BY <2>1, Begun
  <2>. QED
    BY <2>1, <2>2
<1>7. ASSUME Advance PROVE Given \/ Kept
  <2>1. UNCHANGED <<token, retired, completed, marketStarted>>
    BY <1>7 DEF Advance, fences
  <2>. QED
    BY <1>0, <1>1, <1>7, <2>1, TimePassed
<1>8. ASSUME UNCHANGED vars PROVE Given \/ Kept
  BY <1>0, <1>1, <1>8 DEF vars
<1>. QED
  BY <1>2, <1>3, <1>4, <1>5, <1>6, <1>7, <1>8 DEF Next, TickStep, Timers, BudgetsTimeOut

LEMMA StatsInit == Init => StatsInv
<1>. SUFFICES ASSUME Init PROVE StatsInv
  OBVIOUS
<1>1. TypeOK
  BY TypeInit
<1>2. \A g \in Gens : run[g].core = "none" /\ run[g].market = "none" /\ ~run[g].watched
  BY DEF Init, NoRun
<1>3. RunsOK
  BY <1>2 DEF Init, RunsOK, Gens
<1>4. LoopOK
  BY DEF Init, LoopOK
<1>5. PublishedOK
  BY DEF Init, PublishedOK
<1>6. CoreOK /\ MarketOK
  BY <1>2 DEF Init, CoreOK, MarketOK, Sources
<1>. QED
  BY <1>1, <1>3, <1>4, <1>5, <1>6 DEF StatsInv

LEMMA StatsStep == StatsInv /\ [Next]_vars => StatsInv'
  BY TypeStep, RunsStep, LoopStep, PublishedStep, CoreStep, MarketStep DEF StatsInv

(* The inductive invariant: one run, the last, owns the loop, and every    *)
(* fence says which ticks were settled, given up or stopped.               *)
THEOREM StatsInvariant == Spec => []StatsInv
  BY StatsInit, StatsStep, PTL DEF Spec

(* Every counter stays within its bound and every pace between BASE_TICK_MS *)
(* and MAX_BACKOFF_MS, whatever fails.                                      *)
THEOREM TypeCorrect == Spec => []TypeOK
<1>1. StatsInv => TypeOK
  BY DEF StatsInv
<1>. QED
  BY <1>1, StatsInvariant, PTL

(* Ticks stalled across stop() and start(), and watchdogs that fire after  *)
(* them, never leave two loops running or a started service without one.   *)
THEOREM OneLoopAlways == Spec => []OneLoop
<1>1. StatsInv => OneLoop
  <2>. SUFFICES ASSUME StatsInv PROVE OneLoop
    OBVIOUS
  <2>1. TypeOK /\ LoopOK
    BY DEF StatsInv
  <2>2. CASE started
    <3>1. token \in Gens /\ (timer # None) = run[token].rescheduled
          /\ (run[token].rescheduled \/ run[token].core # "over" \/ run[token].watched)
      BY <2>1, <2>2 DEF LoopOK
    <3>2. run[token].rescheduled \in BOOLEAN
      BY <2>1, <3>1, Parts DEF Runs
    <3>3. \E x : Drivers = {x}
      <4>1. CASE timer = None
        <5>1. Drivers = {token}
          BY <3>1, <3>2, <4>1 DEF Drivers
        <5>. QED
          BY <5>1
      <4>2. CASE timer # None
        <5>1. Drivers = {0}
          BY <3>1, <3>2, <4>2 DEF Drivers
        <5>. QED
          BY <5>1
      <4>. QED
        BY <4>1, <4>2
    <3>. QED
      BY <2>2, <3>3, FS_Singleton DEF OneLoop
  <2>3. CASE ~started
    <3>1. Drivers = {}
      BY <2>1, <2>3 DEF LoopOK, Drivers, Gens
    <3>. QED
      BY <2>3, <3>1, FS_EmptySet DEF OneLoop
  <2>. QED
    BY <2>2, <2>3
<1>. QED
  BY <1>1, StatsInvariant, PTL

(* What /mnstats reports ready is the newest word of its source, however   *)
(* late the answers of overtaken ticks arrive.                             *)
THEOREM ReadyIsCurrentAlways == Spec => []ReadyIsCurrent
<1>1. StatsInv => ReadyIsCurrent
  <2>. SUFFICES ASSUME StatsInv, NEW s \in Sources, pub[s].status = "ready",
                       NEW g \in Gens, g > pub[s].gen, g > retired, g <= completed
                PROVE  s = "market" /\ run[g].market = "done"
    BY DEF ReadyIsCurrent
  <2>1. TypeOK /\ RunsOK /\ PublishedOK /\ CoreOK /\ MarketOK
    BY DEF StatsInv
  <2>2. g > done[s]
    BY <2>1 DEF PublishedOK
  <2>3. /\ g \in Nat /\ completed \in Nat /\ retired \in Nat /\ tickGen \in Nat /\ completed <= tickGen
        /\ done["core"] \in Nat /\ done["market"] \in Nat
    BY <2>1, Parts DEF Sources, Gens
  <2>4. s = "market"
    BY <2>1, <2>2, <2>3 DEF CoreOK, Sources
  <2>5. run[g].market \in {"asked", "done"}
    <3>1. run[g].market \in {"none", "asked", "done"}
      BY <2>1, Parts DEF Runs
    <3>. QED
      BY <2>1, <2>3, <3>1 DEF RunsOK
  <2>6. run[g].market # "asked"
    BY <2>1, <2>2, <2>3, <2>4 DEF MarketOK
  <2>. QED
    BY <2>4, <2>5, <2>6
<1>. QED
  BY <1>1, StatsInvariant, PTL

(* A snapshot is only replaced by a later tick's, and never by that of a   *)
(* tick begun before the last stop(), however late its answer arrives.     *)
THEOREM NewerOnlyAlways == Spec => NewerOnly
<1>1. StatsInv /\ [Next]_vars =>
        [\A s \in Sources : pub'[s].gen # pub[s].gen
           => pub'[s].gen > pub[s].gen /\ pub'[s].gen > retired]_vars
  <2>. SUFFICES ASSUME StatsInv, [Next]_vars, NEW s \in Sources, pub'[s].gen # pub[s].gen
                PROVE  pub'[s].gen > pub[s].gen /\ pub'[s].gen > retired
    OBVIOUS
  <2>1. TypeOK /\ PublishedOK /\ CoreOK
    BY DEF StatsInv
  <2>2. PICK g \in Gens : SourceMoved(s, g)
    BY <2>1, SourceStep DEF SourceKept
  <2>3. /\ pub[s].gen \in Nat /\ done[s] \in Nat /\ pub[s].gen <= done[s]
        /\ retired \in Nat /\ completed \in Nat /\ retired <= completed
    BY <2>1, Parts DEF Published, PublishedOK, CoreOK
  <2>. QED
    BY <2>2, <2>3 DEF SourceMoved, Gens
<1>. QED
  BY <1>1, StatsInvariant, PTL DEF Spec, NewerOnly
=============================================================================
