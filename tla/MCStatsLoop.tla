---------------------------- MODULE MCStatsLoop ----------------------------
(* The statistics loop over a few ticks, in units of twenty seconds.       *)
EXTENDS StatsLoop
=============================================================================
