---------------------------- MODULE MCCollector ----------------------------
(* The programs that TLC runs the collector under, one defect at a time.   *)
EXTENDS Collector

FinalizerRegimes == {{"fields", "free", "major"}}
StaleRegimes == {{"fields", "stale"}}
=============================================================================
