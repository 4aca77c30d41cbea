---------------------------- MODULE MCScheduler ----------------------------
(***************************************************************************)
(* Instances of Scheduler for TLC: an item that fires once, one that runs  *)
(* on a grid of the wall clock until an end, and one that runs once, a     *)
(* tick from its start, whether or not the clock is right.  Callers give   *)
(* the second disabled, and enable it later, the others enabled.           *)
(***************************************************************************)
EXTENDS Scheduler

CONSTANT e1

OneId == {e1}
Once == [kind |-> "once", start |-> 5, interval |-> 0, end |-> 0, maxRuns |-> 0]
Grid == [kind |-> "interval", start |-> 5, interval |-> 1, end |-> 6, maxRuns |-> 0]
Free == [kind |-> "interval", start |-> 0, interval |-> 1, end |-> 0, maxRuns |-> 1]
MCItem == {Once, Grid, Free}
MCGiven == [item : {Once, Free}, enabled : {TRUE}] \cup [item : {Grid}, enabled : {FALSE}]
=============================================================================
