---------------------------- MODULE SchedulerMC ----------------------------
(* Small fleets for model-checking Scheduler.                              *)
EXTENDS SchedulerProperties, TLC

\* The heartbeats of the fleet in src/src/simulator.rs: Idle between tasks,
\* Busy along a path, Charging with a low battery.
SimReports ==
    {[status |-> "Idle", low |-> FALSE, delay |-> 0],
     [status |-> "Busy", low |-> FALSE, delay |-> 0],
     [status |-> "Charging", low |-> TRUE, delay |-> 0]}

MovingReports == {hb \in SimReports : ~hb.low}

Pairs == Robots \X Tasks
Symmetry == Permutations(Robots) \cup Permutations(Tasks)
=============================================================================
