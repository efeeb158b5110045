--------------------------- MODULE MCThrustMapping ---------------------------
(* ThrustMapping for TLC: signals in thirds, a window of two ticks, and   *)
(* two yaw angles further apart than the yaw rate reaches.                *)
EXTENDS ThrustMapping

TwoYaws == {0, 2}

(* As configured, with a rate of one step, and too narrow for hovering.   *)
AsConfigured == {[min |-> 1, max |-> 3, rate |-> 1, yaw_rate |-> 1]}
TwoLimits == AsConfigured \cup {[min |-> 3, max |-> 3, rate |-> 0, yaw_rate |-> 1]}
-----------------------------------------------------------------------------
(* "Minimum normalized thrust constraint", "Normalized thrust rate        *)
(* constraint in 1/s", "Attitude angle rate constraint in rad/s"          *)
(* (MPCController.cfg): what is flown satisfies all of them.  The run     *)
(* starts from limits that contain hovering and never reconfigures them.  *)
LimitsKept == has_last_control => solved.ok
=============================================================================
