--------------------------- MODULE MCTrajectoryCli ---------------------------
(* TrajectoryCli for TLC: the vehicle starts at the origin, which is also  *)
(* the second point of a sequence, and may be seen at the first.          *)
EXTENDS TrajectoryCli

OnePlace == {"first"}

StopAndGoto == {"goto", "stop"}

-----------------------------------------------------------------------------
(* What the menu and config.yaml say, and the code does not do.           *)

(* "[g] goto 2 points", with target_dwell_seconds at the first one: a     *)
(* sequence goes to its second point from the dwell at its first.         *)
SecondAfterDwell ==
  [][mem.goto_stage # 2 /\ mem'.goto_stage = 2 => mem.goto_stage = 1]_cliVars
=============================================================================
