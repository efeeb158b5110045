----------------------------- MODULE MCOffboard -----------------------------
(***************************************************************************)
(* The offboard nodes for TLC.  A behaviour is of one of four systems:     *)
(* the controller alone, with every command of anybody at any time; the    *)
(* CLI alone, with any two menu commands and a stop; the two joined by     *)
(* their topic, with a circle and a stop once it is in OFFBOARD; or the    *)
(* controller joined to the trajectory node.                               *)
(***************************************************************************)
EXTENDS EgoStack

ASSUME Cli!CliAssumption

VARIABLES system,    \* "controller", "cli", "both", "trajectory"
          typed      \* how many menu commands were entered

offboardVars == <<stackVars, system, typed>>

ControllerAlone == system = "controller" /\ EgoNext
                   /\ UNCHANGED <<cliState, nodeState, position_cmd, system, typed>>

CliAlone(A) == /\ system = "cli" /\ A
               /\ UNCHANGED <<egoVars, nodeState, position_cmd, system, typed>>

Both(A) == system = "both" /\ A /\ UNCHANGED <<system, typed>>

Type(c) == /\ \/ system = "both" /\ typed < 2 /\ phase = "loop" /\ mode = "OFFBOARD"
                 /\ c = (IF typed = 0 THEN "circle" ELSE "stop")
              \/ system = "cli" /\ (typed < 2 \/ (typed = 2 /\ c = "stop"))
           /\ Cli!Enter(c) /\ typed' = typed + 1
           /\ UNCHANGED <<egoVars, nodeState, position_cmd, system>>

Trajectory(A) == system = "trajectory" /\ A /\ UNCHANGED <<system, typed>>
Joined(A) == Both(A) \/ Trajectory(A)

CliRuns(A) == CliAlone(A) \/ Both(CliStep(A))

Runs == \/ ControllerAlone
        \/ \E c \in MenuCommands : Type(c)
        \/ CliRuns(Cli!MainStep \/ Cli!InputStep \/ Cli!CliTick)
        \/ CliRuns(\E p \in Points : Cli!odom_cb(p))
        \/ CliAlone(Cli!EndOfInput)
        \/ Joined(Deliver \/ EgoLoop \/ Ego(InitialGoal) \/ Ego(state_cb("OFFBOARD")))
        \/ Joined(\E p \in Points \cup {Origin} : Ego(position_cb(p)))
        \/ Trajectory(Ego(state_cb("POSCTL")))
        \/ Trajectory(TrajectoryStep)

OffboardInit ==
  /\ StackInit /\ typed = 0
  /\ system \in {"controller", "cli", "both", "trajectory"}
  /\ system # "trajectory" => trajectory_type = "hover"

OffboardSpec ==
  /\ OffboardInit
  /\ [][Runs]_offboardVars
  /\ WF_offboardVars(CliRuns(Cli!MainStep)) /\ SF_offboardVars(CliRuns(Cli!Sleep))
  /\ WF_offboardVars(CliRuns(Cli!InputStep)) /\ WF_offboardVars(CliRuns(Cli!CliTick))
  /\ WF_offboardVars(Joined(Deliver)) /\ WF_offboardVars(Joined(EgoLoop))
  /\ WF_offboardVars(Trajectory(NodePublishes))

-----------------------------------------------------------------------------
(* The properties of the CLI, stated in TrajectoryCli.                    *)

(* No command is computed from a center or a hold point never stored.     *)
CommandsInitialised == Cli!CommandsInitialised

(* A stop that no sequence overrides ends with the hold point published.  *)
StopHolds == Cli!StopHolds

(* A sequence whose first point has been reached goes on to the second.   *)
SequenceCompletes == Cli!SequenceCompletes
=============================================================================
