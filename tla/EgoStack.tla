------------------------------ MODULE EgoStack ------------------------------
(***************************************************************************)
(* uav_control.launch with use_cli or use_traj: uav_control_node flies     *)
(* what trajectory_cli or trajectory_node publishes on /position_cmd.  The *)
(* nodes share that topic only; each has its own view of the odometry and  *)
(* the mode.  A command moves when its velocity or its acceleration is not *)
(* 0, which is so, of what the CLI sends, for a circle only.               *)
(***************************************************************************)
EXTENDS EgoControl, Integers, Sequences

CONSTANTS First, Second, DwellTime, MenuCommands,  \* of the CLI
          TrajectoryTypes,                         \* of the trajectory node
          TopicSize                                \* of the queue of the topic

VARIABLES mem, input, listening, main, cmd, published,   \* of the CLI
          trajectory_type, g_mode, g_pos,                \* of the trajectory node
          offboard_started, center,
          position_cmd                                   \* messages on their way

Points == {First, Second} \ {Origin}

Cli  == INSTANCE TrajectoryCli WITH Places <- Points
Node == INSTANCE TrajectoryNode WITH HoverPosition <- Second

(* Positions of the nodes are of one kind, and all start at the same one;  *)
(* that no memory was written is not a position.                           *)
ASSUME StackAssumption ==
  /\ {First, Second} \subseteq Places /\ Origin = Cli!Zero /\ Cli!Unset \notin Places
  /\ DwellTime \in Nat \ {0} /\ TopicSize \in Nat
  /\ MenuCommands \subseteq {"circle", "goto", "stop", "quit"}

cliState  == <<mem, input, listening, main, cmd, published>>
nodeState == <<trajectory_type, g_mode, g_pos, offboard_started, center>>
stackVars == <<egoVars, cliState, nodeState, position_cmd>>

(* What twist_cb takes from a message.                                    *)
CommandOf(c) == [at |-> c.x, moving |-> c.kind = "circle"]

(* A full queue loses its oldest message.                                 *)
Queue(c) == LET q == Append(position_cmd, c)
            IN  IF Len(q) > TopicSize THEN Tail(q) ELSE q

(* A CLI that has just published is in "spin" with what it filled in.     *)
CliStep(A) == /\ A
              /\ position_cmd' = IF main = "publish" /\ main' = "spin"
                                THEN Queue(CommandOf(published')) ELSE position_cmd
              /\ UNCHANGED <<egoVars, nodeState>>

NodePublishes == \E c \in Command : /\ Node!Publishes(c)
                                    /\ position_cmd' = Queue(c)
                                    /\ UNCHANGED <<egoVars, cliState>>

NodeStep(A) == A /\ UNCHANGED <<egoVars, cliState, position_cmd>>

Deliver == /\ position_cmd # <<>>
           /\ twist_cb(Head(position_cmd))
           /\ position_cmd' = Tail(position_cmd)
           /\ UNCHANGED <<cliState, nodeState>>

Ego(A) == A /\ UNCHANGED <<cliState, nodeState, position_cmd>>

EgoLoop == Ego(Connect \/ StartLoop \/ Cycle)

EgoStep == \/ \E m \in Mode : Ego(state_cb(m))
           \/ \E p \in Places : Ego(position_cb(p))
           \/ Ego(InitialGoal)
           \/ EgoLoop

TrajectoryStep == \/ NodePublishes
                  \/ NodeStep(Node!Detect)
                  \/ \E m \in Mode : NodeStep(Node!state_cb(m))
                  \/ \E p \in Places : NodeStep(Node!odom_cb(p))

StackInit == EgoInit /\ Cli!CliInit /\ Node!NodeInit /\ position_cmd = <<>>

(* With use_cli.                                                          *)
StackNext == CliStep(Cli!CliNext) \/ Deliver \/ EgoStep

(* With use_traj.                                                         *)
TrajectoryNext == TrajectoryStep \/ Deliver \/ EgoStep

TrajectorySpec == StackInit /\ [][TrajectoryNext]_stackVars

(* The fairness of the CLI; the controller's loop and its callbacks run.  *)
StackFairness ==
  /\ WF_stackVars(CliStep(Cli!MainStep)) /\ SF_stackVars(CliStep(Cli!Sleep))
  /\ WF_stackVars(CliStep(Cli!InputStep)) /\ WF_stackVars(CliStep(Cli!CliTick))
  /\ WF_stackVars(Deliver)
  /\ WF_stackVars(EgoLoop)

StackSpec == StackInit /\ [][StackNext]_stackVars /\ StackFairness
-----------------------------------------------------------------------------
(* The pilot leaves the vehicle in OFFBOARD.                              *)
Settled == phase = "loop" /\ mode = "OFFBOARD" /\ Cli!Idle

(* A stop typed at the menu ends in a hold that stays: commands of a      *)
(* circle that are still on their way lift it at most for a while, and    *)
(* the point the controller holds is its own, wherever the CLI's is.      *)
StopIsFlown ==
  <>[](Settled /\ mem.stop_req /\ ~mem.run_circle /\ ~mem.run_goto_seq)
    => \E p \in Places : <>[](current_goal = HoldAt(p))

(* A trajectory is flown around its center as long as the controller is in*)
(* OFFBOARD, wherever the vehicle was when the controller came to it; the *)
(* hover, whose commands do not move, ends in a hold that stays.          *)
TrajectoryIsFlown ==
  <>[](phase = "loop" /\ mode = "OFFBOARD" /\ offboard_started)
    => IF trajectory_type = "hover"
       THEN \E p \in Places : <>[](current_goal = HoldAt(p))
       ELSE <>[](current_goal.kind = "accel" /\ current_goal.at = center)

(* "[g] goto 2 points" of the menu: what is flown is one of the points.   *)
GotoIsFlown ==
  <>[](Settled /\ mem.run_goto_seq /\ ~mem.run_circle)
    => <>(current_goal.at \in {First, Second})
=============================================================================
