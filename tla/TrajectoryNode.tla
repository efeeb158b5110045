--------------------------- MODULE TrajectoryNode ---------------------------
(***************************************************************************)
(* trajectory_node: waits for OFFBOARD, takes the position it knows then   *)
(* as the center of its trajectory, and publishes a command 20 times a     *)
(* second from then on, whatever the mode.  The loop body is one step;     *)
(* callbacks run between two of them.  Where on its curve a command is     *)
(* does not matter here: it is around its center, and moves unless the     *)
(* trajectory is a hover.                                                  *)
(***************************************************************************)
CONSTANTS Places, Origin,  \* positions; (0, 0, 0), where g_pos starts
          HoverPosition,   \* hover_position
          TrajectoryTypes  \* what the parameter can be: circle, square, hover

VARIABLES trajectory_type,   \* the parameter
          g_mode,            \* g_state.mode; "none" before the first message
          g_pos,
          offboard_started,
          center             \* center_x, center_y and height

nodeVars == <<trajectory_type, g_mode, g_pos, offboard_started, center>>

NodeInit ==
  /\ trajectory_type \in TrajectoryTypes
  /\ g_mode = "none"
  /\ g_pos = Origin
  /\ offboard_started = FALSE
  /\ center = Origin

state_cb(m) == /\ g_mode' = m
               /\ UNCHANGED <<trajectory_type, g_pos, offboard_started, center>>

odom_cb(p) == /\ g_pos' = p
              /\ UNCHANGED <<trajectory_type, g_mode, offboard_started, center>>

(* Mutant: the center is taken anew as long as it is OFFBOARD.             *)
DetectAgain == /\ g_mode = "OFFBOARD"
               /\ offboard_started' = TRUE
               /\ center' = g_pos
               /\ UNCHANGED <<trajectory_type, g_mode, g_pos>>

Detect == /\ ~offboard_started /\ g_mode = "OFFBOARD"
          /\ offboard_started' = TRUE
          /\ center' = g_pos
          /\ UNCHANGED <<trajectory_type, g_mode, g_pos>>

(* The command of one round: velocity and acceleration are 0 in a hover.  *)
trajectory_cmd ==
  IF trajectory_type = "hover" THEN [at |-> HoverPosition, moving |-> FALSE]
                               ELSE [at |-> center, moving |-> TRUE]

(* A round publishes c; the node keeps nothing of it.                     *)
Publishes(c) == /\ offboard_started
                /\ c = trajectory_cmd
                /\ UNCHANGED nodeVars
=============================================================================
