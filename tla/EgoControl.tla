----------------------------- MODULE EgoControl -----------------------------
(***************************************************************************)
(* The offboard tracking controller of cxr_egoctrl_v1: the control loop of *)
(* uav_control_node.cpp.  cxr_egoctrl_v1.cpp is the same loop with another *)
(* formula for the acceleration.                                           *)
(* The node publishes a setpoint in every cycle: a position to hold, or an *)
(* acceleration towards the trajectory command.  Which of them it is, and  *)
(* what point is held, depends on the FCU mode, on whether a command was   *)
(* ever received, and on whether the last one stands still, which the code *)
(* takes for a stop.                                                       *)
(*                                                                         *)
(* The loop body is one step and callbacks run between two of them.        *)
(* Positions are places; the LQR, the observer and the limits that turn a  *)
(* command into an acceleration are left out: an acceleration setpoint     *)
(* says what it was computed from.                                         *)
(***************************************************************************)
CONSTANTS Places,    \* positions, as far apart as they need be to differ
          Origin     \* (0, 0, 0), where every position variable starts

ASSUME PlacesAssumption == Origin \in Places

VARIABLES
  phase,              \* "connect", "initial", "loop"
  mode,               \* current_state.mode; "none" before the first message
  last_mode_state,
  position,           \* position_x, position_y, position_z
  ego,                \* the last command: where, and whether v or a is not 0
  receive,
  stop_hold_active,
  offboard_hold, offboard_hold_set,
  current_goal,       \* the setpoint that is published
  error_of            \* where pos_error was measured from, if published

inputs  == <<mode, position, ego, receive>>
control == <<phase, last_mode_state, stop_hold_active, offboard_hold,
             offboard_hold_set, current_goal, error_of>>
egoVars == <<inputs, control>>

None == "none"

Mode == {"OFFBOARD", "POSCTL"}

Command == [at : Places, moving : BOOLEAN]

(* POSITION_HOLD_MASK and the acceleration mask.                          *)
HoldAt(p)         == [kind |-> "hold", at |-> p, from |-> p]
Accelerate(p, to) == [kind |-> "accel", at |-> to, from |-> p]

Goal == [kind : {"hold", "accel"}, at : Places, from : Places]

EgoTypeOK ==
  /\ phase \in {"connect", "initial", "loop"}
  /\ mode \in Mode \cup {None} /\ last_mode_state \in Mode \cup {None}
  /\ position \in Places
  /\ ego \in Command /\ receive \in BOOLEAN
  /\ stop_hold_active \in BOOLEAN
  /\ offboard_hold \in Places /\ offboard_hold_set \in BOOLEAN
  /\ current_goal \in Goal
  /\ error_of \in Places \cup {None}

EgoInit ==
  /\ phase = "connect"
  /\ mode = None /\ last_mode_state = None
  /\ position = Origin
  /\ ego = [at |-> Origin, moving |-> FALSE] /\ receive = FALSE
  /\ stop_hold_active = FALSE
  /\ offboard_hold = Origin /\ offboard_hold_set = FALSE
  /\ current_goal = HoldAt(Origin)
  /\ error_of = None

-----------------------------------------------------------------------------
(* Callbacks: state_cb, position_cb and twist_cb.                         *)

state_cb(m) == /\ mode' = m
               /\ UNCHANGED <<position, ego, receive, control>>

position_cb(p) == /\ position' = p
                  /\ UNCHANGED <<mode, ego, receive, control>>

twist_cb(c) == /\ ego' = c /\ receive' = TRUE
               /\ UNCHANGED <<mode, position, control>>

-----------------------------------------------------------------------------
(* Before the loop: the wait for the FCU, and setpoints where the vehicle *)
(* is (one hundred of them, each followed by callbacks).                  *)

Connect == /\ phase = "connect" /\ mode # None
           /\ phase' = "initial"
           /\ UNCHANGED <<inputs, last_mode_state, stop_hold_active,
                          offboard_hold, offboard_hold_set, current_goal, error_of>>

InitialGoal == /\ phase = "initial"
               /\ current_goal' = HoldAt(position)
               /\ UNCHANGED <<inputs, phase, last_mode_state, stop_hold_active,
                              offboard_hold, offboard_hold_set, error_of>>

StartLoop == /\ phase = "initial"
             /\ phase' = "loop"
             /\ last_mode_state' = mode
             /\ UNCHANGED <<inputs, stop_hold_active, offboard_hold,
                            offboard_hold_set, current_goal, error_of>>

-----------------------------------------------------------------------------
(* The loop.  A change into OFFBOARD takes a new hold point first.        *)

Offboard == mode = "OFFBOARD"

Entering == Offboard /\ last_mode_state # "OFFBOARD"

HoldPoint == IF Entering THEN position ELSE offboard_hold

HoldKnown == offboard_hold_set \/ Entering

(* The end of the body: a command that moves lifts the stop, the error is *)
(* published, and the setpoint.                                           *)
(* Mutant: nothing lifts a stop.                                          *)
StopKeptAnyway(active) == active

StopKept(active) == active /\ ~ego.moving

ErrorOf(hold, known, active) ==
  IF ~Offboard \/ ~(receive \/ known) THEN None
  ELSE IF (active /\ known) \/ ~receive THEN hold
  ELSE ego.at

EndCycle(hold, known, active, goal) ==
  /\ phase = "loop"
  /\ last_mode_state' = mode
  /\ offboard_hold' = hold /\ offboard_hold_set' = known
  /\ stop_hold_active' = StopKept(active)
  /\ error_of' = ErrorOf(hold, known, StopKept(active))
  /\ current_goal' = goal
  /\ UNCHANGED <<inputs, phase>>

(* ReleasedUntouched is a mutant: only OFFBOARD refreshes the setpoint.     *)
ReleasedUntouched ==
  ~Offboard /\ EndCycle(HoldPoint, HoldKnown, stop_hold_active, current_goal)

(* The pilot flies: the setpoint follows the vehicle.                     *)
Released == /\ ~Offboard
            /\ EndCycle(HoldPoint, HoldKnown, stop_hold_active, HoldAt(position))

(* No command yet: hold, or, without a hold point, follow the vehicle.    *)
Wait == /\ Offboard /\ ~receive
        /\ EndCycle(HoldPoint, HoldKnown, stop_hold_active,
                    HoldAt(IF HoldKnown THEN HoldPoint ELSE position))

(* A command that stands still: the first one takes a new hold point.     *)
(* Mutant: every standing command takes a new hold point.                 *)
StopPointDrifts == position

StopPoint == IF stop_hold_active THEN HoldPoint ELSE position

Stop == /\ Offboard /\ receive /\ ~ego.moving
        /\ EndCycle(StopPoint, HoldKnown \/ ~stop_hold_active, TRUE,
                    HoldAt(StopPoint))

Track == /\ Offboard /\ receive /\ ego.moving /\ ~stop_hold_active
         /\ EndCycle(HoldPoint, HoldKnown, FALSE, Accelerate(position, ego.at))

(* The first moving command after a stop: neither branch runs, and the    *)
(* old setpoint is published once more.                                   *)
LiftStop == /\ Offboard /\ receive /\ ego.moving /\ stop_hold_active
            /\ EndCycle(HoldPoint, HoldKnown, TRUE, current_goal)

Cycle == Released \/ Wait \/ Stop \/ Track \/ LiftStop

EgoCallback == \/ \E m \in Mode : state_cb(m)
               \/ \E p \in Places : position_cb(p)
               \/ \E c \in Command : twist_cb(c)

EgoNext == EgoCallback \/ Connect \/ InitialGoal \/ StartLoop \/ Cycle

EgoSpec == EgoInit /\ [][EgoNext]_egoVars

-----------------------------------------------------------------------------
(* Properties.                                                            *)

(* An acceleration setpoint is never published again in a later cycle:    *)
(* current_goal outlives the cycle, and there is a path on which no branch*)
(* writes it (LiftStop), but what is published then is a point to hold.   *)
NoStaleAcceleration ==
  [][Cycle /\ current_goal'.kind = "accel"
       => /\ Offboard /\ receive /\ ego.moving
          /\ current_goal' = Accelerate(position, ego.at)]_egoVars

(* What is flown while a stop is in force, or before the first command,   *)
(* is the hold point, and not a point the vehicle drifts along with: the  *)
(* point that the last cycle published is the one in offboard_hold.       *)
HoldFlown ==
  /\ last_mode_state = "OFFBOARD" /\ offboard_hold_set /\ phase = "loop"
  /\ stop_hold_active \/ ~receive
  => current_goal = HoldAt(offboard_hold)

(* The inductive invariant behind these: a stop is in force only after a  *)
(* command was received, with a hold point, and with that point published.*)
EgoInv ==
  /\ EgoTypeOK
  /\ stop_hold_active => receive /\ offboard_hold_set /\ current_goal.kind = "hold"
  /\ phase # "loop" => ~offboard_hold_set
  /\ HoldFlown

(* In OFFBOARD a hold keeps its point from cycle to cycle; the one        *)
(* exception is the first standing command, which starts a new hold.      *)
SteadyHold ==
  [][/\ Cycle /\ Offboard /\ last_mode_state = "OFFBOARD" /\ offboard_hold_set
     /\ current_goal.kind = "hold" /\ current_goal'.kind = "hold"
     /\ stop_hold_active \/ ~receive \/ ego.moving
     => current_goal' = current_goal]_egoVars

(* The error that is published is measured from the point that is flown,  *)
(* except in the one cycle that lifts a stop.                             *)
ErrorOfGoal ==
  [][Cycle => \/ error_of' \in {None, current_goal'.at}
              \/ stop_hold_active /\ ego.moving]_egoVars
=============================================================================
