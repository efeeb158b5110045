----------------------------- MODULE PX4CtrlFSM -----------------------------
(***************************************************************************)
(* The flight state machine of px4ctrl: PX4CtrlFSM::process(), the main    *)
(* loop of px4ctrl_node that runs it, the callbacks of input.cpp that feed *)
(* it, and, as far as the code uses them, the flight control unit (FCU)    *)
(* behind mavros and the vehicle itself.                                   *)
(*                                                                         *)
(* One action per callback and one per branch of process().  process() is  *)
(* one atomic step: no callback runs inside it, except in the loop that    *)
(* waits for the sticks, which is a phase of its own.  Every exit of       *)
(* process() runs the land detector and clears the edge flags, so that     *)
(* tail (EndCycle) is part of every branch.                                *)
(*                                                                         *)
(* Time is counted in ticks.  A time stamp is kept as its age, saturating  *)
(* just past the largest value it is compared with.  Heights and speeds    *)
(* are kept as the classes the guards tell apart.                          *)
(***************************************************************************)
EXTENDS RcInput

CONSTANTS OdomTimeout,    \* msg_timeout/odom
          CmdTimeout,     \* msg_timeout/cmd
          OffboardDelay,  \* 1.0 s in AUTO_TAKEOFF before OFFBOARD is requested
          MotorsSpeedup,  \* MOTORS_SPEEDUP_TIME
          ClimbTime,      \* 1.5 * takeoff_height / takeoff_land_speed
          RampTime,       \* the descent to half a metre below any ground
          TriggerDelay,   \* DELAY_TRIGGER_TIME
          TimeKeep,       \* TIME_KEEP_C of the land detector
          DisarmPeriod,   \* 1.0 s between two disarm requests
          Modes,          \* the FCU's flight modes other than OFFBOARD
          Enable,         \* auto_takeoff_land/enable
          EnableAutoArm,  \* auto_takeoff_land/enable_auto_arm
          NoRC            \* auto_takeoff_land/no_RC

ASSUME TimeAssumption ==
  /\ OdomTimeout \in Nat \ {0} /\ CmdTimeout \in Nat \ {0}
  /\ OffboardDelay \in Nat /\ MotorsSpeedup \in Nat /\ ClimbTime \in Nat
  /\ RampTime \in Nat
  /\ TriggerDelay \in Nat /\ TimeKeep \in Nat /\ DisarmPeriod \in Nat
  /\ OffboardDelay < MotorsSpeedup

(* config_from_ros_handle switches an option off when the option it needs *)
(* is off.                                                                *)
ASSUME ParamAssumption ==
  /\ Enable \in BOOLEAN /\ EnableAutoArm \in BOOLEAN /\ NoRC \in BOOLEAN
  /\ EnableAutoArm => Enable
  /\ NoRC => EnableAutoArm

ASSUME ModesAssumption == "MANUAL" \in Modes /\ {"none", "OFFBOARD"} \cap Modes = {}

State_t == {"MANUAL_CTRL", "AUTO_HOVER", "CMD_CTRL", "AUTO_TAKEOFF", "AUTO_LAND"}

FcuMode == Modes \cup {"OFFBOARD"}

Off == -1      \* a timer that is not running

Landing == MotorsSpeedup + ClimbTime + RampTime + 1   \* where elapsed saturates

VARIABLES
  phase,               \* where main() is: its two waits, the loop, the stick wait
  state,               \* PX4CtrlFSM::state
  held_pose,           \* hover_pose, or takeoff_land.start_pose in AUTO_TAKEOFF
                       \*   and AUTO_LAND, where the other is not used: "odom" if
                       \*   it is the latest odometry sample, else "moved"
  landed,              \* takeoff_land.landed
  offboard_requested,  \* takeoff_land.offboard_requested
  arm_requested,       \* takeoff_land.arm_requested
  elapsed,             \* age of toggle_takeoff_land_time, 0 when not in use
  delay_trigger,       \* Off, or the age of a trigger due after TriggerDelay
  last_state,          \* land_detector's static last_state
  c12,                 \* Off if not is_last_C12_satisfy, else age of time_C12_reached
  last_trial,          \* age of AUTO_LAND's static last_trial_time
  last_u,              \* static last_u: what the last published setpoint was
  thr2acc,             \* the controller's thrust model: "default" or "estimated"
  odom, odom_age, recv_new_msg,   \* Odom_Data_t
  cmd_age,             \* Command_Data_t
  takeoff_land_cmd,    \* Takeoff_Land_Data_t: "none" when not triggered
  mode, armed,         \* state_data.current_state
  before_mode,         \* state_data.state_before_offboard.mode
  on_ground,           \* extended_state_data: landed_state is ON_GROUND
  fcu_mode, fcu_armed, \* the FCU itself
  airborne             \* the vehicle itself

takeoffVars == <<offboard_requested, arm_requested, elapsed>>
odomVars    == <<odom, odom_age>>
stateVars   == <<mode, armed>>
fcuVars     == <<fcu_mode, fcu_armed>>
outVars     == <<last_u, thr2acc>>
flightVars  == <<state, landed, takeoffVars, delay_trigger, last_state, c12,
                 last_trial, outVars, before_mode>>
innerVars   == <<held_pose, flightVars>>
fsmVars     == <<phase, innerVars, recv_new_msg>>
inputVars   == <<odomVars, recv_new_msg, cmd_age, takeoff_land_cmd, stateVars,
                 on_ground>>
vars        == <<phase, innerVars, rcVars, inputVars, fcuVars, airborne>>

(* An odometry sample: speed against the thresholds 0.1 and 3.0 m/s, was  *)
(* the vehicle in the air, and is its height within 0.15 m of the take-off*)
(* height at a climb rate below 0.2 m/s.                                  *)
Odom == [v : {"still", "moving", "wild"}, airborne : BOOLEAN, at_height : BOOLEAN]

Samples == {o \in Odom : /\ o.airborne = airborne
                         /\ o.v = "wild" => airborne
                         /\ o.at_height => airborne /\ o.v # "wild"}

TypeOK ==
  /\ RcTypeOK
  /\ phase \in {"wait_rc", "wait_fcu", "run", "wait_sticks"}
  /\ state \in State_t /\ last_state \in State_t
  /\ held_pose \in {"odom", "moved"}
  /\ landed \in BOOLEAN
  /\ offboard_requested \in BOOLEAN /\ arm_requested \in BOOLEAN
  /\ elapsed \in 0 .. Landing
  /\ delay_trigger \in -1 .. TriggerDelay + 1
  /\ c12 \in -1 .. TimeKeep + 1
  /\ last_trial \in 0 .. DisarmPeriod + 1
  /\ last_u \in {"none", "control", "idle"}
  /\ thr2acc \in {"default", "estimated"}
  /\ odom \in Odom /\ odom_age \in 0 .. OdomTimeout /\ recv_new_msg \in BOOLEAN
  /\ cmd_age \in 0 .. CmdTimeout
  /\ takeoff_land_cmd \in {"none", "TAKEOFF", "LAND"}
  /\ mode \in FcuMode \cup {"none"} /\ armed \in BOOLEAN
  /\ before_mode \in Modes \cup {"none"}
  /\ on_ground \in BOOLEAN
  /\ fcu_mode \in FcuMode /\ fcu_armed \in BOOLEAN
  /\ airborne \in BOOLEAN

Init ==
  /\ RcInit
  /\ phase = IF NoRC THEN "wait_fcu" ELSE "wait_rc"
  /\ state = "MANUAL_CTRL" /\ last_state = "MANUAL_CTRL"
  /\ held_pose = "odom"
  /\ landed = TRUE
  /\ offboard_requested = FALSE /\ arm_requested = FALSE
  /\ elapsed = 0
  /\ delay_trigger = Off
  /\ c12 = Off
  /\ last_trial = DisarmPeriod + 1
  /\ last_u = "none"
  /\ thr2acc = "default"
  /\ odom = [v |-> "still", airborne |-> FALSE, at_height |-> FALSE]
  /\ odom_age = OdomTimeout /\ recv_new_msg = FALSE
  /\ cmd_age = CmdTimeout
  /\ takeoff_land_cmd = "none"
  /\ mode = "none" /\ armed = FALSE /\ before_mode = "none"
  /\ on_ground = FALSE
  /\ fcu_mode \in Modes /\ fcu_armed = FALSE
  /\ airborne = FALSE

-----------------------------------------------------------------------------
(* The callbacks.  ros::spinOnce() runs any number of them between two    *)
(* calls of process(), and inside each of the waits.                      *)

FeedRc(m) == /\ ~NoRC                 \* main() subscribes only with an RC
             /\ RcFeed(m)
             /\ UNCHANGED <<phase, innerVars, inputVars, fcuVars, airborne>>

FeedOdom(o) == /\ odom' = o
               /\ odom_age' = 0
               /\ recv_new_msg' = TRUE
               /\ held_pose' = "moved"
               /\ UNCHANGED <<phase, flightVars, rcVars, cmd_age, stateVars,
                              takeoff_land_cmd, on_ground, fcuVars, airborne>>

FeedCmd == /\ cmd_age' = 0
           /\ UNCHANGED <<fsmVars, rcVars, odomVars, takeoff_land_cmd, stateVars,
                          on_ground, fcuVars, airborne>>

FeedTakeoffLand(c) == /\ takeoff_land_cmd' = c
                      /\ UNCHANGED <<fsmVars, rcVars, odomVars, cmd_age, stateVars,
                                     on_ground, fcuVars, airborne>>

FeedState == /\ mode' = fcu_mode
             /\ armed' = fcu_armed
             /\ UNCHANGED <<fsmVars, rcVars, odomVars, cmd_age, takeoff_land_cmd,
                            on_ground, fcuVars, airborne>>

FeedExtendedState == /\ on_ground' = ~airborne
                     /\ UNCHANGED <<fsmVars, rcVars, odomVars, cmd_age, stateVars,
                                    takeoff_land_cmd, fcuVars, airborne>>

-----------------------------------------------------------------------------
(* The guards and helpers of process().                                   *)

odom_is_received == odom_age < OdomTimeout
cmd_is_received  == cmd_age < CmdTimeout

(* toggle_offboard_mode: one attempt, the FCU may refuse, and no caller   *)
(* looks at the result.                                                   *)
RequestMode(m) == fcu_mode' \in {fcu_mode} \cup ({m} \cap FcuMode)

(* Mutant: the FCU mode is remembered even when it already is OFFBOARD.    *)
RestoreRaw == mode

ModeToRestore == IF mode = "OFFBOARD" THEN "MANUAL" ELSE mode

EnterOffboard == /\ before_mode' = ModeToRestore
                 /\ RequestMode("OFFBOARD")

LeaveOffboard == /\ RequestMode(before_mode)
                 /\ UNCHANGED before_mode

(* C1 and C2 of the land detector, "the reference is more than 0.5 m below*)
(* the vehicle, which is still": the values it can have for a reference of*)
(* the given kind, whether or not the vehicle follows it.  A reference    *)
(* taken from the latest sample is not below it; that of a take-off, which*)
(* goes up from where the vehicle was, is not below one on the ground; the*)
(* ramp of a landing ends up below any ground.                            *)
BelowVehicle(des) ==
  \/ des \in {"cmd", "land"}
  \/ des = "hover" /\ held_pose' = "moved"
  \/ des \in {"speed_up", "takeoff"} /\ held_pose' = "moved" /\ odom.airborne

C12_satisfy(des) ==
  {b \in BOOLEAN :
     /\ b => odom.v = "still" /\ BelowVehicle(des)
     /\ (des = "land" /\ elapsed > RampTime /\ odom.v = "still" /\ ~odom.airborne)
           => b}

(* Mutant: the take-off is forgotten in the first test of land_detector.  *)
EngagesByHoverOnly(new_state) ==
  last_state = "MANUAL_CTRL" /\ new_state = "AUTO_HOVER"

Engages(new_state) == /\ last_state = "MANUAL_CTRL"
                      /\ new_state \in {"AUTO_HOVER", "AUTO_TAKEOFF"}

(* Mutants: time_C12_reached is taken again on every contact, or           *)
(* is_last_C12_satisfy is not reset when the contact is lost.             *)
TimerRestarted(satisfied) == IF satisfied THEN 0 ELSE Off

TimerKept(satisfied) == IF satisfied /\ c12 = Off THEN 0 ELSE c12

Timer(satisfied) == IF ~satisfied THEN Off ELSE IF c12 = Off THEN 0 ELSE c12

land_detector(new_state, des) ==
  /\ last_state' = new_state
  /\ IF new_state = "MANUAL_CTRL" /\ ~armed
     THEN landed' = TRUE /\ UNCHANGED c12
     ELSE IF landed /\ ~Engages(new_state)
     THEN landed' = TRUE /\ c12' = Off
     ELSE \E satisfied \in C12_satisfy(des) :
            /\ c12' = Timer(satisfied)
            /\ landed' = (satisfied /\ c12 > TimeKeep)

(* STEP2 to STEP4: without a new odometry sample the last setpoint is     *)
(* published again; otherwise the thrust model may learn from this sample *)
(* and a new setpoint is computed.                                        *)
(* LearnsAlways is a mutant: the estimator runs in every state.            *)
LearnsAlways(new_state) == odom.airborne \/ odom.v # "still"

Learns(new_state) == /\ new_state \in {"AUTO_HOVER", "CMD_CTRL"}
                     /\ odom.airborne \/ odom.v # "still"

Publish(new_state, idle, model) ==
  IF ~recv_new_msg /\ last_u # "none"
  THEN thr2acc' = model /\ UNCHANGED <<last_u, recv_new_msg>>
  ELSE /\ recv_new_msg' = FALSE
       /\ last_u' = IF idle THEN "idle" ELSE "control"
       /\ thr2acc' \in {model} \cup
            (IF Learns(new_state) THEN {"estimated"} ELSE {})

(* The tail of process(): publish unless in MANUAL_CTRL, run the land     *)
(* detector, clear the flags.                                             *)
EndCycle(new_state, des, idle, model) ==
  /\ state' = new_state
  /\ IF new_state = "MANUAL_CTRL"
     THEN thr2acc' = model /\ UNCHANGED <<last_u, recv_new_msg>>
     ELSE Publish(new_state, idle, model)
  /\ land_detector(new_state, des)
  /\ RcClear
  /\ takeoff_land_cmd' = "none"
  /\ UNCHANGED <<odomVars, cmd_age, stateVars, on_ground, rc_age, airborne>>

(* What a branch leaves alone unless it says otherwise.                   *)
heldVars == <<phase, takeoffVars, last_trial>>

Run(s) == phase = "run" /\ state = s

-----------------------------------------------------------------------------
(* MANUAL_CTRL                                                            *)

HoverAccepted == odom_is_received /\ ~cmd_is_received /\ odom.v # "wild"

TakeoffAsked == ~rc.enter_hover_mode /\ Enable /\ takeoff_land_cmd = "TAKEOFF"

(* Mutant: landed is not asked for.                                        *)
TakeoffAnywhere == odom_is_received /\ ~cmd_is_received /\ odom.v = "still"

TakeoffAccepted == odom_is_received /\ ~cmd_is_received /\ odom.v = "still" /\ landed

(* reboot_FCU: refused by this code when the FCU was last seen armed, and *)
(* by the FCU when it is armed.                                           *)
Reboot == IF rc.toggle_reboot /\ ~armed /\ ~fcu_armed
          THEN fcu_mode' \in Modes /\ UNCHANGED fcu_armed
          ELSE UNCHANGED fcuVars

EnterHover ==
  /\ Run("MANUAL_CTRL") /\ rc.enter_hover_mode /\ HoverAccepted
  /\ held_pose' = "odom"
  /\ EnterOffboard
  /\ EndCycle("AUTO_HOVER", "odom", FALSE, "default")
  /\ UNCHANGED <<heldVars, delay_trigger, fcu_armed>>

EnterTakeoff ==
  /\ Run("MANUAL_CTRL") /\ TakeoffAsked /\ TakeoffAccepted
  /\ rc_is_received => SwitchesReady
  /\ held_pose' = "odom"
  /\ elapsed' = 0 /\ offboard_requested' = FALSE /\ arm_requested' = FALSE
  /\ Reboot
  /\ EndCycle("AUTO_TAKEOFF", "odom", FALSE, "default")
  /\ UNCHANGED <<phase, delay_trigger, last_trial, before_mode>>

(* The take-off is refused and process() blocks, spinning, until the      *)
(* switches and the sticks are in place.                                  *)
WaitForSticks ==
  /\ Run("MANUAL_CTRL") /\ TakeoffAsked /\ TakeoffAccepted
  /\ rc_is_received /\ ~SwitchesReady
  /\ phase' = "wait_sticks"
  /\ UNCHANGED <<innerVars, rcVars, inputVars, fcuVars, airborne>>

SticksReady ==
  /\ phase = "wait_sticks" /\ SwitchesReady
  /\ phase' = "run"
  /\ EndCycle("MANUAL_CTRL", "odom", FALSE, thr2acc)
  /\ UNCHANGED <<held_pose, takeoffVars, delay_trigger, last_trial,
                 before_mode, fcuVars>>

(* A refused request breaks out of the switch before the reboot check.    *)
Reject ==
  /\ Run("MANUAL_CTRL")
  /\ \/ rc.enter_hover_mode /\ ~HoverAccepted
     \/ TakeoffAsked /\ ~TakeoffAccepted
  /\ EndCycle("MANUAL_CTRL", "odom", FALSE, thr2acc)
  /\ UNCHANGED <<heldVars, held_pose, delay_trigger, before_mode, fcuVars>>

StayManual ==
  /\ Run("MANUAL_CTRL") /\ ~rc.enter_hover_mode /\ ~TakeoffAsked
  /\ Reboot
  /\ EndCycle("MANUAL_CTRL", "odom", FALSE, thr2acc)
  /\ UNCHANGED <<heldVars, held_pose, delay_trigger, before_mode>>

-----------------------------------------------------------------------------
(* AUTO_HOVER and CMD_CTRL                                                *)

Keep == rc.is_hover_mode /\ odom_is_received

Commanded == rc.is_command_mode /\ cmd_is_received

(* The first test of AUTO_HOVER, CMD_CTRL and AUTO_LAND.                  *)
ToManual ==
  /\ phase = "run" /\ state \in {"AUTO_HOVER", "CMD_CTRL", "AUTO_LAND"}
  /\ ~Keep
  /\ LeaveOffboard
  /\ elapsed' = 0
  /\ EndCycle("MANUAL_CTRL", "odom", FALSE, thr2acc)
  /\ UNCHANGED <<phase, held_pose, offboard_requested, arm_requested,
                 delay_trigger, last_trial, fcu_armed>>

HoverToCmd ==
  /\ Run("AUTO_HOVER") /\ Keep /\ Commanded
  /\ mode = "OFFBOARD"
  /\ EndCycle("CMD_CTRL", "cmd", FALSE, thr2acc)
  /\ UNCHANGED <<heldVars, held_pose, delay_trigger, before_mode, fcuVars>>

(* Commands arrive but the FCU is not seen in OFFBOARD: the reference is  *)
(* wherever the vehicle is, and held_pose is left alone.                 *)
HoverUncontrolled ==
  /\ Run("AUTO_HOVER") /\ Keep /\ Commanded
  /\ mode # "OFFBOARD"
  /\ EndCycle("AUTO_HOVER", "odom", FALSE, thr2acc)
  /\ UNCHANGED <<heldVars, held_pose, delay_trigger, before_mode, fcuVars>>

HoverToLand ==
  /\ Run("AUTO_HOVER") /\ Keep /\ ~Commanded
  /\ takeoff_land_cmd = "LAND"
  /\ held_pose' = "odom"
  /\ elapsed' = 0
  /\ EndCycle("AUTO_LAND", "odom", FALSE, thr2acc)
  /\ UNCHANGED <<phase, offboard_requested, arm_requested,
                 delay_trigger, last_trial, before_mode, fcuVars>>

(* The hover pose is moved by the sticks, however old they are.           *)
set_hov_with_rc == IF rc.roll /\ rc.others THEN held_pose ELSE "moved"

(* The trigger is due on the gear edge or after the take-off delay.       *)
Hover ==
  /\ Run("AUTO_HOVER") /\ Keep /\ ~Commanded
  /\ takeoff_land_cmd # "LAND"
  /\ held_pose' = set_hov_with_rc
  /\ delay_trigger' = IF rc.enter_command_mode \/ delay_trigger > TriggerDelay
                      THEN Off ELSE delay_trigger
  /\ EndCycle("AUTO_HOVER", "hover", FALSE, thr2acc)
  /\ UNCHANGED <<heldVars, before_mode, fcuVars>>

CmdToHover ==
  /\ Run("CMD_CTRL") /\ Keep /\ ~Commanded
  /\ held_pose' = "odom"
  /\ EndCycle("AUTO_HOVER", "hover", FALSE, thr2acc)
  /\ UNCHANGED <<heldVars, delay_trigger, before_mode, fcuVars>>

(* A LAND request is refused here, and lost when the flags are cleared.   *)
Cmd ==
  /\ Run("CMD_CTRL") /\ Keep /\ Commanded
  /\ EndCycle("CMD_CTRL", "cmd", FALSE, thr2acc)
  /\ UNCHANGED <<heldVars, held_pose, delay_trigger, before_mode, fcuVars>>

-----------------------------------------------------------------------------
(* AUTO_TAKEOFF.  OFFBOARD is requested once, after OffboardDelay; arming *)
(* is requested once, when OFFBOARD has been seen.  Neither result is     *)
(* looked at, and nothing aborts the take-off.                            *)

(* Mutants: the OFFBOARD request only while the motors speed up, arming    *)
(* without having requested OFFBOARD, and an equality instead of > (below).*)
OffboardDueInSpeedUp == /\ ~offboard_requested
                        /\ OffboardDelay < elapsed /\ elapsed < MotorsSpeedup

OffboardDue == ~offboard_requested /\ elapsed > OffboardDelay

ArmDueEarly == EnableAutoArm /\ ~arm_requested /\ mode = "OFFBOARD"

ArmDue == /\ EnableAutoArm
          /\ offboard_requested \/ OffboardDue
          /\ ~arm_requested
          /\ mode = "OFFBOARD"

TakeoffRequests ==
  /\ IF OffboardDue THEN EnterOffboard ELSE UNCHANGED <<before_mode, fcu_mode>>
  /\ IF ArmDue THEN fcu_armed' \in {fcu_armed, TRUE} ELSE UNCHANGED fcu_armed
  /\ offboard_requested' = (offboard_requested \/ OffboardDue)
  /\ arm_requested' = (arm_requested \/ ArmDue)

TakeoffDoneOnTime == elapsed = MotorsSpeedup + ClimbTime /\ odom.at_height

TakeoffDone == elapsed > MotorsSpeedup + ClimbTime /\ odom.at_height

SpeedUp ==
  /\ Run("AUTO_TAKEOFF")
  /\ elapsed < MotorsSpeedup
  /\ TakeoffRequests
  /\ UNCHANGED held_pose
  /\ EndCycle("AUTO_TAKEOFF", "speed_up", FALSE, thr2acc)
  /\ UNCHANGED <<phase, elapsed, delay_trigger, last_trial>>

Climb ==
  /\ Run("AUTO_TAKEOFF")
  /\ elapsed >= MotorsSpeedup /\ ~TakeoffDone
  /\ TakeoffRequests
  /\ UNCHANGED held_pose
  /\ EndCycle("AUTO_TAKEOFF", "takeoff", FALSE, thr2acc)
  /\ UNCHANGED <<phase, elapsed, delay_trigger, last_trial>>

TakeoffToHover ==
  /\ Run("AUTO_TAKEOFF")
  /\ TakeoffDone
  /\ TakeoffRequests
  /\ held_pose' = "odom"
  /\ delay_trigger' = 0
  /\ elapsed' = 0
  /\ EndCycle("AUTO_HOVER", "hover", FALSE, thr2acc)
  /\ UNCHANGED <<phase, last_trial>>

-----------------------------------------------------------------------------
(* AUTO_LAND                                                              *)

LandToHover ==
  /\ Run("AUTO_LAND") /\ Keep /\ ~rc.is_command_mode
  /\ held_pose' = "odom"
  /\ elapsed' = 0
  /\ EndCycle("AUTO_HOVER", "hover", FALSE, thr2acc)
  /\ UNCHANGED <<phase, offboard_requested, arm_requested, delay_trigger,
                 last_trial, before_mode, fcuVars>>

KeepLanding == Run("AUTO_LAND") /\ Keep /\ rc.is_command_mode

Descend ==
  /\ KeepLanding /\ ~landed
  /\ EndCycle("AUTO_LAND", "land", FALSE, thr2acc)
  /\ UNCHANGED <<heldVars, held_pose, delay_trigger, before_mode, fcuVars>>

MayDisarm == on_ground /\ last_trial > DisarmPeriod

Idle ==
  /\ KeepLanding /\ landed /\ ~MayDisarm
  /\ EndCycle("AUTO_LAND", "odom", TRUE, thr2acc)
  /\ UNCHANGED <<heldVars, held_pose, delay_trigger, before_mode, fcuVars>>

(* The FCU refuses to disarm in the air.                                  *)
DisarmAccepted ==
  /\ KeepLanding /\ landed /\ MayDisarm
  /\ ~airborne
  /\ last_trial' = 0
  /\ fcu_armed' = FALSE
  /\ LeaveOffboard
  /\ elapsed' = 0
  /\ EndCycle("MANUAL_CTRL", "odom", TRUE, thr2acc)
  /\ UNCHANGED <<phase, held_pose, offboard_requested, arm_requested,
                 delay_trigger>>

(* DisarmUnchecked is a mutant: toggle_arm_disarm's result is ignored.     *)
DisarmUnchecked ==
  /\ KeepLanding /\ landed /\ MayDisarm
  /\ last_trial' = 0
  /\ elapsed' = 0
  /\ EndCycle("MANUAL_CTRL", "odom", TRUE, thr2acc)
  /\ UNCHANGED <<phase, held_pose, offboard_requested, arm_requested,
                 delay_trigger, before_mode, fcuVars>>

DisarmRefused ==
  /\ KeepLanding /\ landed /\ MayDisarm
  /\ last_trial' = 0
  /\ EndCycle("AUTO_LAND", "odom", TRUE, thr2acc)
  /\ UNCHANGED <<phase, held_pose, takeoffVars, delay_trigger, before_mode,
                 fcuVars>>

-----------------------------------------------------------------------------
(* main() before the loop: wait for the RC, then for the FCU.             *)

RcSeen == /\ phase = "wait_rc" /\ rc_is_received
          /\ phase' = "wait_fcu"
          /\ UNCHANGED <<innerVars, rcVars, inputVars, fcuVars, airborne>>

Connected == /\ phase = "wait_fcu" /\ mode # "none"
             /\ phase' = "run"
             /\ UNCHANGED <<innerVars, rcVars, inputVars, fcuVars, airborne>>

-----------------------------------------------------------------------------
(* Time, the FCU and the vehicle (external).                              *)

Tick ==
  /\ RcTick
  /\ odom_age' = Older(odom_age, OdomTimeout)
  /\ cmd_age' = Older(cmd_age, CmdTimeout)
  /\ elapsed' = IF state \in {"AUTO_TAKEOFF", "AUTO_LAND"}
                THEN Older(elapsed, Landing) ELSE elapsed
  /\ delay_trigger' = Older(delay_trigger, TriggerDelay + 1)
  /\ c12' = Older(c12, TimeKeep + 1)
  /\ last_trial' = Older(last_trial, DisarmPeriod + 1)
  /\ UNCHANGED <<phase, state, held_pose, landed, offboard_requested,
                 arm_requested, last_state, outVars, before_mode, rc, odom,
                 recv_new_msg, takeoff_land_cmd, stateVars, on_ground, fcuVars,
                 airborne>>

envUnchanged == UNCHANGED <<phase, innerVars, rcVars, inputVars>>

(* The pilot's mode switch, or a failsafe.                                *)
FcuChangesMode == /\ fcu_mode' \in Modes \ {fcu_mode}
                  /\ UNCHANGED <<fcu_armed, airborne>> /\ envUnchanged

PilotArms == /\ ~fcu_armed /\ fcu_armed' = TRUE
             /\ UNCHANGED <<fcu_mode, airborne>> /\ envUnchanged

FcuDisarms == /\ fcu_armed /\ ~airborne /\ fcu_armed' = FALSE
              /\ UNCHANGED <<fcu_mode, airborne>> /\ envUnchanged

(* In OFFBOARD the vehicle rises only on a setpoint of the controller.    *)
LiftOff == /\ ~airborne /\ fcu_armed
           /\ fcu_mode = "OFFBOARD" => last_u = "control"
           /\ airborne' = TRUE
           /\ UNCHANGED fcuVars /\ envUnchanged

TouchDown == /\ airborne /\ airborne' = FALSE
             /\ UNCHANGED fcuVars /\ envUnchanged

-----------------------------------------------------------------------------
Callback == \/ \E m \in RcMsgs : FeedRc(m)
            \/ \E o \in Samples : FeedOdom(o)
            \/ FeedCmd
            \/ \E c \in {"TAKEOFF", "LAND"} : FeedTakeoffLand(c)
            \/ FeedState
            \/ FeedExtendedState

process == \/ EnterHover \/ EnterTakeoff \/ WaitForSticks \/ SticksReady
           \/ Reject \/ StayManual
           \/ ToManual
           \/ HoverToCmd \/ HoverUncontrolled \/ HoverToLand \/ Hover
           \/ CmdToHover \/ Cmd
           \/ SpeedUp \/ Climb \/ TakeoffToHover
           \/ LandToHover \/ Descend \/ Idle \/ DisarmAccepted \/ DisarmRefused

Environment == Tick \/ FcuChangesMode \/ PilotArms \/ FcuDisarms
               \/ LiftOff \/ TouchDown

Next == Callback \/ process \/ RcSeen \/ Connected \/ Environment

Spec == Init /\ [][Next]_vars

-----------------------------------------------------------------------------
(* Properties.                                                            *)

(* The software never holds the vehicle without knowing the mode that     *)
(* toggle_offboard_mode(false) has to restore: state_before_offboard is   *)
(* set before AUTO_HOVER is reached, on the take-off path too, where      *)
(* OFFBOARD is requested by a timer of its own, and never is OFFBOARD.    *)
BeforeModeKnown ==
  state \in {"AUTO_HOVER", "CMD_CTRL", "AUTO_LAND"} => before_mode \in Modes

(* A take-off begins with a land detector that remembers nothing: what it *)
(* says in AUTO_TAKEOFF, it says on contact of this take-off.  A contact  *)
(* timer left running by the early return of land_detector, or the landed *)
(* of the flight before, would end the climb as a vehicle on the ground.  *)
FreshDetector ==
  state = "AUTO_TAKEOFF" =>
    /\ c12 # Off => c12 <= elapsed \/ elapsed = Landing
    /\ landed => elapsed > TimeKeep \/ elapsed = Landing

(* The vehicle climbs on the default thrust model: what the estimator     *)
(* learnt in an earlier flight was reset, and it does not learn before the*)
(* hover.                                                                 *)
DefaultThrustInTakeoff == state = "AUTO_TAKEOFF" => thr2acc = "default"

(* The node asks for arming only in a take-off whose OFFBOARD request has *)
(* been sent: the two one-shot flags are never out of order.              *)
ArmAfterOffboard == arm_requested => offboard_requested

(* AUTO_LAND declares the landing on contact seen during this landing: a  *)
(* contact timer that was running when LAND arrived is not inherited.     *)
ContactOfThisLanding ==
  state = "AUTO_LAND" /\ c12 # Off => c12 <= elapsed \/ elapsed = Landing

(* Without RC (take-off by topic only), the vehicle is given up for one of*)
(* two reasons: odometry was lost, or it has landed and is disarmed.      *)
RcFreeHandBack ==
  [][NoRC /\ state # "MANUAL_CTRL" /\ state' = "MANUAL_CTRL"
       => ~odom_is_received \/ (state = "AUTO_LAND" /\ landed /\ ~fcu_armed')]_vars

(* The inductive invariant behind these: process() has always told the    *)
(* land detector about the state it left, main() runs process() only with *)
(* a connected FCU, and an RC that is not subscribed keeps its defaults.  *)
FlightInv ==
  /\ last_state = state
  /\ phase # "run" => state = "MANUAL_CTRL"
  /\ phase \in {"run", "wait_sticks"} => mode # "none"
  /\ NoRC => rc = RC_Data_t
  /\ BeforeModeKnown
  /\ state = "AUTO_TAKEOFF" /\ offboard_requested => before_mode \in Modes
  /\ FreshDetector
  /\ DefaultThrustInTakeoff
  /\ ArmAfterOffboard
  /\ ContactOfThisLanding

(* An edge of the gear switch that process() has not seen yet stays an    *)
(* edge into command mode, however the pilot moves the switches, unless a *)
(* message has the gear switch exactly at its threshold: that ends command*)
(* mode and does not withdraw the edge (input.cpp:72-83).                 *)
CommandEdgeCurrent == rc.enter_command_mode => rc.is_command_mode
CommandEdgeKept ==
  [][CommandEdgeCurrent /\ ~CommandEdgeCurrent'
       => rc'.is_hover_mode /\ rc'.last_gear = At]_vars

(* The state machine implements FlightModes.                              *)
FM == INSTANCE FlightModes WITH PilotModes <- Modes, give_back <- before_mode
FlightModesSpec == FM!Spec
=============================================================================
