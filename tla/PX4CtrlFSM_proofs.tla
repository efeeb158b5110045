------------------------- MODULE PX4CtrlFSM_proofs -------------------------
(***************************************************************************)
(* Proofs about PX4CtrlFSM, for every value of the timers, the FCU modes,  *)
(* the RC messages and the parameters.                                     *)
(***************************************************************************)
EXTENDS PX4CtrlFSM, TLAPS

Models == {"default", "estimated"}

USE DEF Off

(* What one RC message, and clearing the edges, leave of the RC data.     *)
LEMMA RcFeedType ==
  ASSUME RcTypeOK, NEW m \in RcMsgs, RcFeed(m)
  PROVE  RcTypeOK'
<1>1. m \in RcMsg BY RcAssumption
<1>2. /\ m.mode \in Level /\ m.gear \in Level /\ m.reboot \in Level
      /\ m.roll \in BOOLEAN /\ m.others \in BOOLEAN
  BY <1>1 DEF RcMsg
<1>3. rc \in Rc BY DEF RcTypeOK
<1>4. rc.is_command_mode \in BOOLEAN /\ rc.enter_command_mode \in BOOLEAN
  BY <1>3 DEF Rc
<1>5. /\ HoverOf(m) \in BOOLEAN /\ EnterHoverOf(m) \in BOOLEAN
      /\ CommandOf(m) \in BOOLEAN /\ EnterCommandOf(m) \in BOOLEAN
      /\ RebootOf(m) \in BOOLEAN
  <2>1. HoverOf(m) \in BOOLEAN BY DEF HoverOf
  <2>2. EnterHoverOf(m) \in BOOLEAN BY DEF EnterHoverOf, Rising
  <2>3. CommandOf(m) \in BOOLEAN
    <3>1. CASE HoverOf(m) BY <3>1 DEF CommandOf
    <3>2. CASE ~HoverOf(m) BY <3>2, <1>4 DEF CommandOf
    <3> QED BY <3>1, <3>2
  <2>4. EnterCommandOf(m) \in BOOLEAN BY DEF EnterCommandOf
  <2>5. RebootOf(m) \in BOOLEAN BY DEF RebootOf
  <2> QED BY <2>1, <2>2, <2>3, <2>4, <2>5
<1>6. rc' \in Rc BY <1>2, <1>5 DEF RcFeed, Rc
<1>7. rc_age' \in 0 .. RcTimeout BY RcAssumption DEF RcFeed
<1> QED BY <1>6, <1>7 DEF RcTypeOK

LEMMA RcClearType ==
  ASSUME rc \in Rc, RcClear
  PROVE  rc' \in Rc
BY DEF Rc, RcClear

(* Ageing keeps a time stamp's age within its bounds.                     *)
LEMMA OlderType ==
  ASSUME NEW max \in Nat, NEW low \in Int, low <= 0, NEW age \in low .. max
  PROVE  Older(age, max) \in low .. max
BY DEF Older

(* The land detector assigns values of the right type.                    *)
LEMMA LandDetectorType ==
  ASSUME TypeOK, NEW s \in State_t, NEW des, land_detector(s, des)
  PROVE  /\ last_state' \in State_t
         /\ landed' \in BOOLEAN
         /\ c12' \in -1 .. TimeKeep + 1
<1>1. TimeKeep \in Nat BY TimeAssumption
<1>2. c12 \in -1 .. TimeKeep + 1 BY DEF TypeOK
<1>3. last_state' \in State_t BY DEF land_detector
<1>4. CASE s = "MANUAL_CTRL" /\ ~armed
  BY <1>2, <1>3, <1>4 DEF land_detector
<1>5. CASE ~(s = "MANUAL_CTRL" /\ ~armed) /\ landed /\ ~Engages(s)
  <2>1. landed' = TRUE /\ c12' = Off
    BY <1>5, Zenon DEF land_detector
  <2> QED BY <1>1, <1>3, <2>1
<1>6. CASE ~(s = "MANUAL_CTRL" /\ ~armed) /\ ~(landed /\ ~Engages(s))
  <2>1. PICK b \in BOOLEAN : c12' = Timer(b) /\ landed' = (b /\ c12 > TimeKeep)
    BY <1>6 DEF land_detector, C12_satisfy
  <2> QED BY <1>1, <1>2, <1>3, <2>1 DEF Timer
<1> QED BY <1>4, <1>5, <1>6

(* The tail of process() keeps every variable it assigns in its type.     *)
LEMMA EndCycleType ==
  ASSUME TypeOK, NEW s \in State_t, NEW des, NEW idle \in BOOLEAN,
         NEW model \in Models, EndCycle(s, des, idle, model)
  PROVE  /\ RcTypeOK'
         /\ state' \in State_t /\ last_state' \in State_t
         /\ landed' \in BOOLEAN
         /\ c12' \in -1 .. TimeKeep + 1
         /\ last_u' \in {"none", "control", "idle"}
         /\ thr2acc' \in Models
         /\ odom' \in Odom /\ odom_age' \in 0 .. OdomTimeout
         /\ recv_new_msg' \in BOOLEAN
         /\ cmd_age' \in 0 .. CmdTimeout
         /\ takeoff_land_cmd' \in {"none", "TAKEOFF", "LAND"}
         /\ mode' \in FcuMode \cup {"none"} /\ armed' \in BOOLEAN
         /\ on_ground' \in BOOLEAN
         /\ airborne' \in BOOLEAN
<1>1. state' \in State_t /\ takeoff_land_cmd' \in {"none", "TAKEOFF", "LAND"}
  BY DEF EndCycle
<1>2. last_state' \in State_t /\ landed' \in BOOLEAN /\ c12' \in -1 .. TimeKeep + 1
  BY LandDetectorType DEF EndCycle
<1>3. RcTypeOK'
  BY RcClearType DEF EndCycle, RcTypeOK, TypeOK
<1>4. /\ last_u' \in {"none", "control", "idle"}
      /\ thr2acc' \in Models
      /\ recv_new_msg' \in BOOLEAN
  BY DEF EndCycle, Publish, TypeOK, Models
<1>5. /\ odom' \in Odom /\ odom_age' \in 0 .. OdomTimeout
      /\ cmd_age' \in 0 .. CmdTimeout
      /\ mode' \in FcuMode \cup {"none"} /\ armed' \in BOOLEAN
      /\ on_ground' \in BOOLEAN
      /\ airborne' \in BOOLEAN
  BY DEF EndCycle, odomVars, stateVars, TypeOK
<1> QED BY <1>1, <1>2, <1>3, <1>4, <1>5

(* A mode request leaves the FCU in one of its modes, and what            *)
(* EnterOffboard notes is not OFFBOARD.                                   *)
LEMMA RequestType ==
  ASSUME TypeOK
  PROVE  /\ EnterOffboard => /\ fcu_mode' \in FcuMode
                             /\ before_mode' \in Modes \cup {"none"}
                             /\ mode # "none" => before_mode' \in Modes
         /\ LeaveOffboard => fcu_mode' \in FcuMode /\ before_mode' \in Modes \cup {"none"}
         /\ Reboot => fcu_mode' \in FcuMode /\ fcu_armed' \in BOOLEAN
         /\ TakeoffRequests => /\ fcu_mode' \in FcuMode /\ fcu_armed' \in BOOLEAN
                               /\ before_mode' \in Modes \cup {"none"}
                               /\ offboard_requested' \in BOOLEAN
                               /\ arm_requested' \in BOOLEAN
BY ModesAssumption
   DEF TypeOK, EnterOffboard, LeaveOffboard, Reboot, TakeoffRequests, RequestMode,
       ModeToRestore, FcuMode, fcuVars, OffboardDue, ArmDue

-----------------------------------------------------------------------------
(* Type correctness.                                                      *)

(* The variables that the tail of process() assigns or leaves alone.      *)
CycleTypes ==
  /\ RcTypeOK
  /\ state \in State_t /\ last_state \in State_t
  /\ landed \in BOOLEAN
  /\ c12 \in -1 .. TimeKeep + 1
  /\ last_u \in {"none", "control", "idle"}
  /\ thr2acc \in {"default", "estimated"}
  /\ odom \in Odom /\ odom_age \in 0 .. OdomTimeout /\ recv_new_msg \in BOOLEAN
  /\ cmd_age \in 0 .. CmdTimeout
  /\ takeoff_land_cmd \in {"none", "TAKEOFF", "LAND"}
  /\ mode \in FcuMode \cup {"none"} /\ armed \in BOOLEAN
  /\ on_ground \in BOOLEAN
  /\ airborne \in BOOLEAN

(* The variables that the branch itself assigns or leaves alone.          *)
BranchTypes ==
  /\ phase \in {"wait_rc", "wait_fcu", "run", "wait_sticks"}
  /\ held_pose \in {"odom", "moved"}
  /\ offboard_requested \in BOOLEAN /\ arm_requested \in BOOLEAN
  /\ elapsed \in 0 .. Landing
  /\ delay_trigger \in -1 .. TriggerDelay + 1
  /\ last_trial \in 0 .. DisarmPeriod + 1
  /\ before_mode \in Modes \cup {"none"}
  /\ fcu_mode \in FcuMode /\ fcu_armed \in BOOLEAN

LEMMA TypeSplit == TypeOK <=> CycleTypes /\ BranchTypes
BY DEF TypeOK, CycleTypes, BranchTypes

LEMMA ConstantTypes ==
  /\ RcTimeout \in Nat /\ OdomTimeout \in Nat /\ CmdTimeout \in Nat
  /\ OffboardDelay \in Nat /\ MotorsSpeedup \in Nat /\ ClimbTime \in Nat
  /\ Landing \in Nat /\ TriggerDelay \in Nat /\ TimeKeep \in Nat
  /\ DisarmPeriod \in Nat
BY TimeAssumption, RcAssumption DEF Landing

(* The values that initial states and resets give to the timers.          *)
LEMMA TimerValues ==
  /\ 0 \in 0 .. Landing /\ 0 \in 0 .. DisarmPeriod + 1
  /\ DisarmPeriod + 1 \in 0 .. DisarmPeriod + 1
  /\ 0 \in -1 .. TriggerDelay + 1 /\ Off \in -1 .. TriggerDelay + 1
  /\ Off \in -1 .. TimeKeep + 1
  /\ RcTimeout \in 0 .. RcTimeout /\ OdomTimeout \in 0 .. OdomTimeout
  /\ CmdTimeout \in 0 .. CmdTimeout
BY ConstantTypes

LEMMA TypeInit == Init => TypeOK
<1> SUFFICES ASSUME Init PROVE TypeOK
  OBVIOUS
<1>1. RcTypeOK
  <2>1. RC_Data_t \in Rc BY DEF RC_Data_t, Rc, Level
  <2> QED BY <2>1, TimerValues DEF Init, RcInit, RcTypeOK
<1>2. odom \in Odom BY DEF Init, Odom
<1>3. CycleTypes
  BY <1>1, <1>2, TimerValues DEF Init, CycleTypes, State_t
<1>4. BranchTypes
  <2>1. phase \in {"wait_rc", "wait_fcu", "run", "wait_sticks"} BY DEF Init
  <2>2. fcu_mode \in FcuMode BY DEF Init, FcuMode
  <2> QED BY <2>1, <2>2, TimerValues DEF Init, BranchTypes
<1> QED
  BY <1>3, <1>4, TypeSplit

(* Every branch of process() ends in EndCycle.                            *)
LEMMA ProcessCycle ==
  ASSUME process, TypeOK
  PROVE  CycleTypes'
<1>1. thr2acc \in Models /\ "default" \in Models
  BY DEF TypeOK, Models
<1>2. {"MANUAL_CTRL", "AUTO_HOVER", "CMD_CTRL", "AUTO_TAKEOFF", "AUTO_LAND"} = State_t
  BY DEF State_t
<1>3. CASE WaitForSticks
  BY <1>3 DEF WaitForSticks, TypeOK, CycleTypes, innerVars, flightVars, rcVars, inputVars,
     outVars, odomVars, stateVars, RcTypeOK
<1>4. CASE \E s \in State_t, d \in {"odom", "hover", "cmd", "speed_up", "takeoff", "land"},
              idle \in BOOLEAN, model \in Models : EndCycle(s, d, idle, model)
  BY <1>4, EndCycleType DEF CycleTypes, Models
<1>5. process => WaitForSticks \/
          \E s \in State_t, d \in {"odom", "hover", "cmd", "speed_up", "takeoff", "land"},
             idle \in BOOLEAN, model \in Models : EndCycle(s, d, idle, model)
  <2>1. EnterHover => EndCycle("AUTO_HOVER", "odom", FALSE, "default")
    BY DEF EnterHover
  <2>2. EnterTakeoff => EndCycle("AUTO_TAKEOFF", "odom", FALSE, "default")
    BY DEF EnterTakeoff
  <2>3. SticksReady => EndCycle("MANUAL_CTRL", "odom", FALSE, thr2acc)
    BY DEF SticksReady
  <2>4. Reject => EndCycle("MANUAL_CTRL", "odom", FALSE, thr2acc)
    BY DEF Reject
  <2>5. StayManual => EndCycle("MANUAL_CTRL", "odom", FALSE, thr2acc)
    BY DEF StayManual
  <2>6. ToManual => EndCycle("MANUAL_CTRL", "odom", FALSE, thr2acc)
    BY DEF ToManual
  <2>7. HoverToCmd => EndCycle("CMD_CTRL", "cmd", FALSE, thr2acc)
    BY DEF HoverToCmd
  <2>8. HoverUncontrolled => EndCycle("AUTO_HOVER", "odom", FALSE, thr2acc)
    BY DEF HoverUncontrolled
  <2>9. HoverToLand => EndCycle("AUTO_LAND", "odom", FALSE, thr2acc)
    BY DEF HoverToLand
  <2>10. Hover => EndCycle("AUTO_HOVER", "hover", FALSE, thr2acc)
    BY DEF Hover
  <2>11. CmdToHover => EndCycle("AUTO_HOVER", "hover", FALSE, thr2acc)
    BY DEF CmdToHover
  <2>12. Cmd => EndCycle("CMD_CTRL", "cmd", FALSE, thr2acc)
    BY DEF Cmd
  <2>13. SpeedUp => EndCycle("AUTO_TAKEOFF", "speed_up", FALSE, thr2acc)
    BY DEF SpeedUp
  <2>14. Climb => EndCycle("AUTO_TAKEOFF", "takeoff", FALSE, thr2acc)
    BY DEF Climb
  <2>15. TakeoffToHover => EndCycle("AUTO_HOVER", "hover", FALSE, thr2acc)
    BY DEF TakeoffToHover
  <2>16. LandToHover => EndCycle("AUTO_HOVER", "hover", FALSE, thr2acc)
    BY DEF LandToHover
  <2>17. Descend => EndCycle("AUTO_LAND", "land", FALSE, thr2acc)
    BY DEF Descend
  <2>18. Idle => EndCycle("AUTO_LAND", "odom", TRUE, thr2acc)
    BY DEF Idle
  <2>19. DisarmAccepted => EndCycle("MANUAL_CTRL", "odom", TRUE, thr2acc)
    BY DEF DisarmAccepted
  <2>20. DisarmRefused => EndCycle("AUTO_LAND", "odom", TRUE, thr2acc)
    BY DEF DisarmRefused
  <2> QED BY <1>1, <1>2, <2>1, <2>2, <2>3, <2>4, <2>5, <2>6, <2>7, <2>8, <2>9, <2>10, <2>11, <2>12, <2>13, <2>14, <2>15, <2>16, <2>17, <2>18, <2>19, <2>20 DEF process
<1> QED BY <1>3, <1>4, <1>5

LEMMA ProcessBranch ==
  ASSUME process, TypeOK
  PROVE  BranchTypes'
<1> USE TimerValues, ModesAssumption
    DEF TypeOK, BranchTypes, heldVars, takeoffVars, fcuVars
<1>1. CASE EnterHover BY <1>1, RequestType DEF EnterHover
<1>2. CASE EnterTakeoff BY <1>2, RequestType DEF EnterTakeoff
<1>3. CASE WaitForSticks BY <1>3 DEF WaitForSticks, innerVars, flightVars
<1>4. CASE SticksReady BY <1>4 DEF SticksReady
<1>5. CASE Reject BY <1>5 DEF Reject
<1>6. CASE StayManual BY <1>6, RequestType DEF StayManual
<1>7. CASE ToManual BY <1>7, RequestType DEF ToManual
<1>8. CASE HoverToCmd BY <1>8 DEF HoverToCmd
<1>9. CASE HoverUncontrolled BY <1>9 DEF HoverUncontrolled
<1>10. CASE HoverToLand BY <1>10 DEF HoverToLand
<1>11. CASE Hover BY <1>11 DEF Hover, set_hov_with_rc
<1>12. CASE CmdToHover BY <1>12 DEF CmdToHover
<1>13. CASE Cmd BY <1>13 DEF Cmd
<1>14. CASE SpeedUp BY <1>14, RequestType DEF SpeedUp
<1>15. CASE Climb BY <1>15, RequestType DEF Climb
<1>16. CASE TakeoffToHover BY <1>16, RequestType DEF TakeoffToHover
<1>17. CASE LandToHover BY <1>17 DEF LandToHover
<1>18. CASE Descend BY <1>18 DEF Descend
<1>19. CASE Idle BY <1>19 DEF Idle
<1>20. CASE DisarmAccepted BY <1>20, RequestType DEF DisarmAccepted
<1>21. CASE DisarmRefused BY <1>21 DEF DisarmRefused
<1> QED BY <1>1, <1>2, <1>3, <1>4, <1>5, <1>6, <1>7, <1>8, <1>9, <1>10, <1>11, <1>12, <1>13, <1>14, <1>15, <1>16, <1>17, <1>18, <1>19, <1>20, <1>21 DEF process


LEMMA CallbackType ==
  ASSUME Callback, TypeOK
  PROVE  TypeOK'
<1> USE DEF TypeOK, fsmVars, innerVars, flightVars, takeoffVars,
        outVars, inputVars, odomVars, stateVars, rcVars, fcuVars
<1>1. ASSUME NEW m \in RcMsgs, FeedRc(m) PROVE TypeOK'
  <2>1. RcTypeOK' BY <1>1, RcFeedType DEF FeedRc
  <2> QED BY <1>1, <2>1 DEF FeedRc
<1>2. ASSUME NEW o \in Samples, FeedOdom(o) PROVE TypeOK'
  <2>1. o \in Odom /\ 0 \in 0 .. OdomTimeout
    BY ConstantTypes DEF Samples
  <2> QED BY <1>2, <2>1 DEF FeedOdom, RcTypeOK
<1>3. CASE FeedCmd
  <2>1. 0 \in 0 .. CmdTimeout BY ConstantTypes
  <2> QED BY <1>3, <2>1 DEF FeedCmd, RcTypeOK
<1>4. ASSUME NEW c \in {"TAKEOFF", "LAND"}, FeedTakeoffLand(c) PROVE TypeOK'
  BY <1>4 DEF FeedTakeoffLand, RcTypeOK
<1>5. CASE FeedState BY <1>5 DEF FeedState, RcTypeOK
<1>6. CASE FeedExtendedState BY <1>6 DEF FeedExtendedState, RcTypeOK
<1> QED BY <1>1, <1>2, <1>3, <1>4, <1>5, <1>6 DEF Callback

(* The timers that run with the clock.                                    *)
TickTypes == /\ rc_age \in 0 .. RcTimeout /\ odom_age \in 0 .. OdomTimeout
             /\ cmd_age \in 0 .. CmdTimeout /\ elapsed \in 0 .. Landing
             /\ last_trial \in 0 .. DisarmPeriod + 1
             /\ delay_trigger \in -1 .. TriggerDelay + 1
             /\ c12 \in -1 .. TimeKeep + 1

LEMMA TickType ==
  ASSUME Tick, TypeOK
  PROVE  TickTypes'
<1>1. TickTypes BY DEF TypeOK, RcTypeOK, TickTypes
<1>2. /\ rc_age' = Older(rc_age, RcTimeout)
      /\ odom_age' = Older(odom_age, OdomTimeout)
      /\ cmd_age' = Older(cmd_age, CmdTimeout)
      /\ elapsed' \in {elapsed, Older(elapsed, Landing)}
      /\ delay_trigger' = Older(delay_trigger, TriggerDelay + 1)
      /\ c12' = Older(c12, TimeKeep + 1)
      /\ last_trial' = Older(last_trial, DisarmPeriod + 1)
  BY DEF Tick, RcTick
<1> QED BY <1>1, <1>2, ConstantTypes DEF TickTypes, Older

LEMMA EnvironmentType ==
  ASSUME Environment, TypeOK
  PROVE  TypeOK'
<1> USE DEF TypeOK, envUnchanged, innerVars, flightVars, takeoffVars,
        outVars, inputVars, odomVars, stateVars, rcVars, fcuVars, RcTypeOK
<1>1. CASE Tick
  <2>1. TickTypes' BY <1>1, TickType
  <2> QED BY <1>1, <2>1 DEF Tick, TickTypes
<1>2. CASE FcuChangesMode BY <1>2 DEF FcuChangesMode, FcuMode
<1>3. CASE PilotArms BY <1>3 DEF PilotArms
<1>4. CASE FcuDisarms
  <2>1. fcu_armed' \in BOOLEAN /\ UNCHANGED <<fcu_mode, airborne>> /\ envUnchanged
    BY <1>4, Zenon DEF FcuDisarms
  <2> QED BY <2>1
<1>5. CASE LiftOff BY <1>5 DEF LiftOff
<1>6. CASE TouchDown
  <2>1. airborne' \in BOOLEAN /\ UNCHANGED <<fcu_mode, fcu_armed>> /\ envUnchanged
    BY <1>6, Zenon DEF TouchDown
  <2> QED BY <2>1
<1> QED BY <1>1, <1>2, <1>3, <1>4, <1>5, <1>6 DEF Environment

LEMMA TypeNext == TypeOK /\ [Next]_vars => TypeOK'
<1> SUFFICES ASSUME TypeOK, [Next]_vars PROVE TypeOK'
  OBVIOUS
<1>1. CASE process
  BY <1>1, ProcessCycle, ProcessBranch DEF TypeOK, CycleTypes, BranchTypes
<1>2. CASE RcSeen \/ Connected \/ UNCHANGED vars
  BY <1>2 DEF RcSeen, Connected, vars, TypeOK, innerVars, flightVars, takeoffVars, outVars,
     inputVars, odomVars, stateVars, rcVars, fcuVars, RcTypeOK
<1> QED BY <1>1, <1>2, CallbackType, EnvironmentType DEF Next

(* Every variable has its type: in particular the mode to restore is never*)
(* OFFBOARD, and no timer leaves its range.                               *)
THEOREM TypeCorrect == Spec => []TypeOK
BY TypeInit, TypeNext, PTL DEF Spec

-----------------------------------------------------------------------------
(* The safety invariant.                                                  *)

(* A reference taken from odometry stops the contact timer, and does not  *)
(* declare a landing.                                                     *)
LEMMA NoContact ==
  ASSUME TypeOK, NEW s \in State_t, s # "MANUAL_CTRL",
         land_detector(s, "odom")
  PROVE  c12' = Off /\ (~landed \/ Engages(s) => ~landed')
<1>1. C12_satisfy("odom") \subseteq {FALSE}
  BY DEF C12_satisfy, BelowVehicle
<1>2. CASE landed /\ ~Engages(s)
  BY <1>2, Zenon DEF land_detector
<1>3. CASE ~(landed /\ ~Engages(s))
  <2>1. PICK b \in C12_satisfy("odom") : c12' = Timer(b) /\ landed' = (b /\ c12 > TimeKeep)
    BY <1>3 DEF land_detector
  <2>2. b = FALSE BY <1>1, <2>1
  <2> QED BY <2>1, <2>2 DEF Timer
<1> QED BY <1>2, <1>3

(* The contact timer is kept, stopped, or started afresh, and a vehicle in *)
(* flight lands only when it has run for TIME_KEEP_C.                     *)
LEMMA ContactTimer ==
  ASSUME NEW s, NEW des, land_detector(s, des)
  PROVE  /\ c12' \in {c12, 0, Off}
         /\ s # "MANUAL_CTRL" /\ landed' => landed \/ c12 > TimeKeep
<1>1. CASE s = "MANUAL_CTRL" /\ ~armed
  BY <1>1 DEF land_detector
<1>2. CASE ~(s = "MANUAL_CTRL" /\ ~armed) /\ landed /\ ~Engages(s)
  BY <1>2, Zenon DEF land_detector
<1>3. CASE ~(s = "MANUAL_CTRL" /\ ~armed) /\ ~(landed /\ ~Engages(s))
  BY <1>3 DEF land_detector, Timer
<1> QED BY <1>1, <1>2, <1>3

(* Clearing the edges of an RC that never spoke changes nothing.          *)
LEMMA ClearDefault ==
  ASSUME rc = RC_Data_t, RcClear
  PROVE  rc' = RC_Data_t
BY DEF RcClear, RC_Data_t

(* What the tail of process() says of the variables of FlightInv.         *)
LEMMA EndCycleEffect ==
  ASSUME NEW s, NEW des, NEW idle, NEW model, EndCycle(s, des, idle, model)
  PROVE  /\ state' = s /\ last_state' = s /\ mode' = mode
         /\ land_detector(s, des)
         /\ RcClear
         /\ s \notin {"AUTO_HOVER", "CMD_CTRL"} => thr2acc' = model
<1>1. state' = s /\ last_state' = s /\ mode' = mode /\ land_detector(s, des) /\ RcClear
  BY Zenon DEF EndCycle, land_detector, stateVars
<1>2. ASSUME s \notin {"AUTO_HOVER", "CMD_CTRL"} PROVE thr2acc' = model
  <2>1. ~Learns(s) BY <1>2 DEF Learns
  <2> QED BY <2>1 DEF EndCycle, Publish
<1> QED BY <1>1, <1>2

LEMMA InitInv == Init => FlightInv
BY DEF Init, RcInit, FlightInv, BeforeModeKnown, FreshDetector,
   DefaultThrustInTakeoff, ArmAfterOffboard, ContactOfThisLanding

(* After a cycle that ends in AUTO_HOVER or CMD_CTRL or MANUAL_CTRL only  *)
(* the mode to restore and the order of the one-shot flags matter.        *)
LEMMA CycleInv ==
  ASSUME TypeOK, FlightInv, phase' = "run",
         NEW s \in State_t, NEW des, NEW idle, NEW model,
         EndCycle(s, des, idle, model),
         mode # "none", arm_requested' => offboard_requested',
         s \in {"AUTO_HOVER", "CMD_CTRL", "AUTO_LAND"} => before_mode' \in Modes,
         s = "AUTO_TAKEOFF" => /\ \/ des = "odom" /\ Engages(s)
                                  \/ state = "AUTO_TAKEOFF" /\ elapsed' = elapsed
                               /\ model = "default"
                               /\ offboard_requested' => before_mode' \in Modes,
         s = "AUTO_LAND" => \/ des = "odom"
                            \/ state = "AUTO_LAND" /\ elapsed' = elapsed
  PROVE  FlightInv'
<1>1. /\ state' = s /\ last_state' = s /\ mode' = mode
      /\ land_detector(s, des) /\ RcClear
      /\ s = "AUTO_TAKEOFF" => thr2acc' = model
  BY EndCycleEffect
<1>2. NoRC => rc' = RC_Data_t
  BY <1>1, ClearDefault DEF FlightInv
<1>3. FreshDetector' /\ DefaultThrustInTakeoff'
  <2>1. DefaultThrustInTakeoff'
    BY <1>1 DEF DefaultThrustInTakeoff
  <2>2. CASE s # "AUTO_TAKEOFF" BY <1>1, <2>1, <2>2 DEF FreshDetector
  <2>3. CASE s = "AUTO_TAKEOFF" /\ des = "odom" /\ Engages(s)
    BY <1>1, <2>1, <2>3, NoContact DEF FreshDetector
  <2>4. CASE s = "AUTO_TAKEOFF" /\ state = "AUTO_TAKEOFF" /\ elapsed' = elapsed
    <3>1. /\ c12' \in {c12, 0, Off}
          /\ landed' => landed \/ c12 > TimeKeep
      BY <1>1, <2>4, ContactTimer
    <3>2. /\ c12 # Off => c12 <= elapsed \/ elapsed = Landing
          /\ landed => elapsed > TimeKeep \/ elapsed = Landing
      BY <2>4 DEF FlightInv, FreshDetector
    <3>3. elapsed \in Nat /\ c12 \in -1 .. TimeKeep + 1 /\ TimeKeep \in Nat
      BY ConstantTypes DEF TypeOK
    <3>4. landed' => elapsed > TimeKeep \/ elapsed = Landing
      BY <3>1, <3>2, <3>3 DEF Off
    <3>5. c12' # Off => c12' <= elapsed \/ elapsed = Landing
      BY <3>1, <3>2, <3>3
    <3> QED BY <2>1, <2>4, <3>4, <3>5 DEF FreshDetector
  <2> QED BY <2>2, <2>3, <2>4
<1>4. ContactOfThisLanding'
  <2>1. CASE s # "AUTO_LAND" BY <1>1, <2>1 DEF ContactOfThisLanding
  <2>2. CASE s = "AUTO_LAND" /\ des = "odom"
    BY <1>1, <2>2, NoContact DEF ContactOfThisLanding
  <2>3. CASE s = "AUTO_LAND" /\ state = "AUTO_LAND" /\ elapsed' = elapsed
    <3>1. c12' \in {c12, 0, Off} BY <1>1, ContactTimer
    <3>2. elapsed \in Nat BY ConstantTypes DEF TypeOK
    <3> QED BY <3>1, <3>2, <2>3 DEF ContactOfThisLanding, FlightInv
  <2> QED BY <2>1, <2>2, <2>3
<1> QED
  BY <1>1, <1>2, <1>3, <1>4 DEF FlightInv, BeforeModeKnown, ArmAfterOffboard

(* The requests of a take-off: OFFBOARD before arming, and the mode to    *)
(* restore known once OFFBOARD has been requested, which is at the latest *)
(* when the climb may end.                                                *)
LEMMA TakeoffFlags ==
  ASSUME TypeOK, FlightInv, TakeoffRequests, state = "AUTO_TAKEOFF"
  PROVE  /\ arm_requested' => offboard_requested'
         /\ offboard_requested' => before_mode' \in Modes
         /\ TakeoffDone => offboard_requested'
<1>1. mode # "none" /\ (offboard_requested => before_mode \in Modes)
      /\ (arm_requested => offboard_requested)
  BY DEF FlightInv, ArmAfterOffboard, State_t
<1>2. elapsed \in Nat BY ConstantTypes DEF TypeOK
<1>3. OffboardDue => before_mode' \in Modes
  BY <1>1, RequestType DEF TakeoffRequests
<1>4. ~OffboardDue => before_mode' = before_mode
  BY DEF TakeoffRequests
<1>5. offboard_requested' = (offboard_requested \/ OffboardDue)
  BY DEF TakeoffRequests
<1>6. arm_requested' = (arm_requested \/ ArmDue)
  BY DEF TakeoffRequests
<1>7. ArmDue => offboard_requested \/ OffboardDue
  BY DEF ArmDue
<1>8. elapsed > MotorsSpeedup + ClimbTime => offboard_requested \/ OffboardDue
  BY <1>2, TimeAssumption DEF OffboardDue
<1> QED
  BY <1>1, <1>3, <1>4, <1>5, <1>6, <1>7, <1>8 DEF TakeoffDone

(* One step per branch of process().                                      *)
LEMMA ProcessInv ==
  ASSUME process, TypeOK, FlightInv
  PROVE  FlightInv'
<1> USE DEF State_t, Run, heldVars, takeoffVars, ArmAfterOffboard
<1>0. /\ phase \in {"run", "wait_sticks"} => mode # "none"
      /\ arm_requested => offboard_requested
      /\ state \in {"AUTO_HOVER", "CMD_CTRL", "AUTO_LAND"} => before_mode \in Modes
      /\ state = "AUTO_TAKEOFF" /\ offboard_requested => before_mode \in Modes
      /\ state = "AUTO_TAKEOFF" => thr2acc = "default"
      /\ last_state = state
  BY DEF FlightInv, BeforeModeKnown, DefaultThrustInTakeoff
<1>1. CASE EnterHover
  <2>1. EndCycle("AUTO_HOVER", "odom", FALSE, "default") BY <1>1 DEF EnterHover
  <2> QED BY <1>0, <1>1, <2>1, CycleInv, RequestType DEF EnterHover
<1>2. CASE EnterTakeoff
  <2>1. EndCycle("AUTO_TAKEOFF", "odom", FALSE, "default") BY <1>2 DEF EnterTakeoff
  <2> QED BY <1>0, <1>2, <2>1, CycleInv DEF EnterTakeoff, Engages
<1>3. CASE SticksReady
  <2>1. EndCycle("MANUAL_CTRL", "odom", FALSE, thr2acc) BY <1>3 DEF SticksReady
  <2> QED BY <1>0, <1>3, <2>1, CycleInv DEF SticksReady
<1>4. CASE Reject
  <2>1. EndCycle("MANUAL_CTRL", "odom", FALSE, thr2acc) BY <1>4 DEF Reject
  <2> QED BY <1>0, <1>4, <2>1, CycleInv DEF Reject
<1>5. CASE StayManual
  <2>1. EndCycle("MANUAL_CTRL", "odom", FALSE, thr2acc) BY <1>5 DEF StayManual
  <2> QED BY <1>0, <1>5, <2>1, CycleInv DEF StayManual
<1>6. CASE ToManual
  <2>1. EndCycle("MANUAL_CTRL", "odom", FALSE, thr2acc) BY <1>6 DEF ToManual
  <2> QED BY <1>0, <1>6, <2>1, CycleInv DEF ToManual
<1>7. CASE HoverToCmd
  <2>1. EndCycle("CMD_CTRL", "cmd", FALSE, thr2acc) BY <1>7 DEF HoverToCmd
  <2> QED BY <1>0, <1>7, <2>1, CycleInv DEF HoverToCmd
<1>8. CASE HoverUncontrolled
  <2>1. EndCycle("AUTO_HOVER", "odom", FALSE, thr2acc) BY <1>8 DEF HoverUncontrolled
  <2> QED BY <1>0, <1>8, <2>1, CycleInv DEF HoverUncontrolled
<1>9. CASE HoverToLand
  <2>1. EndCycle("AUTO_LAND", "odom", FALSE, thr2acc) BY <1>9 DEF HoverToLand
  <2> QED BY <1>0, <1>9, <2>1, CycleInv DEF HoverToLand
<1>10. CASE Hover
  <2>1. EndCycle("AUTO_HOVER", "hover", FALSE, thr2acc) BY <1>10 DEF Hover
  <2> QED BY <1>0, <1>10, <2>1, CycleInv DEF Hover
<1>11. CASE CmdToHover
  <2>1. EndCycle("AUTO_HOVER", "hover", FALSE, thr2acc) BY <1>11 DEF CmdToHover
  <2> QED BY <1>0, <1>11, <2>1, CycleInv DEF CmdToHover
<1>12. CASE Cmd
  <2>1. EndCycle("CMD_CTRL", "cmd", FALSE, thr2acc) BY <1>12 DEF Cmd
  <2> QED BY <1>0, <1>12, <2>1, CycleInv DEF Cmd
<1>13. CASE SpeedUp
  <2>1. EndCycle("AUTO_TAKEOFF", "speed_up", FALSE, thr2acc) BY <1>13 DEF SpeedUp
  <2> QED BY <1>0, <1>13, <2>1, CycleInv, TakeoffFlags DEF SpeedUp
<1>14. CASE Climb
  <2>1. EndCycle("AUTO_TAKEOFF", "takeoff", FALSE, thr2acc) BY <1>14 DEF Climb
  <2> QED BY <1>0, <1>14, <2>1, CycleInv, TakeoffFlags DEF Climb
<1>15. CASE TakeoffToHover
  <2>1. EndCycle("AUTO_HOVER", "hover", FALSE, thr2acc) BY <1>15 DEF TakeoffToHover
  <2> QED BY <1>0, <1>15, <2>1, CycleInv, TakeoffFlags DEF TakeoffToHover
<1>16. CASE LandToHover
  <2>1. EndCycle("AUTO_HOVER", "hover", FALSE, thr2acc) BY <1>16 DEF LandToHover
  <2> QED BY <1>0, <1>16, <2>1, CycleInv DEF LandToHover
<1>17. CASE Descend
  <2>1. EndCycle("AUTO_LAND", "land", FALSE, thr2acc) BY <1>17 DEF Descend
  <2> QED BY <1>0, <1>17, <2>1, CycleInv DEF Descend, KeepLanding
<1>18. CASE Idle
  <2>1. EndCycle("AUTO_LAND", "odom", TRUE, thr2acc) BY <1>18 DEF Idle
  <2> QED BY <1>0, <1>18, <2>1, CycleInv DEF Idle, KeepLanding
<1>19. CASE DisarmAccepted
  <2>1. EndCycle("MANUAL_CTRL", "odom", TRUE, thr2acc) BY <1>19 DEF DisarmAccepted
  <2> QED BY <1>0, <1>19, <2>1, CycleInv DEF DisarmAccepted, KeepLanding
<1>20. CASE DisarmRefused
  <2>1. EndCycle("AUTO_LAND", "odom", TRUE, thr2acc) BY <1>20 DEF DisarmRefused
  <2> QED BY <1>0, <1>20, <2>1, CycleInv DEF DisarmRefused, KeepLanding
<1>21. CASE WaitForSticks
  BY <1>0, <1>21 DEF WaitForSticks, FlightInv, BeforeModeKnown, FreshDetector,
     DefaultThrustInTakeoff, ContactOfThisLanding, innerVars, flightVars, outVars, inputVars,
     stateVars, rcVars
<1> QED BY <1>1, <1>2, <1>3, <1>4, <1>5, <1>6, <1>7, <1>8, <1>9, <1>10, <1>11, <1>12, <1>13, <1>14, <1>15, <1>16, <1>17, <1>18, <1>19, <1>20, <1>21 DEF process

LEMMA CallbackInv ==
  ASSUME Callback, TypeOK, FlightInv
  PROVE  FlightInv'
<1> USE DEF FlightInv, BeforeModeKnown, FreshDetector, DefaultThrustInTakeoff,
        ArmAfterOffboard, ContactOfThisLanding, fsmVars, innerVars, flightVars, takeoffVars,
        outVars, inputVars, odomVars, stateVars, rcVars
<1>1. ASSUME NEW m \in RcMsgs, FeedRc(m) PROVE FlightInv'
  BY <1>1 DEF FeedRc
<1>2. ASSUME NEW o \in Samples, FeedOdom(o) PROVE FlightInv'
  BY <1>2 DEF FeedOdom
<1>3. CASE FeedCmd BY <1>3 DEF FeedCmd
<1>4. ASSUME NEW c \in {"TAKEOFF", "LAND"}, FeedTakeoffLand(c) PROVE FlightInv'
  BY <1>4 DEF FeedTakeoffLand
<1>5. CASE FeedState
  <2>1. mode' # "none" BY <1>5, ModesAssumption DEF FeedState, TypeOK, FcuMode
  <2> QED BY <1>5, <2>1 DEF FeedState
<1>6. CASE FeedExtendedState BY <1>6 DEF FeedExtendedState
<1> QED BY <1>1, <1>2, <1>3, <1>4, <1>5, <1>6 DEF Callback

(* With the clock, the contact timer of a landing and the landing age     *)
(* together.                                                              *)
LEMMA TickInv ==
  ASSUME Tick, TypeOK, FlightInv
  PROVE  FlightInv'
<1>1. ASSUME state \in {"AUTO_TAKEOFF", "AUTO_LAND"}
      PROVE  /\ elapsed' = Older(elapsed, Landing) /\ c12' = Older(c12, TimeKeep + 1)
             /\ elapsed \in 0 .. Landing /\ c12 \in -1 .. TimeKeep + 1
  BY <1>1 DEF Tick, TypeOK
<1>3. ASSUME state \in {"AUTO_TAKEOFF", "AUTO_LAND"},
             c12 # Off => c12 <= elapsed \/ elapsed = Landing
      PROVE  c12' # Off => c12' <= elapsed' \/ elapsed' = Landing
  BY <1>1, <1>3, ConstantTypes DEF Older
<1>4. ContactOfThisLanding'
  BY <1>3 DEF Tick, FlightInv, ContactOfThisLanding
<1>5. FreshDetector'
  <2> SUFFICES ASSUME state = "AUTO_TAKEOFF" PROVE FreshDetector'
    BY DEF Tick, FreshDetector
  <2>1. landed => elapsed > TimeKeep \/ elapsed = Landing
    BY DEF FlightInv, FreshDetector
  <2>2. landed' => elapsed' > TimeKeep \/ elapsed' = Landing
    BY <1>1, <2>1, ConstantTypes DEF Tick, Older
  <2>3. c12' # Off => c12' <= elapsed' \/ elapsed' = Landing
    BY <1>3 DEF FlightInv, FreshDetector
  <2> QED BY <2>2, <2>3 DEF FreshDetector
<1> QED
  BY <1>4, <1>5 DEF Tick, FlightInv, BeforeModeKnown,
     DefaultThrustInTakeoff, ArmAfterOffboard, outVars, stateVars

LEMMA InvNext == TypeOK /\ FlightInv /\ [Next]_vars => FlightInv'
<1> SUFFICES ASSUME TypeOK, FlightInv, [Next]_vars PROVE FlightInv'
  OBVIOUS
<1>1. CASE process BY <1>1, ProcessInv
<1>2. CASE Callback BY <1>2, CallbackInv
<1>3. CASE Tick BY <1>3, TickInv
<1>4. CASE FcuChangesMode \/ PilotArms \/ FcuDisarms \/ LiftOff \/ TouchDown
  BY <1>4 DEF FcuChangesMode, PilotArms, FcuDisarms, LiftOff, TouchDown, envUnchanged,
     FlightInv, BeforeModeKnown, FreshDetector, DefaultThrustInTakeoff,
     ArmAfterOffboard, ContactOfThisLanding, innerVars, flightVars, takeoffVars, outVars,
     inputVars, odomVars, stateVars, rcVars
<1>5. CASE RcSeen \/ Connected \/ UNCHANGED vars
  BY <1>5 DEF RcSeen, Connected, vars, FlightInv, BeforeModeKnown, FreshDetector,
     DefaultThrustInTakeoff, ArmAfterOffboard, ContactOfThisLanding, innerVars, flightVars,
     takeoffVars, outVars, inputVars, odomVars, stateVars, rcVars
<1> QED BY <1>1, <1>2, <1>3, <1>4, <1>5 DEF Next, Environment

(* FlightInv holds: it is inductive together with the types.              *)
THEOREM FlightSafety == Spec => []FlightInv
<1>1. Init => TypeOK /\ FlightInv BY TypeInit, InitInv
<1>2. (TypeOK /\ FlightInv) /\ [Next]_vars => (TypeOK /\ FlightInv)'
  BY TypeNext, InvNext
<1> QED BY <1>1, <1>2, PTL DEF Spec

(* The mode to restore is known whenever the software holds the vehicle.  *)
THEOREM BeforeModeIsKnown == Spec => []BeforeModeKnown
<1>1. FlightInv => BeforeModeKnown BY DEF FlightInv
<1> QED BY <1>1, FlightSafety, PTL

(* A take-off starts with a land detector without a past.                 *)
THEOREM DetectorIsFresh == Spec => []FreshDetector
<1>1. FlightInv => FreshDetector BY DEF FlightInv
<1> QED BY <1>1, FlightSafety, PTL

(* A take-off flies on the default thrust model.                          *)
THEOREM ThrustIsDefault == Spec => []DefaultThrustInTakeoff
<1>1. FlightInv => DefaultThrustInTakeoff BY DEF FlightInv
<1> QED BY <1>1, FlightSafety, PTL

(* Arming is never requested before OFFBOARD.                             *)
THEOREM ArmingIsOrdered == Spec => []ArmAfterOffboard
<1>1. FlightInv => ArmAfterOffboard BY DEF FlightInv
<1> QED BY <1>1, FlightSafety, PTL

(* A landing is declared on contact of this landing.                      *)
THEOREM ContactIsOfThisLanding == Spec => []ContactOfThisLanding
<1>1. FlightInv => ContactOfThisLanding BY DEF FlightInv
<1> QED BY <1>1, FlightSafety, PTL

-----------------------------------------------------------------------------
(* Without RC, the vehicle is given up on lost odometry or after landing. *)

LEMMA HandBackStep ==
  ASSUME FlightInv, Next, NoRC, state # "MANUAL_CTRL", state' = "MANUAL_CTRL"
  PROVE  ~odom_is_received \/ (state = "AUTO_LAND" /\ landed /\ ~fcu_armed')
<1>1. rc.is_hover_mode BY DEF FlightInv, RC_Data_t
<1>2. CASE ToManual BY <1>1, <1>2 DEF ToManual, Keep
<1>3. CASE DisarmAccepted BY <1>3 DEF DisarmAccepted, KeepLanding, Run
<1>4. CASE EnterHover \/ EnterTakeoff \/ WaitForSticks \/ Reject \/ StayManual
  BY <1>4 DEF EnterHover, EnterTakeoff, WaitForSticks, Reject, StayManual, Run
<1>5. CASE SticksReady BY <1>5 DEF SticksReady, FlightInv
<1>6. ASSUME NEW s \in State_t \ {"MANUAL_CTRL"}, NEW des, NEW idle, NEW model,
             EndCycle(s, des, idle, model)
      PROVE  FALSE
  BY <1>6 DEF EndCycle
<1>7. ~(HoverToCmd \/ HoverUncontrolled \/ HoverToLand \/ Hover \/ CmdToHover \/ Cmd)
  BY <1>6 DEF HoverToCmd, HoverUncontrolled, HoverToLand, Hover, CmdToHover, Cmd, State_t
<1>8. ~(SpeedUp \/ Climb \/ TakeoffToHover \/ LandToHover \/ Descend \/ Idle
        \/ DisarmRefused)
  BY <1>6 DEF SpeedUp, Climb, TakeoffToHover, LandToHover, Descend, Idle,
     DisarmRefused, State_t
<1>9. CASE Callback \/ RcSeen \/ Connected \/ Environment
  BY <1>9 DEF Callback, FeedRc, FeedOdom, FeedCmd, FeedTakeoffLand, FeedState,
     FeedExtendedState, RcSeen, Connected, Environment, Tick, FcuChangesMode,
     PilotArms, FcuDisarms, LiftOff, TouchDown, envUnchanged, fsmVars, innerVars, flightVars
<1> QED
  BY <1>2, <1>3, <1>4, <1>5, <1>7, <1>8, <1>9 DEF Next, process

(* Flying without RC, px4ctrl goes back to MANUAL_CTRL for no other reason*)
(* than lost odometry or a landing that ended disarmed.                   *)
THEOREM RcFreeHandsBack == Spec => RcFreeHandBack
<1>1. FlightInv /\ [Next]_vars
        => [NoRC /\ state # "MANUAL_CTRL" /\ state' = "MANUAL_CTRL"
              => ~odom_is_received \/ (state = "AUTO_LAND" /\ landed /\ ~fcu_armed')]_vars
  BY HandBackStep
<1> QED BY <1>1, FlightSafety, PTL DEF Spec, RcFreeHandBack

-----------------------------------------------------------------------------
(* The edges of the switches.                                             *)

(* process() clears an edge, or waits for the sticks and leaves it alone. *)
LEMMA ProcessClears ==
  ASSUME process, TypeOK
  PROVE  rc' = rc \/ ~rc'.enter_command_mode
<1>1. ASSUME NEW s, NEW d, NEW idle, NEW model, EndCycle(s, d, idle, model)
      PROVE  rc' = rc \/ ~rc'.enter_command_mode
  <2>1. RcClear BY <1>1 DEF EndCycle
  <2>2. rc \in Rc BY DEF TypeOK, RcTypeOK
  <2> QED BY <2>1, <2>2 DEF RcClear, Rc
<1>2. CASE WaitForSticks BY <1>2 DEF WaitForSticks, inputVars, rcVars
<1> QED
  BY <1>1, <1>2 DEF process, EnterHover, EnterTakeoff, SticksReady, Reject, StayManual,
     ToManual, HoverToCmd, HoverUncontrolled, HoverToLand, Hover, CmdToHover, Cmd, SpeedUp,
     Climb, TakeoffToHover, LandToHover, Descend, Idle, DisarmAccepted, DisarmRefused

(* What a message makes of an edge that is pending.                       *)
LEMMA FeedKeepsEdge ==
  ASSUME NEW m \in RcMsgs, RcFeed(m), CommandEdgeCurrent, ~CommandEdgeCurrent'
  PROVE  rc'.is_hover_mode /\ rc'.last_gear = At
<1>1. m.gear \in Level BY RcAssumption DEF RcMsg
<1>2. /\ rc'.is_command_mode = CommandOf(m)
      /\ rc'.enter_command_mode = EnterCommandOf(m)
      /\ rc'.is_hover_mode = HoverOf(m) /\ rc'.last_gear = m.gear
  BY DEF RcFeed
<1>3. EnterCommandOf(m) /\ ~CommandOf(m)
  BY <1>2 DEF CommandEdgeCurrent
<1>4. HoverOf(m) BY <1>3 DEF EnterCommandOf, CommandOf, CommandEdgeCurrent
<1>5. m.gear # High BY <1>3, <1>4 DEF CommandOf
<1>6. m.gear # Low
  BY <1>3, <1>4, <1>5 DEF EnterCommandOf, Rising, Low, High
<1> QED BY <1>1, <1>2, <1>4, <1>5, <1>6 DEF Level

(* A pending edge of the gear switch stays one into command mode, unless a*)
(* message has the gear switch exactly at its threshold.                  *)
THEOREM CommandEdgesAreKept == Spec => CommandEdgeKept
<1>1. ASSUME TypeOK, [Next]_vars
      PROVE  [CommandEdgeCurrent /\ ~CommandEdgeCurrent'
                => rc'.is_hover_mode /\ rc'.last_gear = At]_vars
  <2> SUFFICES ASSUME CommandEdgeCurrent, ~CommandEdgeCurrent', rc' # rc
               PROVE  rc'.is_hover_mode /\ rc'.last_gear = At
    BY DEF CommandEdgeCurrent, vars, rcVars
  <2>1. ~process BY <1>1, ProcessClears DEF CommandEdgeCurrent
  <2>2. \E m \in RcMsgs : RcFeed(m)
    BY <1>1, <2>1 DEF Next, Callback, FeedRc, FeedOdom, FeedCmd, FeedTakeoffLand, FeedState,
       FeedExtendedState, RcSeen, Connected, Environment, Tick, FcuChangesMode, PilotArms,
       FcuDisarms, LiftOff, TouchDown, envUnchanged, vars, rcVars, inputVars, odomVars, stateVars
  <2> QED BY <2>2, FeedKeepsEdge
<1> QED BY <1>1, TypeCorrect, PTL DEF Spec, CommandEdgeKept

-----------------------------------------------------------------------------
(* The state machine implements FlightModes.                              *)

(* Unless px4ctrl takes over, the land detector does not withdraw landed. *)
LEMMA LandedStep ==
  ASSUME TypeOK, NEW s, NEW des, land_detector(s, des), ~Engages(s)
  PROVE  landed' \in {landed, TRUE}
<1>1. CASE (s = "MANUAL_CTRL" /\ ~armed) \/ landed
  BY <1>1, Zenon DEF land_detector
<1>2. CASE ~(s = "MANUAL_CTRL" /\ ~armed) /\ ~landed
  <2>1. PICK b \in BOOLEAN : landed' = (b /\ c12 > TimeKeep)
    BY <1>2 DEF land_detector, C12_satisfy
  <2>2. (b /\ c12 > TimeKeep) \in BOOLEAN OBVIOUS
  <2>3. landed' \in BOOLEAN BY <2>1, <2>2
  <2>4. landed = FALSE BY <1>2, Zenon DEF TypeOK
  <2> QED BY <2>3, <2>4
<1> QED BY <1>1, <1>2

(* A step that keeps the flight mode and the mode to restore.             *)
LEMMA SettleStep ==
  ASSUME TypeOK, UNCHANGED <<state, before_mode>>, landed' \in {landed, TRUE}
  PROVE  [FM!Next]_FM!modeVars
BY DEF FM!Next, FM!Settle, FM!modeVars

LEMMA ManualSteps ==
  ASSUME TypeOK, FlightInv, EnterHover \/ EnterTakeoff \/ SticksReady \/ Reject \/ StayManual
  PROVE  [FM!Next]_FM!modeVars
<1>1. CASE EnterHover
  <2>1. state = "MANUAL_CTRL" /\ Engages("AUTO_HOVER") /\ mode # "none"
    BY <1>1 DEF EnterHover, Run, FlightInv, Engages
  <2>2. state' = "AUTO_HOVER" /\ land_detector("AUTO_HOVER", "odom")
    BY <1>1, EndCycleEffect DEF EnterHover
  <2>3. landed' = FALSE BY <2>1, <2>2, NoContact DEF State_t
  <2>4. before_mode' \in Modes BY <1>1, <2>1, RequestType DEF EnterHover
  <2> QED BY <2>1, <2>2, <2>3, <2>4 DEF FM!Next, FM!TakeOver
<1>2. CASE EnterTakeoff
  <2>1. /\ state = "MANUAL_CTRL" /\ Engages("AUTO_TAKEOFF")
        /\ landed /\ before_mode' = before_mode
    BY <1>2 DEF EnterTakeoff, TakeoffAccepted, Run, FlightInv, Engages
  <2>2. state' = "AUTO_TAKEOFF" /\ land_detector("AUTO_TAKEOFF", "odom")
    BY <1>2, EndCycleEffect DEF EnterTakeoff
  <2>3. landed' = FALSE BY <2>1, <2>2, NoContact DEF State_t
  <2> QED BY <2>1, <2>2, <2>3 DEF FM!Next, FM!TakeOff
<1>3. CASE SticksReady \/ Reject \/ StayManual
  <2>1. state = "MANUAL_CTRL" /\ before_mode' = before_mode
    BY <1>3 DEF SticksReady, Reject, StayManual, Run, FlightInv
  <2>2. state' = "MANUAL_CTRL" /\ land_detector("MANUAL_CTRL", "odom")
    BY <1>3, EndCycleEffect DEF SticksReady, Reject, StayManual
  <2>3. landed' \in {landed, TRUE} BY <2>2, LandedStep DEF Engages
  <2> QED BY <2>1, <2>2, <2>3, SettleStep
<1> QED BY <1>1, <1>2, <1>3

LEMMA HoverSteps ==
  ASSUME TypeOK, FlightInv,
         HoverToCmd \/ HoverUncontrolled \/ HoverToLand \/ Hover \/ CmdToHover \/ Cmd
  PROVE  [FM!Next]_FM!modeVars
<1>1. before_mode' = before_mode /\ state \in {"AUTO_HOVER", "CMD_CTRL"}
  BY DEF HoverToCmd, HoverUncontrolled, HoverToLand, Hover, CmdToHover, Cmd, Run
<1>2. \A s : ~Engages(s) BY <1>1 DEF Engages, FlightInv
<1>3. CASE HoverToCmd
  <2>1. state' = "CMD_CTRL" /\ land_detector("CMD_CTRL", "cmd")
    BY <1>3, EndCycleEffect DEF HoverToCmd
  <2>2. landed' \in {landed, TRUE} BY <1>2, <2>1, LandedStep
  <2> QED BY <1>1, <1>3, <2>1, <2>2 DEF HoverToCmd, Run, FM!Next, FM!Follow, FM!Move
<1>4. CASE HoverToLand
  <2>1. state' = "AUTO_LAND" /\ land_detector("AUTO_LAND", "odom")
    BY <1>4, EndCycleEffect DEF HoverToLand
  <2>2. landed' \in {landed, TRUE} BY <1>2, <2>1, LandedStep
  <2> QED BY <1>1, <1>4, <2>1, <2>2 DEF HoverToLand, Run, FM!Next, FM!Land, FM!Move
<1>5. CASE CmdToHover
  <2>1. state' = "AUTO_HOVER" /\ land_detector("AUTO_HOVER", "hover")
    BY <1>5, EndCycleEffect DEF CmdToHover
  <2>2. landed' \in {landed, TRUE} BY <1>2, <2>1, LandedStep
  <2> QED BY <1>1, <1>5, <2>1, <2>2 DEF CmdToHover, Run, FM!Next, FM!Resume, FM!Move
<1>6. CASE HoverUncontrolled \/ Hover \/ Cmd
  <2>1. state' = state /\ \E d : land_detector(state, d)
    BY <1>6, EndCycleEffect DEF HoverUncontrolled, Hover, Cmd, Run
  <2>2. landed' \in {landed, TRUE} BY <1>2, <2>1, LandedStep
  <2> QED BY <1>1, <2>1, <2>2, SettleStep
<1> QED BY <1>3, <1>4, <1>5, <1>6

LEMMA TakeoffSteps ==
  ASSUME TypeOK, FlightInv, SpeedUp \/ Climb \/ TakeoffToHover
  PROVE  [FM!Next]_FM!modeVars
<1>1. state = "AUTO_TAKEOFF" /\ TakeoffRequests
  BY DEF SpeedUp, Climb, TakeoffToHover, Run, FlightInv
<1>2. \A s : ~Engages(s) BY <1>1 DEF Engages, FlightInv
<1>3. before_mode' = before_mode \/ before_mode' \in Modes
  BY <1>1, RequestType DEF TakeoffRequests, FlightInv
<1>4. CASE SpeedUp \/ Climb
  <2>1. state' = "AUTO_TAKEOFF" /\ \E d : land_detector("AUTO_TAKEOFF", d)
    BY <1>4, EndCycleEffect DEF SpeedUp, Climb
  <2>2. landed' \in {landed, TRUE} BY <1>2, <2>1, LandedStep
  <2>3. CASE before_mode' = before_mode BY <1>1, <2>1, <2>2, <2>3, SettleStep
  <2>4. CASE before_mode' \in Modes
    BY <1>1, <2>1, <2>2, <2>4 DEF FM!Next, FM!Prepare
  <2> QED BY <1>3, <2>3, <2>4
<1>5. CASE TakeoffToHover
  <2>1. state' = "AUTO_HOVER" /\ land_detector("AUTO_HOVER", "hover")
    BY <1>5, EndCycleEffect DEF TakeoffToHover
  <2>2. TakeoffDone BY <1>5 DEF TakeoffToHover
  <2>3. landed' \in {landed, TRUE} BY <1>2, <2>1, LandedStep
  <2>4. before_mode' \in Modes BY <1>1, <2>2, TakeoffFlags
  <2> QED BY <1>1, <2>1, <2>3, <2>4 DEF FM!Next, FM!Arrive
<1> QED BY <1>4, <1>5

LEMMA LandSteps ==
  ASSUME TypeOK, FlightInv,
         ToManual \/ LandToHover \/ Descend \/ Idle \/ DisarmAccepted \/ DisarmRefused
  PROVE  [FM!Next]_FM!modeVars
<1>1. before_mode' = before_mode /\ state \in {"AUTO_HOVER", "CMD_CTRL", "AUTO_LAND"}
  BY DEF ToManual, LandToHover, Descend, Idle, DisarmAccepted, DisarmRefused,
     LeaveOffboard, Run, KeepLanding
<1>2. before_mode \in Modes BY <1>1 DEF FlightInv, BeforeModeKnown
<1>3. \A s : ~Engages(s) BY <1>1 DEF Engages, FlightInv
<1>4. CASE ToManual \/ DisarmAccepted
  <2>1. state' = "MANUAL_CTRL" /\ land_detector("MANUAL_CTRL", "odom")
    BY <1>4, EndCycleEffect DEF ToManual, DisarmAccepted
  <2>2. landed' \in {landed, TRUE} BY <1>3, <2>1, LandedStep
  <2> QED BY <1>1, <1>2, <2>1, <2>2 DEF FM!Next, FM!HandBack, FM!Move, FM!Engaged
<1>5. CASE LandToHover
  <2>1. state' = "AUTO_HOVER" /\ land_detector("AUTO_HOVER", "hover")
    BY <1>5, EndCycleEffect DEF LandToHover
  <2>2. landed' \in {landed, TRUE} BY <1>3, <2>1, LandedStep
  <2> QED BY <1>1, <1>5, <2>1, <2>2 DEF LandToHover, Run, FM!Next, FM!CallOff, FM!Move
<1>6. CASE Descend \/ Idle \/ DisarmRefused
  <2>1. state = "AUTO_LAND"
    BY <1>6 DEF Descend, Idle, DisarmRefused, KeepLanding, Run
  <2>2. state' = "AUTO_LAND" /\ \E d : land_detector("AUTO_LAND", d)
    BY <1>6, EndCycleEffect DEF Descend, Idle, DisarmRefused
  <2>3. landed' \in {landed, TRUE} BY <1>3, <2>2, LandedStep
  <2> QED BY <1>1, <2>1, <2>2, <2>3, SettleStep
<1> QED BY <1>4, <1>5, <1>6

LEMMA SilentSteps ==
  ASSUME Callback \/ WaitForSticks \/ RcSeen \/ Connected \/ Environment \/ UNCHANGED vars
  PROVE  UNCHANGED FM!modeVars
BY DEF Callback, FeedRc, FeedOdom, FeedCmd, FeedTakeoffLand, FeedState,
   FeedExtendedState, WaitForSticks, RcSeen, Connected, Environment, Tick,
   FcuChangesMode, PilotArms, FcuDisarms, LiftOff, TouchDown, envUnchanged,
   fsmVars, innerVars, flightVars, vars, FM!modeVars

(* Every behaviour of the state machine is one of FlightModes: the edges, *)
(* the belief on being landed and the mode to give back.                  *)
THEOREM ImplementsFlightModes == Spec => FlightModesSpec
<1>1. Init => FM!Init BY DEF Init, FM!Init
<1>2. TypeOK /\ FlightInv /\ [Next]_vars => [FM!Next]_FM!modeVars
  BY ManualSteps, HoverSteps, TakeoffSteps, LandSteps, SilentSteps DEF Next, process
<1> QED BY <1>1, <1>2, TypeCorrect, FlightSafety, PTL DEF Spec, FlightModesSpec, FM!Spec
=============================================================================
