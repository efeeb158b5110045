---------------------------- MODULE MCPX4CtrlFSM ----------------------------
(***************************************************************************)
(* Instances of PX4CtrlFSM for TLC.  The no-RC instance runs the whole     *)
(* specification; with an RC the state space is cut by leaving out         *)
(* callbacks and environment steps that the question of the run does not   *)
(* need (each ...Next lists what is kept).                                 *)
(***************************************************************************)
EXTENDS PX4CtrlFSM

-----------------------------------------------------------------------------
(* RC messages: the mode, gear and reboot switches and the sticks.        *)

Msg(m, g, r) == [mode |-> m, gear |-> g, reboot |-> r, roll |-> TRUE, others |-> TRUE]

NoMsgs == {}

SwitchMsgs == {Msg(Low, Low, Low), Msg(High, Low, Low), Msg(High, High, Low)}

RebootMsgs == SwitchMsgs \cup {Msg(Low, Low, High),
                               [Msg(High, High, Low) EXCEPT !.roll = FALSE]}

StickMsgs == {Msg(Low, Low, Low), [Msg(High, High, Low) EXCEPT !.others = FALSE]}

-----------------------------------------------------------------------------
(* With an RC, taking off: no commands, no LAND request.                  *)
TakeoffNext ==
  \/ \E m \in RcMsgs : FeedRc(m)
  \/ \E o \in {s \in Samples : s.v # "wild"} : FeedOdom(o)
  \/ FeedTakeoffLand("TAKEOFF")
  \/ FeedState
  \/ process \/ RcSeen \/ Connected
  \/ Tick \/ FcuChangesMode \/ LiftOff \/ TouchDown

(* Without RC, taking off and landing: no commands, the FCU changes mode  *)
(* and arms only on request.  The loop of main() keeps running process(), *)
(* time passes, the extended state keeps arriving, and an FCU asked again *)
(* and again to disarm on the ground does so in the end.                  *)
LandingNext ==
  \/ \E o \in {s \in Samples : s.v # "wild" /\ (s.at_height => s.v = "still")} :
       FeedOdom(o)
  \/ \E c \in {"TAKEOFF", "LAND"} : FeedTakeoffLand(c)
  \/ FeedState
  \/ FeedExtendedState
  \/ process \/ Connected
  \/ Tick \/ LiftOff \/ TouchDown

LandingSpec == /\ Init /\ [][LandingNext]_vars
               /\ WF_vars(process) /\ WF_vars(Tick) /\ WF_vars(FeedExtendedState)
               /\ SF_vars(DisarmAccepted)

-----------------------------------------------------------------------------
(* Liveness.                                                              *)

Resting == ~airborne /\ ~odom.airborne /\ odom.v = "still"

(* A landing comes to an end once the vehicle stands still: the reference *)
(* gets below it, the contact timer runs out, the idling motors let the   *)
(* FCU report ON_GROUND, and a refused disarm request is repeated.        *)
LandCompletes == <>[]Resting => (state = "AUTO_LAND" ~> state # "AUTO_LAND")

(* A take-off comes to an end once the vehicle stays at the take-off      *)
(* height, however late process() looks at the clock.                     *)
TakeoffCompletes ==
  <>[](odom.at_height) => (state = "AUTO_TAKEOFF" ~> state # "AUTO_TAKEOFF")

-----------------------------------------------------------------------------
(* What a comment of the code says, and the code does not do.             *)

(* The land detector knows that a vehicle is not on the ground: a landing *)
(* asked for in the air does not start as landed (PX4CtrlFSM.h, "Detect   *)
(* landing").                                                             *)
LandingFromAirNotLanded ==
  [][state = "AUTO_HOVER" /\ state' = "AUTO_LAND" /\ odom.airborne => ~landed']_vars

(* A take-off with a connected RC starts with all the sticks at the center *)
(* (the message that rejects it otherwise, PX4CtrlFSM.cpp:111).            *)
SticksCenteredAtTakeoff ==
  [][state = "MANUAL_CTRL" /\ state' = "AUTO_TAKEOFF" /\ rc_is_received
       => rc.roll /\ rc.others]_vars
=============================================================================
