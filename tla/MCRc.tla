-------------------------------- MODULE MCRc --------------------------------
(***************************************************************************)
(* PX4CtrlFSM with an RC.  To keep the states few there are two pilots:    *)
(* one flies by hover, commands and landing, without the TAKEOFF request,  *)
(* a mode change at the FCU or odometry of a flight, and one takes off,    *)
(* without commands, the LAND request or a drift that the land detector    *)
(* would see.  The first one keeps the reboot switch at its threshold,     *)
(* where it does nothing, and is known by that.                            *)
(***************************************************************************)
EXTENDS MCPX4CtrlFSM

ModesMsgs == {[m EXCEPT !.reboot = At] : m \in SwitchMsgs \cup {Msg(High, At, Low)}}

FliesModes == rc.have_init /\ rc.last_reboot = At
TakesOff == rc.have_init /\ rc.last_reboot # At

RcNext ==
  \/ \E m \in ModesMsgs : ~TakesOff /\ FeedRc(m)
  \/ \E m \in RcMsgs : ~FliesModes /\ FeedRc(m)
  \/ \E o \in {s \in Samples : s.v = "still" /\ ~s.at_height /\ ~s.airborne} : FeedOdom(o)
  \/ \E o \in {s \in Samples : s.v = "still"} : TakesOff /\ FeedOdom(o)
  \/ FliesModes /\ (FeedCmd \/ FeedTakeoffLand("LAND") \/ FeedExtendedState \/ PilotArms)
  \/ TakesOff /\ (FeedTakeoffLand("TAKEOFF") \/ FcuChangesMode)
  \/ FeedState
  \/ process \/ RcSeen \/ Connected
  \/ Tick \/ LiftOff \/ TouchDown

RcSpec == Init /\ [][RcNext]_vars

(* For the claim about the sticks: the second pilot alone.                 *)
TakeoffSpec == Init /\ [][TakeoffNext]_vars
=============================================================================
