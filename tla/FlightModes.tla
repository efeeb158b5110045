---------------------------- MODULE FlightModes ----------------------------
(***************************************************************************)
(* What px4ctrl's state machine promises, without its inputs: who flies    *)
(* the vehicle, when the software believes it is on the ground, and which  *)
(* FCU mode the pilot gets back.  The belief is withdrawn when the         *)
(* software takes over, and never later in the flight; a take-off starts   *)
(* only from a belief in the ground; the software never holds the vehicle  *)
(* without knowing the mode to give back; and a landing goes on until the  *)
(* vehicle is handed back or the landing is called off.                    *)
(*                                                                         *)
(* The edges are those of the diagram at the head of PX4CtrlFSM.cpp, and   *)
(* one the code has besides: AUTO_LAND back to AUTO_HOVER (CallOff).       *)
(***************************************************************************)
CONSTANT PilotModes     \* the FCU modes a pilot flies in

VARIABLES state,      \* the flight mode
          landed,     \* the belief that the vehicle is on the ground
          give_back   \* the FCU mode to restore, "none" when none is known

modeVars == <<state, landed, give_back>>

Engaged == {"AUTO_HOVER", "CMD_CTRL", "AUTO_LAND"}

Init == state = "MANUAL_CTRL" /\ landed = TRUE /\ give_back = "none"

TakeOver == /\ state = "MANUAL_CTRL" /\ state' = "AUTO_HOVER"
            /\ landed' = FALSE
            /\ give_back' \in PilotModes

TakeOff == /\ state = "MANUAL_CTRL" /\ landed
           /\ state' = "AUTO_TAKEOFF" /\ landed' = FALSE
           /\ UNCHANGED give_back

(* During the take-off the mode to give back is noted, at the latest when *)
(* the take-off ends.                                                     *)
Prepare == /\ state = "AUTO_TAKEOFF" /\ give_back' \in PilotModes
           /\ landed' \in {landed, TRUE}
           /\ UNCHANGED state

Arrive == /\ state = "AUTO_TAKEOFF" /\ state' = "AUTO_HOVER"
          /\ landed' \in {landed, TRUE}
          /\ give_back' \in PilotModes

Move(from, to) == /\ state \in from /\ state' = to
                  /\ landed' \in {landed, TRUE}
                  /\ UNCHANGED give_back

Follow   == Move({"AUTO_HOVER"}, "CMD_CTRL")
Resume   == Move({"CMD_CTRL"}, "AUTO_HOVER")
Land     == Move({"AUTO_HOVER"}, "AUTO_LAND")
CallOff  == Move({"AUTO_LAND"}, "AUTO_HOVER")
HandBack == give_back \in PilotModes /\ Move(Engaged, "MANUAL_CTRL")

Settle == /\ landed' = TRUE
          /\ UNCHANGED <<state, give_back>>

Next == TakeOver \/ TakeOff \/ Prepare \/ Arrive \/ Follow \/ Resume \/ Land
        \/ CallOff \/ HandBack \/ Settle

Spec == Init /\ [][Next]_modeVars
=============================================================================
