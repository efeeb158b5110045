------------------------------ MODULE RcInput ------------------------------
(***************************************************************************)
(* RC_Data_t of px4ctrl (input.h, input.cpp): what the node remembers of   *)
(* the remote controller.  A switch channel is kept as its position        *)
(* relative to the threshold it is compared with: the code uses only       *)
(* strict comparisons, so a channel that sits exactly At the threshold     *)
(* (1750 us for the mode and gear switches) is neither low nor high.  The  *)
(* sticks are kept as "centered" bits: roll is ch[0], the only channel     *)
(* check_centered reads, others stands for ch[1] to ch[3].                 *)
(***************************************************************************)
EXTENDS Integers

CONSTANTS RcTimeout,   \* msg_timeout/rc, in ticks
          RcMsgs       \* the RC messages the transmitter can send

Low  == 0
At   == 1
High == 2
Level == {Low, At, High}

RcMsg == [mode : Level, gear : Level, reboot : Level,
          roll : BOOLEAN, others : BOOLEAN]

ASSUME RcAssumption == /\ RcTimeout \in Nat \ {0}
                       /\ RcMsgs \subseteq RcMsg

VARIABLES rc,      \* the RC_Data_t object
          rc_age   \* ticks since rcv_stamp, saturating at RcTimeout

rcVars == <<rc, rc_age>>

Rc == [have_init : BOOLEAN,
       last_mode : Level, last_gear : Level, last_reboot : Level,
       roll : BOOLEAN, others : BOOLEAN,
       is_hover_mode : BOOLEAN, enter_hover_mode : BOOLEAN,
       is_command_mode : BOOLEAN, enter_command_mode : BOOLEAN,
       toggle_reboot : BOOLEAN]

RcTypeOK == /\ rc \in Rc
            /\ rc_age \in 0 .. RcTimeout

(* A time stamp is modelled by its age; a comparison (now - stamp) < T    *)
(* with T at most max only needs ages up to max.                          *)
Older(age, max) == IF 0 <= age /\ age < max THEN age + 1 ELSE age

(* The constructor: both modes are on, which is what a flight without RC  *)
(* relies on, and no message has been received.                           *)
RC_Data_t == [have_init |-> FALSE,
              last_mode |-> Low, last_gear |-> Low, last_reboot |-> Low,
              roll |-> TRUE, others |-> TRUE,
              is_hover_mode |-> TRUE, enter_hover_mode |-> FALSE,
              is_command_mode |-> TRUE, enter_command_mode |-> FALSE,
              toggle_reboot |-> FALSE]

RcInit == /\ rc = RC_Data_t
          /\ rc_age = RcTimeout

Rising(old, new) == old = Low /\ new = High

(* RC_Data_t::feed.  The first message is its own predecessor; the gear   *)
(* switch is only read in hover mode, and the reboot switch only when both*)
(* modes are off.                                                         *)
Before(last, new) == IF rc.have_init THEN last ELSE new

HoverOf(m) == m.mode = High

EnterHoverOf(m) == Rising(Before(rc.last_mode, m.mode), m.mode)

CommandOf(m) == IF HoverOf(m) THEN m.gear = High ELSE rc.is_command_mode

(* Mutant: the pending gear edge is never withdrawn.                       *)
EnterCommandSticky(m) ==
  \/ HoverOf(m) /\ Rising(Before(rc.last_gear, m.gear), m.gear)
  \/ rc.enter_command_mode

EnterCommandOf(m) ==
  \/ HoverOf(m) /\ Rising(Before(rc.last_gear, m.gear), m.gear)
  \/ rc.enter_command_mode /\ (HoverOf(m) => m.gear # Low)

RebootOf(m) == /\ ~HoverOf(m) /\ ~CommandOf(m)
               /\ Rising(Before(rc.last_reboot, m.reboot), m.reboot)

RcFeed(m) ==
  /\ rc' = [have_init |-> TRUE,
            last_mode |-> m.mode, last_gear |-> m.gear, last_reboot |-> m.reboot,
            roll |-> m.roll, others |-> m.others,
            is_hover_mode |-> HoverOf(m), enter_hover_mode |-> EnterHoverOf(m),
            is_command_mode |-> CommandOf(m),
            enter_command_mode |-> EnterCommandOf(m),
            toggle_reboot |-> RebootOf(m)]
  /\ rc_age' = 0

(* PX4CtrlFSM::rc_is_received and RC_Data_t::check_centered.              *)
rc_is_received == rc_age < RcTimeout

check_centered == rc.roll

(* What the take-off guard wants of a connected RC.                       *)
SwitchesReady == rc.is_hover_mode /\ rc.is_command_mode /\ check_centered

(* Every exit of PX4CtrlFSM::process clears the edges of this cycle.      *)
RcClear == rc' = [rc EXCEPT !.enter_hover_mode = FALSE,
                            !.enter_command_mode = FALSE,
                            !.toggle_reboot = FALSE]

RcTick == rc_age' = Older(rc_age, RcTimeout)

=============================================================================
