----------------------------- MODULE LidarConfig -----------------------------
(***************************************************************************)
(* From the first detection of a lidar to the state in which the driver    *)
(* publishes its data: the SDK detects it, asks for its firmware type,     *)
(* tells it where to send (general_command_handler.cpp,                    *)
(* mid360_command_handler.cpp), and calls livox_ros_driver2, which sends   *)
(* the settings of the user's file and waits for the answers               *)
(* (livox_lidar_callback.cpp).  The lidars are in the SDK's configuration; *)
(* the SDK is not in view mode and is the master.                          *)
(***************************************************************************)
EXTENDS LidarCommands

CONSTANTS Lidars,     \* the handles
          Settings,   \* pcl_data_type, pattern_mode, blind_spot_set, dual_emit_en
          TryLimit    \* 10 in QueryFwTypeCallback

ASSUME TryLimitAssumption == TryLimit \in Nat
ASSUME SettingsAssumption ==
    /\ IsFiniteSet(Settings)
    /\ Settings \cap {"FwType", "Cfg", "Attitude", "WorkMode", "Imu"} = {}

VARIABLES
    firmware,          \* [Lidars -> {"app", "loader"}]: what the lidar runs
    config,            \* [Lidars -> SUBSET Settings]: those that are not -1
    listed,            \* the lidars of the driver's own configuration
    followed,          \* which of the other three requests is followed, see Others
    devices,           \* [Lidars -> ...]: DeviceInfo of the SDK's devices_
    count,             \* static count of QueryFwTypeCallback, shared by the lidars
    set_bits,          \* [Lidars -> SUBSET Settings]
    connect_state,     \* [Lidars -> {"Off", "Sampling"}]
    asleep,            \* [thread -> SUBSET Lidars]: in the sleep_for of
                       \* WorkModeChangedCallback, for which lidar
    received,          \* [Lidars -> SUBSET Settings]: what the lidar has read
    calls              \* [Lidars -> 0 .. 2]: calls of LidarInfoChangeCallback

driver == <<set_bits, connect_state, asleep, received, calls>>
chosen == <<firmware, config, listed, followed>>
vars == <<layer, chosen, devices, count, driver>>

(* Beside the settings the driver sends three more requests.  None of them *)
(* changes any state when it is answered and each has its own rule when it *)
(* is not: a behaviour follows one of them.                                *)
Others == {"Attitude", "WorkMode", "Imu"}
Kinds == {"FwType", "Cfg"} \cup Settings \cup Others
Requests == [lidar : Lidars, kind : Kinds]
Ask(l, k) == [lidar |-> l, kind |-> k]
QueryFwType(l) == Ask(l, "FwType")

Devices == [found : BOOLEAN,
            fw : {"unknown", "app", "loader"},   \* is_get_loader_mode, is_loader_mode
            is_update_cfg : BOOLEAN,
            is_callback : BOOLEAN]
NoDevice == [found |-> FALSE, fw |-> "unknown", is_update_cfg |-> FALSE, is_callback |-> FALSE]

Init ==
    /\ InitLayer
    /\ firmware \in [Lidars -> {"app", "loader"}]
    /\ config \in [Lidars -> SUBSET Settings]
    /\ listed = {l \in Lidars : config[l] # {}} \/ listed = Lidars
    /\ followed \in Others
    /\ devices = [l \in Lidars |-> NoDevice]
    /\ count = 0
    /\ set_bits = [l \in Lidars |-> {}]
    /\ connect_state = [l \in Lidars |-> "Off"]
    /\ asleep = [t \in Threads |-> {}]
    /\ received = [l \in Lidars |-> {}]
    /\ calls = [l \in Lidars |-> 0]

Awake(t) == asleep[t] = {}
Ready(t) == Awake(t) /\ Clear(t)
DetectionIsFree == OtherIsFree /\ Ready("other")

(* A setting that could not be sent: Set...Callback reads the answer there *)
(* is none of, and the program ends (livox_lidar_callback.cpp:152).        *)
Crashed == \E u \in unsent : u.cmd.of.kind \in Settings
-----------------------------------------------------------------------------
(* LivoxLidarInfoChange and the driver's callback.  The settings wanted of *)
(* a listed lidar are marked in set_bits before the first of them can be   *)
(* answered: config_mutex_ is held.                                        *)
Wanted(l) == IF l \in listed THEN config[l] ELSE {}

Script(l) ==
    LET other == IF followed = "Attitude" /\ l \notin listed THEN {} ELSE {Ask(l, followed)}
    IN  SetToSeq({Ask(l, s) : s \in Wanted(l)}) \o SetToSeq(other)

(* Mutant: every answer to the configuration calls the driver.             *)
InfoChangeAlways(l) ==
    /\ devices' = [devices EXCEPT ![l].is_update_cfg = TRUE, ![l].is_callback = TRUE]
    /\ set_bits' = [set_bits EXCEPT ![l] = @ \cup Wanted(l)]
    /\ calls' = [calls EXCEPT ![l] = IF @ < 2 THEN @ + 1 ELSE @]
    /\ UNCHANGED <<connect_state, asleep, received>>

InfoChange(l) ==
    /\ devices' = [devices EXCEPT ![l].is_update_cfg = TRUE, ![l].is_callback = TRUE]
    /\ IF devices[l].is_callback
       THEN UNCHANGED <<set_bits, calls>>
       ELSE /\ set_bits' = [set_bits EXCEPT ![l] = @ \cup Wanted(l)]
            /\ calls' = [calls EXCEPT ![l] = IF @ < 2 THEN @ + 1 ELSE @]
    /\ UNCHANGED <<connect_state, asleep, received>>

Called(l) == IF devices[l].is_callback THEN <<>> ELSE Script(l)
-----------------------------------------------------------------------------
(* A detection reply of lidar l, on the detection thread; the broadcast    *)
(* goes out every second.  The first one asks for the firmware type.       *)
DetectNew(l) ==
    /\ DetectionIsFree
    /\ ~devices[l].found
    /\ devices' = [devices EXCEPT ![l] = [NoDevice EXCEPT !.found = TRUE]]
    /\ todo' = <<QueryFwType(l)>>
    /\ UNCHANGED <<commands, adding, air, sending, chosen, count, driver>>

(* UpdateLidarCfg and SetCustomLidar of Mid360CommandHandler: nothing is   *)
(* sent any more to a lidar that has taken its configuration.              *)
Unconfigured(l) == ~devices[l].is_update_cfg
SetCustomLidar(l) == SendKnown(Ask(l, "Cfg"))

(* A later one sends the configuration as long as the lidar has not taken  *)
(* it.                                                                     *)
DetectKnown(l) ==
    /\ DetectionIsFree
    /\ devices[l].fw = "app"
    /\ Unconfigured(l)
    /\ SetCustomLidar(l)
    /\ UNCHANGED <<chosen, devices, count, driver>>

(* A lidar in loader mode is not configured: the driver is called at once. *)
DetectLoader(l) ==
    /\ DetectionIsFree
    /\ devices[l].fw = "loader"
    /\ InfoChange(l)
    /\ todo' = Called(l)
    /\ UNCHANGED <<commands, adding, air, sending, chosen, count>>
-----------------------------------------------------------------------------
(* QueryFwTypeCallback.  It gives up without looking at the answer when    *)
(* too many calls before, of any lidar, have failed.                       *)
GivesUp == count > TryLimit
Typed(l, fw) == devices' = [devices EXCEPT ![l].fw = fw]

FwTypeAnswered(d, l) ==
    /\ d.cmd.of = QueryFwType(l)
    /\ Ready("cmd")
    /\ \/ /\ d.ret = "ok" \/ GivesUp
          /\ Typed(l, IF GivesUp THEN "app" ELSE firmware[l])
          /\ count' = 0
          /\ TakeAnswer(d, {})
       \/ /\ d.ret # "ok"
          /\ ~GivesUp
          /\ count' = count + 1
          /\ TakeAnswer(d, {QueryFwType(l)})
          /\ UNCHANGED devices
    /\ UNCHANGED <<chosen, driver>>

FwTypeExpires(t, c, l) ==
    /\ c.of = QueryFwType(l)
    /\ Ready(t)
    /\ \/ /\ GivesUp
          /\ Typed(l, "app")
          /\ count' = 0
          /\ Expire(t, c, <<>>)
       \/ /\ ~GivesUp
          /\ count' = count + 1
          /\ Expire(t, c, <<QueryFwType(l)>>)
          /\ UNCHANGED devices
    /\ UNCHANGED <<chosen, driver>>

(* The query could not be sent: another one follows, beside this one.      *)
FwTypeRefused(u, l) ==
    /\ u.cmd.of = QueryFwType(l)
    /\ Awake(u.thread)
    /\ \/ /\ GivesUp
          /\ Typed(l, "app")
          /\ count' = 0
          /\ Recall(u, <<>>)
       \/ /\ ~GivesUp
          /\ count' = count + 1
          /\ Recall(u, <<QueryFwType(l)>>)
          /\ UNCHANGED devices
    /\ UNCHANGED <<chosen, driver>>

(* UpdateLidarCallback: a lidar that refuses its configuration is sent it  *)
(* again by the next detection.  When the time is up nothing is done here. *)
CfgAnswered(d, l) ==
    /\ d.cmd.of = Ask(l, "Cfg")
    /\ Ready("cmd")
    /\ \/ /\ d.ret = "ok"
          /\ InfoChange(l)
          /\ TakeAnswer(d, ToSet(Called(l)))
       \/ /\ d.ret # "ok"
          /\ TakeAnswer(d, {})
          /\ UNCHANGED <<devices, driver>>
    /\ UNCHANGED <<chosen, count>>

CfgExpires(t, c, l) ==
    /\ c.of = Ask(l, "Cfg")
    /\ Ready(t)
    /\ Expire(t, c, <<>>)
    /\ UNCHANGED <<chosen, devices, count, driver>>
-----------------------------------------------------------------------------
(* The driver's callbacks.  One that clears a bit waits for config_mutex_, *)
(* which LidarInfoChangeCallback holds until the settings are sent.        *)
ConfigLocked ==
    /\ todo # <<>>
    /\ \E l \in Lidars : todo[Len(todo)] = Ask(l, followed)
    /\ \E r \in {c.of : c \in adding} \cup {Head(todo)} : r.kind \in Settings

(* Mutant: the first answer of any setting clears them all.                *)
ClearedAll(l, s) == {}

Cleared(l, s) == set_bits[l] \ {s}

(* Set...Callback with status success; the answer's ret_code is not looked *)
(* at.                                                                     *)
SettingAnswered(d, l, s) ==
    /\ d.cmd.of = Ask(l, s)
    /\ Ready("cmd")
    /\ ~ConfigLocked
    /\ TakeAnswer(d, {})
    /\ set_bits' = [set_bits EXCEPT ![l] = Cleared(l, s)]
    /\ connect_state' = [connect_state EXCEPT ![l] = IF Cleared(l, s) = {} THEN "Sampling" ELSE @]
    /\ UNCHANGED <<chosen, devices, count, asleep, received, calls>>

(* Mutant: a setting that was not answered is not sent again.              *)
SettingExpiresOnce(t, c, l, s) ==
    /\ c.of = Ask(l, s)
    /\ Ready(t)
    /\ Expire(t, c, <<>>)
    /\ UNCHANGED <<chosen, devices, count, driver>>

SettingExpires(t, c, l, s) ==
    /\ c.of = Ask(l, s)
    /\ Ready(t)
    /\ Expire(t, c, <<Ask(l, s)>>)
    /\ UNCHANGED <<chosen, devices, count, driver>>

(* SetAttitudeCallback, EnableLivoxLidarImuDataCallback and                *)
(* WorkModeChangedCallback only report an answer.                          *)
OtherAnswered(d, l) ==
    /\ d.cmd.of = Ask(l, followed)
    /\ Ready("cmd")
    /\ TakeAnswer(d, {})
    /\ UNCHANGED <<chosen, devices, count, driver>>

AttitudeExpires(t, c, l) ==
    /\ c.of = Ask(l, "Attitude")
    /\ Ready(t)
    /\ Expire(t, c, <<Ask(l, "Attitude")>>)
    /\ UNCHANGED <<chosen, devices, count, driver>>

(* The callback returns on response == nullptr, which a timeout always     *)
(* has, before it comes to the branch that would try again.                *)
ImuExpires(t, c, l) ==
    /\ c.of = Ask(l, "Imu")
    /\ Ready(t)
    /\ Expire(t, c, <<>>)
    /\ UNCHANGED <<chosen, devices, count, driver>>

(* The work mode is sent again after a second, which the thread sleeps.    *)
WorkModeExpires(t, c, l) ==
    /\ c.of = Ask(l, "WorkMode")
    /\ Ready(t)
    /\ t = "other" => OtherIsFree
    /\ Expire(t, c, <<>>)
    /\ asleep' = [asleep EXCEPT ![t] = {l}]
    /\ UNCHANGED <<chosen, devices, count, set_bits, connect_state, received, calls>>

WorkModeRefused(u, l) ==
    /\ u.cmd.of = Ask(l, "WorkMode")
    /\ Awake(u.thread)
    /\ Recall(u, <<>>)
    /\ asleep' = [asleep EXCEPT ![u.thread] = {l}]
    /\ UNCHANGED <<chosen, devices, count, set_bits, connect_state, received, calls>>

WakeUp(t, l) ==
    /\ l \in asleep[t]
    /\ asleep' = [asleep EXCEPT ![t] = {}]
    /\ IF t = "cmd" THEN SendFromCmd({}, {Ask(l, "WorkMode")})
                    ELSE /\ todo' = <<Ask(l, "WorkMode")>>
                         /\ UNCHANGED <<commands, adding, air, sending>>
    /\ UNCHANGED <<chosen, devices, count, set_bits, connect_state, received, calls>>
-----------------------------------------------------------------------------
(* The lidar reads a request and accepts or refuses it.                    *)
LidarReads(d, ret) ==
    /\ LidarAnswers(d, ret)
    /\ received' = [received EXCEPT ![d.cmd.of.lidar] = @ \cup ({d.cmd.of.kind} \cap Settings)]
    /\ UNCHANGED <<chosen, devices, count, set_bits, connect_state, asleep, calls>>

(* A step of the command layer alone.                                      *)
LayerStep ==
    /\ \/ SendNext
       \/ SendNextFails
       \/ AddCommand
       \/ \E d \in air : IgnoreAnswer(d)
    /\ UNCHANGED <<chosen, devices, count, driver>>

Detect(l) == DetectNew(l) \/ DetectKnown(l) \/ DetectLoader(l)
Answered(d, l) ==
    \/ FwTypeAnswered(d, l)
    \/ CfgAnswered(d, l)
    \/ \E s \in Settings : SettingAnswered(d, l, s)
    \/ OtherAnswered(d, l)
Expires(t, c, l) ==
    \/ FwTypeExpires(t, c, l)
    \/ CfgExpires(t, c, l)
    \/ \E s \in Settings : SettingExpires(t, c, l, s)
    \/ AttitudeExpires(t, c, l)
    \/ ImuExpires(t, c, l)
    \/ WorkModeExpires(t, c, l)

Refused(u, l) == FwTypeRefused(u, l) \/ WorkModeRefused(u, l)

Next ==
    /\ ~Crashed
    /\ \/ \E l \in Lidars :
             \/ Detect(l)
             \/ \E d \in air : Answered(d, l)
             \/ \E t \in Threads : WakeUp(t, l) \/ \E c \in commands : Expires(t, c, l)
             \/ \E u \in unsent : Refused(u, l)
       \/ \E d \in air : LidarReads(d, "ok") \/ LidarReads(d, "refused")
       \/ LayerStep

Spec == Init /\ [][Next]_vars
-----------------------------------------------------------------------------
(* Fairness.  Datagrams are lost, but not all of a kind: a request that is *)
(* sent again and again is accepted at last, and an accepting answer that  *)
(* comes again and again is read at last.  The IO threads look for expired *)
(* commands every 100 ms, and detection replies come every second.  Two    *)
(* coincidences do not go on for ever: an answer that beats AddCommand,    *)
(* which follows sendto at once while an answer takes a round trip, and a  *)
(* lost work mode, whose callback puts the command thread to sleep.        *)
Delivered(r, rets) ==
    /\ SF_vars(~Crashed /\ \E d \in air, ret \in rets : d.cmd.of = r /\ LidarReads(d, ret))
    /\ SF_vars(~Crashed /\ \E d \in air : d.cmd.of = r /\ d.ret \in rets /\ Answered(d, r.lidar))

Fairness ==
    /\ \A l \in Lidars :
          /\ WF_vars(~Crashed /\ Detect(l))
          /\ Delivered(Ask(l, "Cfg"), {"ok"})
          /\ \A s \in Settings : Delivered(Ask(l, s), {"ok", "refused"})
          /\ \A t \in Threads : WF_vars(~Crashed /\ WakeUp(t, l))
          /\ WF_vars(~Crashed /\ \E u \in unsent : Refused(u, l))
    /\ \A r \in [lidar : Lidars, kind : Settings \cup {"FwType", "Cfg"}] :
          WF_vars(/\ ~Crashed
                  /\ \E c \in commands, t \in Threads : c.of = r /\ Expires(t, c, r.lidar))
    /\ WF_vars(~Crashed /\ (SendNext \/ AddCommand) /\ LayerStep)
    /\ <>[][\A d \in air : d.cmd.of \in Requests => ~IgnoreAnswer(d)]_vars
    /\ <>[](Awake("cmd"))

FairSpec == Spec /\ Fairness
-----------------------------------------------------------------------------
TypeOK ==
    /\ LayerTypeOK(Requests)
    /\ devices \in [Lidars -> Devices]
    /\ count \in 0 .. TryLimit + 1
    /\ set_bits \in [Lidars -> SUBSET Settings]
    /\ connect_state \in [Lidars -> {"Off", "Sampling"}]
    /\ asleep \in [Threads -> SUBSET Lidars]
    /\ received \in [Lidars -> SUBSET Settings]
    /\ calls \in [Lidars -> 0 .. 2]

Queued(r) == Cardinality({i \in DOMAIN todo : todo[i] = r})
Outstanding(r) == Cardinality({c \in Waiting : c.of = r}) + Queued(r)

(* Several configurations may be on their way to a lidar at once, each of  *)
(* them can be answered, and a loader is reported by every detection: the  *)
(* driver hears of a lidar once (LivoxLidarInfoChange, is_callback).       *)
CalledOnce == \A l \in Lidars : calls[l] <= 1

(* The driver publishes the data of a lidar only when every setting of the *)
(* user's file has been read by it (connect_state, set_bits).              *)
SamplingIsConfigured ==
    \A l \in Lidars : connect_state[l] = "Sampling" =>
        l \in listed /\ set_bits[l] = {} /\ config[l] \subseteq received[l]

(* A bit of set_bits that no request stands for would keep the lidar off   *)
(* for ever: whatever is lost, late or answered too early, every bit has a *)
(* request that is being sent or waited for (Set...Callback).              *)
BitHasRequest ==
    \A l \in Lidars : \A s \in set_bits[l] : Outstanding(Ask(l, s)) > 0

(* The chains of retries do not fork as long as no sendto fails: no        *)
(* request is outstanding twice but "Cfg", which every detection may send  *)
(* again, so that an answer is never followed by a retry of what it has    *)
(* settled.                                                                *)
RetriesDoNotFork ==
    failures = 0 => \A r \in Requests : r.kind # "Cfg" => Outstanding(r) <= 1

(* Every lidar that has settings to take begins to be published, although  *)
(* any of its datagrams may be lost or refused and a sendto may fail,      *)
(* unless the program ends over a setting that could not be sent.          *)
EventuallySampling ==
    \A l \in Lidars :
        (l \in listed /\ config[l] # {}) ~> (connect_state[l] = "Sampling" \/ Crashed)
=============================================================================
