---------------------------- MODULE LidarSettings ----------------------------
(***************************************************************************)
(* The settings of one lidar: the setters of the SDK's interface           *)
(* (livox_lidar_sdk.cpp, command_impl.cpp, build_request.cpp) put a        *)
(* parameter under its key into a request, the lidar pushes what it holds, *)
(* and the push is parsed and written out for the user's callback          *)
(* (parse_lidar_state_info.cpp).  Which answer belongs to which request is *)
(* the business of LidarCommands: here a request is taken or lost.         *)
(*                                                                         *)
(* A value on the wire is the sequence of its members.  A member of 32 or  *)
(* 64 bits is a number below Word, a sign being in the upper half; times,  *)
(* angles and texts are small numbers and names.                           *)
(***************************************************************************)
EXTENDS Integers, Sequences, FiniteSets, Functions

CONSTANTS
    Types,      \* the types of lidar to consider
    Calls,      \* bound: the calls of setters, [name, arg]
    Again,      \* bound: those a program makes after another
    MaxCalls,   \* bound: calls that reach the lidar
    Word        \* stands for 2^32, and 2^64

VARIABLES
    lidar_type, \* of the lidar
    dev_type,   \* device_dev_type_ has it
    setter_calls,   \* calls that have reached the lidar
    held,       \* the parameters the lidar holds, as on the wire
    asked,      \* what its user has asked for, under the names of the report
    report      \* the last call of a user's callback: for a push, or a query

settings == <<lidar_type, dev_type, setter_calls, held, asked, report>>

ParamKeyName ==
    [PclDataType |-> 0, PatternMode |-> 1, DualEmitEn |-> 2, PointSendEn |-> 3,
     LidarIpCfg |-> 4, StateInfoHostIpCfg |-> 5, LidarPointDataHostIpCfg |-> 6,
     LidarImuHostIpCfg |-> 7, CtlHostIpCfg |-> 8, LogHostIpCfg |-> 9,
     VehicleSpeed |-> \h10, EnvironmentTemp |-> \h11, InstallAttitude |-> \h12,
     BlindSpotSet |-> \h13, FrameRate |-> \h14, FovCfg0 |-> \h15, FovCfg1 |-> \h16,
     FovCfgEn |-> \h17, DetectMode |-> \h18, FuncIoCfg |-> \h19, WorkModeAfterBoot |-> \h20,
     WorkMode |-> \h1A, GlassHeat |-> \h1B, ImuDataEn |-> \h1C, FusaEn |-> \h1D,
     ForceHeatEn |-> \h1E, LogParamSet |-> \h7FFF, Sn |-> \h8000, ProductInfo |-> \h8001,
     VersionApp |-> \h8002, VersionLoader |-> \h8003, VersionHardware |-> \h8004,
     Mac |-> \h8005, CurWorkState |-> \h8006, CoreTemp |-> \h8007, PowerUpCnt |-> \h8008,
     LocalTimeNow |-> \h8009, LastSyncTime |-> \h800A, TimeOffset |-> \h800B,
     TimeSyncType |-> \h800C, StatusCode |-> \h800D, LidarDiagStatus |-> \h800E,
     LidarFlashStatus |-> \h800F, FwType |-> \h8010, HmsCode |-> \h8011,
     CurGlassHeatState |-> \h8012, RoiMode |-> \hFFFE]
Keys == DOMAIN ParamKeyName

KeyValue(k, value) == [key |-> ParamKeyName[k], value |-> value]

(* Tables of different keys as one.                                        *)
Merged(tables) ==
    [x \in UNION {DOMAIN f : f \in tables} |-> (CHOOSE f \in tables : x \in DOMAIN f)[x]]
-----------------------------------------------------------------------------
(* The setters, by the key each of them writes.  The argument is cut to    *)
(* the width of its member, a switch writes a byte of its own.             *)
ModeSetters ==
    [SetLivoxLidarPclDataType |-> "PclDataType",
     SetLivoxLidarScanPattern |-> "PatternMode",
     SetLivoxLidarDualEmit |-> "DualEmitEn"]
(* Mutant of StructSetters: a setter copied from another, key and all.     *)
StructSettersCopied ==
    [SetLivoxLidarInstallAttitude |-> "InstallAttitude",
     SetLivoxLidarFovCfg0 |-> "FovCfg0",
     SetLivoxLidarFovCfg1 |-> "FovCfg0"]
StructSetters ==
    [SetLivoxLidarInstallAttitude |-> "InstallAttitude",
     SetLivoxLidarFovCfg0 |-> "FovCfg0",
     SetLivoxLidarFovCfg1 |-> "FovCfg1"]
FovSetters == [EnableLivoxLidarFov |-> "FovCfgEn", SetLivoxLidarDetectMode |-> "DetectMode"]
IoSetters ==
    [SetLivoxLidarFuncIOCfg |-> "FuncIoCfg",
     SetLivoxLidarBlindSpot |-> "BlindSpotSet",
     SetLivoxLidarWorkMode |-> "WorkMode"]
HeatSetters == [SetLivoxLidarGlassHeat |-> "GlassHeat"]
LogSetters == [SetLivoxLidarLogParam |-> "LogParamSet"]
BootSetters == [SetLivoxLidarWorkModeAfterBoot |-> "WorkModeAfterBoot"]
Setters ==
    Merged({ModeSetters, StructSetters, FovSetters, IoSetters, HeatSetters, LogSetters, BootSetters})

PointSwitches ==
    [EnableLivoxLidarPointSend |-> KeyValue("PointSendEn", <<0>>),
     DisableLivoxLidarPointSend |-> KeyValue("PointSendEn", <<1>>)]
FovSwitches == [DisableLivoxLidarFov |-> KeyValue("FovCfgEn", <<0>>)]
HeatSwitches ==
    [EnableLivoxLidarGlassHeat |-> KeyValue("GlassHeat", <<1>>),
     DisableLivoxLidarGlassHeat |-> KeyValue("GlassHeat", <<0>>),
     EnableLivoxLidarImuData |-> KeyValue("ImuDataEn", <<1>>),
     DisableLivoxLidarImuData |-> KeyValue("ImuDataEn", <<0>>)]
FusaSwitches ==
    [EnableLivoxLidarFusaFunciont |-> KeyValue("FusaEn", <<1>>),
     DisableLivoxLidarFusaFunciont |-> KeyValue("FusaEn", <<0>>)]
ForcedHeating ==
    [StartForcedHeating |-> KeyValue("ForceHeatEn", <<1>>),
     StopForcedHeating |-> KeyValue("ForceHeatEn", <<0>>)]
Switches ==
    Merged({PointSwitches, FovSwitches, HeatSwitches, FusaSwitches, ForcedHeating})

(* Those with addresses can fail: BuildRequest::IpToU8 wants four numbers  *)
(* that are not above 256, and stores them in a byte each.                 *)
IpSetters == [SetLivoxLidarIp |-> "LidarIpCfg"]
HostSetters ==
    [SetLivoxLidarStateInfoHostIPCfg |-> "StateInfoHostIpCfg",
     SetLivoxLidarPointDataHostIPCfg |-> "LidarPointDataHostIpCfg",
     SetLivoxLidarImuDataHostIPCfg |-> "LidarImuHostIpCfg"]

IsIp(ip) == Len(ip) = 4 /\ \A i \in 1 .. 4 : ip[i] >= 0 /\ ip[i] <= 256
IpToU8(ip) == [i \in 1 .. 4 |-> ip[i] % 256]

InitLidarIpinfoVal(arg) == [i \in 1 .. 3 |-> IpToU8(arg[i])]
HostIpInfo(arg) == <<IpToU8(arg[1]), arg[2] % 65536, arg[3] % 65536>>

(* Members of 32 bits and more; the others are bytes, which an enumeration *)
(* is cast to, and SetLivoxLidarDualEmit's argument is true or false.      *)
WideSetters == DOMAIN StructSetters \cup {"SetLivoxLidarBlindSpot", "SetLivoxLidarLogParam"}
Member(name, x) ==
    IF name = "SetLivoxLidarDualEmit" THEN IF x = 0 THEN 0 ELSE 1
    ELSE IF name \in WideSetters THEN x % Word
    ELSE x % 256

(* What a call sends: nothing when an address is refused.                  *)
KeyValues(call) ==
    IF call.name \in DOMAIN Switches THEN {Switches[call.name]}
    ELSE IF call.name \in DOMAIN IpSetters
    THEN {KeyValue(IpSetters[call.name], InitLidarIpinfoVal(a)) :
             a \in {b \in {call.arg} : \A i \in 1 .. 3 : IsIp(b[i])}}
    ELSE IF call.name \in DOMAIN HostSetters
    THEN {KeyValue(HostSetters[call.name], HostIpInfo(a)) : a \in {b \in {call.arg} : IsIp(b[1])}}
    ELSE {KeyValue(Setters[call.name], [i \in DOMAIN call.arg |-> Member(call.name, call.arg[i])])}

(* SetLivoxLidarPclDataType asks for IMU data with another setter.         *)
ImuData == 0
Dispatched(call) ==
    IF call.name = "SetLivoxLidarPclDataType" /\ call.arg = <<ImuData>>
    THEN [name |-> "EnableLivoxLidarImuData", arg |-> <<>>]
    ELSE call

(* The arguments: an address is a text and may be anything, a number or an *)
(* enumeration has 32 bits whatever the width of its parameter or member,  *)
(* and an angle is the bits of a float.                                    *)
Unsigned == 0 .. Word - 1
Signed == -(Word \div 2) .. Word \div 2 - 1
Ports == {p \in Nat : p < 65536}
OneMember ==
    DOMAIN Merged({ModeSetters, FovSetters, HeatSetters, LogSetters, BootSetters})
        \cup {"SetLivoxLidarBlindSpot", "SetLivoxLidarWorkMode"}
FovArgs == {a \in [1 .. 5 -> Signed \cup Unsigned] : \A i \in 1 .. 4 : a[i] \in Signed}
MountingArgs ==
    {a \in [1 .. 6 -> Signed \cup Unsigned] :
        /\ \A i \in 1 .. 3 : a[i] \in Unsigned
        /\ \A i \in 4 .. 6 : a[i] \in Signed}
Callable ==
    [name : DOMAIN Switches, arg : {<<>>}]
    \cup [name : OneMember, arg : [1 .. 1 -> Unsigned]]
    \cup [name : {"SetLivoxLidarFuncIOCfg"}, arg : [1 .. 4 -> Unsigned]]
    \cup [name : {"SetLivoxLidarInstallAttitude"}, arg : MountingArgs]
    \cup [name : {"SetLivoxLidarFovCfg0", "SetLivoxLidarFovCfg1"}, arg : FovArgs]
    \cup [name : DOMAIN IpSetters, arg : [1 .. 3 -> Seq(Int)]]
    \cup [name : DOMAIN HostSetters, arg : Seq(Int) \X Ports \X Ports]

ASSUME SettingsConstants ==
    /\ Types \subseteq {"HAP", "Mid360"}
    /\ Calls \subseteq Callable /\ Again \subseteq Calls
    /\ MaxCalls \in Nat
    /\ Word \in Nat /\ Word % 2 = 0 /\ Word > 65535
-----------------------------------------------------------------------------
(* ParseStateInfo: the keys it knows, and the loop over the pairs of a     *)
(* push.  It steps over a value whose key it does not know.                *)
ParsedSettings ==
    {"PclDataType", "PatternMode", "DualEmitEn", "PointSendEn", "LidarIpCfg",
     "StateInfoHostIpCfg", "LidarPointDataHostIpCfg", "LidarImuHostIpCfg", "CtlHostIpCfg",
     "LogHostIpCfg", "VehicleSpeed", "EnvironmentTemp", "InstallAttitude", "BlindSpotSet",
     "FrameRate", "FovCfg0", "FovCfg1", "FovCfgEn", "DetectMode", "FuncIoCfg", "WorkMode",
     "GlassHeat", "ImuDataEn", "FusaEn"}
ParsedStatus ==
    {"Sn", "ProductInfo", "VersionApp", "VersionLoader", "VersionHardware", "Mac",
     "CurWorkState", "CoreTemp", "PowerUpCnt", "LocalTimeNow", "LastSyncTime", "TimeOffset",
     "TimeSyncType", "StatusCode", "LidarDiagStatus", "LidarFlashStatus", "FwType", "HmsCode",
     "RoiMode"}

ParseStateInfo(pairs) ==
    LET known == {k \in ParsedSettings \cup ParsedStatus :
                     \E i \in DOMAIN pairs : pairs[i].key = ParamKeyName[k]}
        last(k) == CHOOSE i \in DOMAIN pairs :
                       /\ pairs[i].key = ParamKeyName[k]
                       /\ \A j \in DOMAIN pairs : pairs[j].key = ParamKeyName[k] => j <= i
    IN  [k \in known |-> pairs[last(k)].value]

(* LivoxLidarStateInfoToJson: the name a key is written under, and how     *)
(* its members are written.  A FovCfg has a last member that is not.       *)
U(n) == [i \in 1 .. n |-> "Uint"]
I(n) == [i \in 1 .. n |-> "Int"]
Host == <<"String", "Uint", "Uint">>

JsonNetwork ==
    [PclDataType |-> <<"pcl_data_type", U(1)>>, PatternMode |-> <<"pattern_mode", U(1)>>,
     DualEmitEn |-> <<"dual_emit_en", U(1)>>, PointSendEn |-> <<"point_send_en", U(1)>>,
     LidarIpCfg |-> <<"lidar_ipcfg", <<"String", "String", "String">>>>,
     StateInfoHostIpCfg |-> <<"state_info_host_ipcfg", Host>>,
     LidarPointDataHostIpCfg |-> <<"ponitcloud_host_ipcfg", Host>>,
     LidarImuHostIpCfg |-> <<"imu_host_ipcfg", Host>>,
     CtlHostIpCfg |-> <<"ctl_host_ipcfg", Host>>, LogHostIpCfg |-> <<"log_host_ipcfg", Host>>]
JsonSettings ==
    [VehicleSpeed |-> <<"vehicle_speed", I(1)>>, EnvironmentTemp |-> <<"environment_temp", I(1)>>,
     InstallAttitude |->
         <<"install_attitude", <<"Double", "Double", "Double", "Uint", "Uint", "Uint">>>>,
     BlindSpotSet |-> <<"blind_spot_set", U(1)>>, FrameRate |-> <<"frame_rate", U(1)>>,
     FovCfg0 |-> <<"fov_cfg0", I(4)>>, FovCfg1 |-> <<"fov_cfg1", I(4)>>,
     FovCfgEn |-> <<"fov_cfg_en", U(1)>>, DetectMode |-> <<"detect_mode", U(1)>>,
     FuncIoCfg |-> <<"func_io_cfg", U(4)>>, WorkMode |-> <<"work_tgt_mode", U(1)>>,
     GlassHeat |-> <<"glass_heat", U(1)>>, ImuDataEn |-> <<"imu_data_en", U(1)>>,
     FusaEn |-> <<"fusa_en", U(1)>>]
JsonStatus ==
    [Sn |-> <<"sn", <<"String">>>>, ProductInfo |-> <<"product_info", <<"String">>>>,
     VersionApp |-> <<"version_app", U(4)>>, VersionLoader |-> <<"version_loader", U(4)>>,
     VersionHardware |-> <<"version_hardware", U(4)>>, Mac |-> <<"mac", U(6)>>,
     CurWorkState |-> <<"cur_work_state", U(1)>>, CoreTemp |-> <<"core_temp", I(1)>>,
     PowerUpCnt |-> <<"powerup_cnt", U(1)>>, LocalTimeNow |-> <<"local_time_now", U(1)>>,
     LastSyncTime |-> <<"last_sync_time", U(1)>>, TimeOffset |-> <<"time_offset", I(1)>>,
     TimeSyncType |-> <<"time_sync_type", U(1)>>, StatusCode |-> <<"status_code", <<"String">>>>,
     LidarDiagStatus |-> <<"lidar_diag_status", U(1)>>,
     LidarFlashStatus |-> <<"lidar_flash_status", U(1)>>, FwType |-> <<"FW_TYPE", U(1)>>,
     HmsCode |-> <<"hms_code", U(8)>>, RoiMode |-> <<"ROI_Mode", U(1)>>]
Json == Merged({JsonNetwork, JsonSettings, JsonStatus})

Written(how, v) == IF how = "Int" /\ v >= Word \div 2 THEN v - Word ELSE v
StateInfoToJson(info) ==
    LET of(name) == CHOOSE k \in DOMAIN info : Json[k][1] = name
        how(name) == Json[of(name)][2]
    IN  [name \in {Json[k][1] : k \in DOMAIN info} |->
            [i \in DOMAIN how(name) |-> Written(how(name)[i], info[of(name)][i])]]
-----------------------------------------------------------------------------
(* The lidar.  What it measures comes with a sign, and goes on the wire    *)
(* as a word.                                                              *)
PushPort == [HAP |-> 56000, Mid360 |-> 56200]
Measured ==
    [vehicle_speed |-> <<-3>>, environment_temp |-> <<-4>>, core_temp |-> <<35>>,
     time_offset |-> <<-2>>, powerup_cnt |-> <<7>>, cur_work_state |-> <<1>>,
     version_app |-> <<13, 18, 2, 44>>, version_loader |-> <<3, 1, 0, 0>>,
     version_hardware |-> <<1, 2, 3, 4>>, mac |-> <<6, 5, 4, 3, 2, 1>>, local_time_now |-> <<90>>,
     last_sync_time |-> <<80>>, time_sync_type |-> <<1>>, lidar_diag_status |-> <<0>>,
     lidar_flash_status |-> <<2>>, FW_TYPE |-> <<1>>, hms_code |-> <<8, 7, 6, 5, 4, 3, 2, 1>>,
     ROI_Mode |-> <<0>>]
Wire(value) == [i \in DOMAIN value |-> value[i] % Word]

FactoryIp == <<192, 168, 1, 100>>
Factory(t) ==
    [k \in Keys |->
        CASE k \in {"Sn", "ProductInfo", "StatusCode"} -> <<k>>
          [] k = "LidarIpCfg" -> <<FactoryIp, <<255, 255, 255, 0>>, <<192, 168, 1, 1>>>>
          [] k = "StateInfoHostIpCfg" -> <<<<192, 168, 1, 5>>, 56201, PushPort[t]>>
          [] k \in {"LidarPointDataHostIpCfg", "LidarImuHostIpCfg", "CtlHostIpCfg", "LogHostIpCfg"} ->
                 <<<<192, 168, 1, 5>>, 57000 + ParamKeyName[k], 58000 + ParamKeyName[k]>>
          [] k \in {"FovCfg0", "FovCfg1"} -> <<0, 60, 0, 50, 0>>
          [] k = "InstallAttitude" -> <<0, 0, 0, 0, 0, 0>>
          [] k = "FuncIoCfg" -> <<0, 1, 2, 3>>
          [] k \in DOMAIN Json /\ Json[k][1] \in DOMAIN Measured -> Wire(Measured[Json[k][1]])
          [] OTHER -> <<0>>]

Order ==
    [i \in 1 .. Cardinality(Keys) |->
        CHOOSE k \in Keys :
            Cardinality({j \in Keys : ParamKeyName[j] < ParamKeyName[k]}) = i - 1]
Pairs(sent) == [i \in DOMAIN sent |-> KeyValue(sent[i], held[sent[i]])]
KeyOf(code) == CHOOSE k \in Keys : ParamKeyName[k] = code
-----------------------------------------------------------------------------
(* What a call is about in the report, and what it should then say.        *)
Subject ==
    [SetLivoxLidarPclDataType |-> "pcl_data_type", SetLivoxLidarScanPattern |-> "pattern_mode",
     SetLivoxLidarDualEmit |-> "dual_emit_en", SetLivoxLidarInstallAttitude |-> "install_attitude",
     SetLivoxLidarFovCfg0 |-> "fov_cfg0", SetLivoxLidarFovCfg1 |-> "fov_cfg1",
     EnableLivoxLidarFov |-> "fov_cfg_en", DisableLivoxLidarFov |-> "fov_cfg_en",
     SetLivoxLidarDetectMode |-> "detect_mode", SetLivoxLidarFuncIOCfg |-> "func_io_cfg",
     SetLivoxLidarBlindSpot |-> "blind_spot_set", SetLivoxLidarWorkMode |-> "work_tgt_mode",
     SetLivoxLidarGlassHeat |-> "glass_heat", EnableLivoxLidarGlassHeat |-> "glass_heat",
     DisableLivoxLidarGlassHeat |-> "glass_heat", EnableLivoxLidarImuData |-> "imu_data_en",
     DisableLivoxLidarImuData |-> "imu_data_en", EnableLivoxLidarFusaFunciont |-> "fusa_en",
     DisableLivoxLidarFusaFunciont |-> "fusa_en", EnableLivoxLidarPointSend |-> "point_send_en",
     DisableLivoxLidarPointSend |-> "point_send_en", SetLivoxLidarIp |-> "lidar_ipcfg",
     SetLivoxLidarStateInfoHostIPCfg |-> "state_info_host_ipcfg",
     SetLivoxLidarPointDataHostIPCfg |-> "ponitcloud_host_ipcfg",
     SetLivoxLidarImuDataHostIPCfg |-> "imu_host_ipcfg"]

SwitchedOn ==
    {"EnableLivoxLidarGlassHeat", "EnableLivoxLidarImuData", "EnableLivoxLidarFusaFunciont",
     "DisableLivoxLidarPointSend", "StartForcedHeating"}
Said(call) ==
    CASE call.name \in {"SetLivoxLidarFovCfg0", "SetLivoxLidarFovCfg1"} -> SubSeq(call.arg, 1, 4)
      [] call = [name |-> "SetLivoxLidarPclDataType", arg |-> <<ImuData>>] -> <<1>>
      [] call.name \in DOMAIN Switches -> IF call.name \in SwitchedOn THEN <<1>> ELSE <<0>>
      [] OTHER -> call.arg
About(call) ==
    IF call = [name |-> "SetLivoxLidarPclDataType", arg |-> <<ImuData>>]
    THEN {"imu_data_en"}
    ELSE {Subject[n] : n \in {call.name} \cap DOMAIN Subject}

(* Some arguments do not survive, see the README: a number 256 in an       *)
(* address, an offset of the mounting below zero, and a number too wide    *)
(* for its member.                                                         *)
Survives(call) ==
    /\ call.name = "SetLivoxLidarDualEmit" => call.arg[1] < 2
    /\ call.name \in (OneMember \cup {"SetLivoxLidarFuncIOCfg"}) \ WideSetters =>
          \A i \in DOMAIN call.arg : call.arg[i] < 256
    /\ call.name \in DOMAIN IpSetters => \A i \in 1 .. 3 : 256 \notin Range(call.arg[i])
    /\ call.name \in DOMAIN HostSetters => 256 \notin Range(call.arg[1])
    /\ call.name = "SetLivoxLidarInstallAttitude" => \A i \in 4 .. 6 : call.arg[i] >= 0
-----------------------------------------------------------------------------
Nothing == [of |-> "nothing"]

SettingsInit ==
    /\ lidar_type \in Types
    /\ dev_type = FALSE
    /\ setter_calls = 0
    /\ held = Factory(lidar_type)
    /\ asked = <<>>
    /\ report = Nothing

(* HandleDetectionData has seen the lidar.                                 *)
Detected ==
    /\ ~dev_type
    /\ dev_type' = TRUE
    /\ UNCHANGED <<lidar_type, setter_calls, held, asked, report>>

(* A call whose request reaches the lidar.  One that is refused, before    *)
(* the lidar is known or for its address, sends nothing.                   *)
Call ==
    /\ dev_type
    /\ setter_calls < MaxCalls
    /\ \E c \in IF setter_calls = 0 THEN Calls ELSE Again : \E kv \in KeyValues(Dispatched(c)) :
           /\ held' = [held EXCEPT ![KeyOf(kv.key)] = kv.value]
           /\ asked' = [n \in (DOMAIN asked \cup About(c)) \ (IF Survives(c) THEN {} ELSE About(c)) |->
                           IF n \in About(c) THEN Said(c) ELSE asked[n]]
    /\ setter_calls' = setter_calls + 1
    /\ UNCHANGED <<lidar_type, dev_type, report>>

(* LivoxLidarRequestReset: the lidar forgets what it was told.             *)
RequestReset ==
    /\ dev_type
    /\ setter_calls \in 1 .. MaxCalls - 1
    /\ setter_calls' = setter_calls + 1
    /\ held' = Factory(lidar_type)
    /\ asked' = <<>>
    /\ UNCHANGED <<lidar_type, dev_type, report>>

(* GetQueryLidarInternalInfoKeys, and the two queries of a single key.     *)
QueryKeys ==
    [HAP |->
        {"PclDataType", "PatternMode", "DualEmitEn", "PointSendEn", "LidarIpCfg",
         "LidarPointDataHostIpCfg", "LidarImuHostIpCfg", "LogHostIpCfg", "InstallAttitude",
         "BlindSpotSet", "WorkMode", "GlassHeat", "ImuDataEn", "FusaEn", "ForceHeatEn", "Sn",
         "ProductInfo", "VersionApp", "VersionLoader", "VersionHardware", "Mac", "CurWorkState",
         "StatusCode", "LidarDiagStatus", "LidarFlashStatus", "FwType", "CurGlassHeatState"},
     Mid360 |->
        {"PclDataType", "PatternMode", "LidarIpCfg", "StateInfoHostIpCfg",
         "LidarPointDataHostIpCfg", "LidarImuHostIpCfg", "InstallAttitude", "FovCfg0", "FovCfg1",
         "FovCfgEn", "DetectMode", "FuncIoCfg", "WorkMode", "ImuDataEn", "Sn", "ProductInfo",
         "VersionApp", "VersionLoader", "VersionHardware", "Mac", "CurWorkState", "CoreTemp",
         "PowerUpCnt", "LocalTimeNow", "LastSyncTime", "TimeOffset", "TimeSyncType",
         "LidarDiagStatus", "FwType", "HmsCode"}]
Queries == {QueryKeys[lidar_type], {"FwType"}, {"VersionApp"}}

Query ==
    /\ dev_type
    /\ \E keys \in Queries :
           report' = [of |-> "query", pairs |-> Pairs(SelectSeq(Order, LAMBDA k : k \in keys))]
    /\ UNCHANGED <<lidar_type, dev_type, setter_calls, held, asked>>

(* OnCommandCmd and PushLivoxLidarInfo: a push of all the lidar holds,     *)
(* looked at only if it comes from the port pushes come from, and handed   *)
(* out only for a lidar that is known.                                     *)
OnPush ==
    /\ dev_type
    /\ held["StateInfoHostIpCfg"][3] = PushPort[lidar_type]
    /\ report' = [of |-> "push", asked |-> asked,
                  json |-> StateInfoToJson(ParseStateInfo(Pairs(Order)))]
    /\ UNCHANGED <<lidar_type, dev_type, setter_calls, held, asked>>

SettingsNext == Detected \/ Call \/ RequestReset \/ Query \/ OnPush
SettingsSpec == SettingsInit /\ [][SettingsNext]_settings
-----------------------------------------------------------------------------
ReportOK ==
    /\ report.of \in {"nothing", "query", "push"}
    /\ report.of = "push" =>
          /\ DOMAIN report.asked \subseteq Range(Subject)
          /\ DOMAIN report.json = {Json[k][1] : k \in DOMAIN Json}
SettingsTypeOK ==
    /\ lidar_type \in Types
    /\ dev_type \in BOOLEAN
    /\ setter_calls \in 0 .. MaxCalls
    /\ DOMAIN held = Keys
    /\ DOMAIN asked \subseteq Range(Subject)
    /\ ReportOK

(* What a user is told about a lidar is what has been asked of it last:    *)
(* two dozen setters, the keys they write, the layout of each value, the   *)
(* parser, and the names and signs of the report fit together, over keys   *)
(* the parser does not know and values of a sign.  What was asked with an  *)
(* argument that does not survive is left out.                             *)
ReportedAsAsked ==
    report.of = "push" =>
        /\ \A n \in DOMAIN report.asked :
              n \in DOMAIN report.json /\ report.json[n] = report.asked[n]
        /\ \A n \in DOMAIN Measured :
              n \in DOMAIN report.json /\ report.json[n] = Measured[n]
=============================================================================
