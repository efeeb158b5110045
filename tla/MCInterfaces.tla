----------------------------- MODULE MCInterfaces -----------------------------
(***************************************************************************)
(* Model-checking instance of the Livox SDK: configuration or upgrade of a *)
(* lidar (MCSdk), or the parameters of a lidar (LidarSettings), or the     *)
(* sockets and tables of repeated calls of Init and Uninit with a HAP and  *)
(* a Mid-360 (LidarNetwork).                                               *)
(***************************************************************************)
EXTENDS MCSdk, LidarSettings, LidarNetwork

(* The files: one entry, or one of each type, and what a user may get      *)
(* wrong.                                                                  *)
HapPorts == [cmd |-> "56000", push |-> "0", point |-> "57000", imu |-> "58000", log |-> "59000"]
MidPorts == [cmd |-> "56101", push |-> "56201", point |-> "56301", imu |-> "56401", log |-> "56501"]
Group == "224.1.1.5"
Entry(type, lidars, group, ports) ==
    [type |-> type, lidars |-> lidars, group |-> group, ports |-> ports, from |-> "constants"]
Haps == {Entry("HAP", ls, g, HapPorts) : ls \in {{}, {"hap"}}, g \in {"none", Group}}
Mids == {Entry("Mid360", ls, g, MidPorts) : ls \in {{}, {"mid"}}, g \in {"none", Group}}
OnePort == {Entry("Mid360", {}, g, [MidPorts EXCEPT !.point = "57000"]) : g \in {"none", Group}}
Sound(entries) == [sound |-> TRUE, master |-> TRUE, log |-> FALSE, entries |-> entries]
AHap == Entry("HAP", {}, "none", HapPorts)
Odd == {<<>>, <<[AHap EXCEPT !.group = "192.168.1.9"]>>, <<[AHap EXCEPT !.from = "others"]>>,
        <<[AHap EXCEPT !.lidars = {"hap"}], [AHap EXCEPT !.lidars = {"hap"}]>>,
        <<[AHap EXCEPT !.lidars = {"mid"}]>>}
NetFiles ==
    {Sound(<<e>>) : e \in Haps \cup Mids} \cup {Sound(<<h, m>>) : h \in Haps, m \in Mids}
    \cup {Sound(<<AHap, m>>) : m \in OnePort} \cup {Sound(o) : o \in Odd}
    \cup {[Sound(<<h>>) EXCEPT !.master = FALSE] : h \in Haps}
    \cup {[Sound(<<AHap>>) EXCEPT !.sound = FALSE], [Sound(<<AHap>>) EXCEPT !.log = TRUE]}

TypeOfLidars == [l \in {"hap", "mid"} |-> IF l = "hap" THEN "HAP" ELSE "Mid360"]
ChangedFiles == {Sound(<<[AHap EXCEPT !.group = Group]>>)}

(* The setters: an argument each, addresses of every kind, a port the SDK  *)
(* does not listen for, and a mode that is no byte.                        *)
SetterCall(name, args) == {[name |-> name, arg |-> a] : a \in args}
OneByte ==
    {"SetLivoxLidarPclDataType", "SetLivoxLidarScanPattern", "EnableLivoxLidarFov",
     "SetLivoxLidarDetectMode", "SetLivoxLidarWorkMode", "SetLivoxLidarGlassHeat",
     "SetLivoxLidarWorkModeAfterBoot", "SetLivoxLidarLogParam", "SetLivoxLidarBlindSpot"}
Fov == {"SetLivoxLidarFovCfg0", "SetLivoxLidarFovCfg1"}
GoodIp == <<192, 168, 1, 7>>
Ips == {GoodIp, <<192, 168, 1, 256>>, <<192, 168, 1>>, <<192, 168, 300, 1>>}
SetterMenu ==
    UNION {SetterCall(n, {<<2>>}) : n \in OneByte}
    \cup UNION {SetterCall(n, {<<>>}) : n \in DOMAIN Switches}
    \cup SetterCall("SetLivoxLidarPclDataType", {<<ImuData>>})
    \cup SetterCall("SetLivoxLidarDualEmit", {<<0>>, <<1>>})
    \cup SetterCall("SetLivoxLidarWorkMode", {<<258>>})
    \cup SetterCall("SetLivoxLidarFuncIOCfg", {<<3, 2, 1, 0>>})
    \cup SetterCall("SetLivoxLidarInstallAttitude", {<<1, 2, 3, 40, y, 60>> : y \in {50, -50}})
    \cup UNION {SetterCall(n, {<<-20, 30, -10, 40, 0>>}) : n \in Fov}
    \cup SetterCall("SetLivoxLidarIp", {<<i, <<255, 255, 0, 0>>, <<192, 168, 1, 2>>>> : i \in Ips})
    \cup UNION {SetterCall(n, {<<i, 56401, 56200>> : i \in Ips} \cup {<<GoodIp, 56401, 56300>>}) :
                    n \in DOMAIN HostSetters}
SecondCalls ==
    {c \in SetterMenu :
        \/ c.name \in DOMAIN PointSwitches \cup {"SetLivoxLidarStateInfoHostIPCfg"}
        \/ c.name \in Fov}

NoSettings ==
    /\ lidar_type = "none" /\ dev_type = FALSE /\ setter_calls = 0
    /\ held = <<>> /\ asked = <<>> /\ report = Nothing

NoNetwork ==
    /\ phase = "none" /\ inits = 0 /\ refusals = 0 /\ past = {}
    /\ file = NoFile /\ framework = "none"
    /\ types = <<>> /\ custom = <<>> /\ list = <<>> /\ handler = "none" /\ known = <<>>
    /\ channel = <<>> /\ open = {} /\ polled = {}
    /\ stopped = TRUE /\ detecting = FALSE
    /\ found = <<>> /\ told = <<>>

NoSdk == InitLayer /\ NoConfig /\ NoUpgrade

InterfacesInit ==
    \/ SdkInit /\ NoSettings /\ NoNetwork
    \/ NoSdk /\ SettingsInit /\ NoNetwork
    \/ NoSdk /\ NoSettings /\ NetworkInit

NeitherOther == lidar_type = "none" /\ phase = "none"

InterfacesNext ==
    \/ NeitherOther /\ SdkNext /\ UNCHANGED <<settings, networkVars>>
    \/ lidar_type # "none" /\ SettingsNext /\ UNCHANGED <<vars, upgrader, networkVars>>
    \/ phase # "none" /\ NetworkNext /\ UNCHANGED <<vars, upgrader, settings>>

InterfacesSpec ==
    /\ InterfacesInit
    /\ [][InterfacesNext]_<<vars, upgrader, settings, networkVars>>
    /\ Fairness
    /\ UpgradeFairness
=============================================================================
