-------------------------------- MODULE MCSdk --------------------------------
(***************************************************************************)
(* Model-checking instance of the Livox SDK: what it does before the data  *)
(* of a lidar flows (LidarConfig), or, for a program that asks for that    *)
(* instead, the upgrade of a lidar (LidarUpgrade).                         *)
(***************************************************************************)
EXTENDS LidarConfig, LidarUpgrade

upgrader == <<machine, object, observing, lidar>>
configuration == <<chosen, devices, count, driver>>

NoUpgrade ==
    /\ fsm_state = "Idle" /\ read_offset = 0 /\ try_count = 0
    /\ object = "none" /\ observing = {}
    /\ memory = {} /\ flashed = FALSE

(* Lidars that have been detected, without a driver to configure them.     *)
NoConfig ==
    /\ firmware = [l \in Lidars |-> "app"]
    /\ config = [l \in Lidars |-> {}]
    /\ listed = {}
    /\ followed = "Imu"
    /\ devices = [l \in Lidars |-> [NoDevice EXCEPT !.found = TRUE]]
    /\ count = 0
    /\ set_bits = [l \in Lidars |-> {}]
    /\ connect_state = [l \in Lidars |-> "Off"]
    /\ asleep = [t \in Threads |-> {}]
    /\ received = [l \in Lidars |-> {}]
    /\ calls = [l \in Lidars |-> 0]

SdkInit ==
    \/ Init /\ NoUpgrade
    \/ UpgradeInit /\ NoConfig

(* Bound: where a sendto fails.  Of an upgrade, any but the start's.       *)
Failed(kind) == \E u \in unsent' \ unsent : u.cmd.of.kind = kind
FailsHere ==
    failures' # failures =>
        IF object = "none"
        THEN /\ followed = "WorkMode"
             /\ \A l \in Lidars :
                    /\ firmware[l] = "app"
                    /\ Cardinality(config[l]) <= (IF Failed("FwType") THEN 0 ELSE 1)
        ELSE ~Failed("Start")

SdkNext ==
    \/ object = "none" /\ Next /\ FailsHere /\ UNCHANGED upgrader
    \/ object # "none" /\ UpgradeNext /\ FailsHere /\ UNCHANGED configuration
=============================================================================
