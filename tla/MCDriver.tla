------------------------------ MODULE MCDriver ------------------------------
(***************************************************************************)
(* Model-checking instance of what threads hand over to each other on the  *)
(* way from a lidar: the wake-ups of livox_ros_driver2 (LidarHandoff), the *)
(* packets and frames (LidarFrames), or the firmware log (LidarLogger).    *)
(* Of the lidars of LidarFrames, 1 is configured and sends enough frames   *)
(* to fill its ring and wrap the indices; it is synchronised at some time, *)
(* and of its own packets each begins a millisecond after the one before   *)
(* it ends, but for the second, which may follow without a gap.  2 is      *)
(* unknown and not synchronised, so that the flag changes between a packet *)
(* and its check, and is heard of from the fourth millisecond on.          *)
(* The log is of one file, beside one of an earlier program.               *)
(***************************************************************************)
EXTENDS LidarHandoff, LidarFrames, LidarLogger

DriverTimeTypes == 1 :> Clocks @@ 2 :> {"host"}
DriverPackets == 1 :> 5 @@ 2 :> 1

(* The driver's own numbers: ten or more places, rounded up.               *)
ASSUME RingSizes ==
    /\ CalculatePacketQueueSize(10) = 10 /\ InitQueue(10, 0).mask = 15
    /\ CalculatePacketQueueSize(50) = 51 /\ InitQueue(51, 0).mask = 63
    /\ CalculatePacketQueueSize(100) = 101 /\ InitQueue(101, 0).mask = 127

(* No thread of LidarHandoff runs while packets or the log are followed,   *)
(* and no thread of LidarLogger runs otherwise.                            *)
NoHandoff ==
    /\ channel = "none"
    /\ queued = [l \in Lidars |-> 0] /\ count = 0
    /\ connect_state = [l \in Lidars |-> "Off"] /\ skipped = {}
    /\ producer = [pc |-> "none", lidar |-> 0]
    /\ poller = [pc |-> "ended", lidar |-> 0]
    /\ request_exit = FALSE /\ node = "joined"

NoLogger ==
    /\ pushed = [file_index |-> 1, trans_index |-> 0]
    /\ late = {} /\ faults = 0 /\ detected = FALSE /\ log_enable_ = FALSE
    /\ cmd = [pc |-> "idle", msg |-> pushed]
    /\ handler = "none" /\ queue_ = <<>> /\ writer = [pc |-> "none", batch |-> <<>>]
    /\ second = 0 /\ current_file = NoFile /\ disk = <<>>
    /\ deleter = [pc |-> "none", names |-> {}]
    /\ user = "none"

(* When what happens: 1 is not stamped by the host once it has stamped a   *)
(* packet itself, and 2 is late, as packets of the IMU are; these come     *)
(* when the flag is about to be read.  The host's clock goes on when it is *)
(* not, and until Uninit, which comes between two packets.                 *)
Sending ==
    /\ sent'[1] > sent[1] /\ lidar_time' = lidar_time => lidar_time[1] = 0
    /\ lidar_time'[1] > lidar_time[1] =>
          \/ lidar_time'[1] = lidar_time[1] + 1 + Span
          \/ lidar_time'[1] = lidar_time[1] + Span /\ sent[1] = 1
          \/ lidar_time'[1] = 2 + Span /\ sent[1] = 0
    /\ sent'[2] > sent[2] => clock >= 4
    /\ is_timestamp_sync_' # is_timestamp_sync_ /\ sent' = sent => clock >= 4 /\ thread.pc = "check"
    /\ clock' # clock => thread.pc = "loop" /\ is_quit_ = "no"
    /\ is_quit_' = "requested" => thread.pc = "loop"

DriverInit ==
    /\ FramesInit
    /\ \/ (Init \/ NoHandoff) /\ NoLogger
       \/ NoHandoff /\ LoggerInit

DriverNext ==
    \/ channel # "none" /\ Next /\ UNCHANGED <<framing, logVars>>
    \/ channel = "none" /\ user = "none" /\ FramesNext /\ Sending
          /\ UNCHANGED <<vars, logVars>>
    \/ user # "none" /\ LoggerNext /\ UNCHANGED <<vars, framing>>

DriverSpec ==
    /\ DriverInit
    /\ [][DriverNext]_<<vars, framing, logVars>>
    /\ Fairness
    /\ LoggerFairness
=============================================================================
