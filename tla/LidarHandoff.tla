---------------------------- MODULE LidarHandoff ----------------------------
(***************************************************************************)
(* How livox_ros_driver2 hands point cloud frames and IMU samples from the *)
(* threads that receive them to the two threads that publish them, and how *)
(* the node shuts these threads down (lds.cpp, lddc.cpp, semaphore.cpp,    *)
(* driver_node.cpp, livox_ros_driver2.cpp).                                *)
(*                                                                         *)
(* Two channels of nearly the same shape run side by side and share only   *)
(* the connection states and the exit flag: "pcd" (ring buffers filled by  *)
(* the RawDataProcess thread) and "imu" (lists filled by the SDK's data    *)
(* threads, whose observers run under one mutex: one producer either way). *)
(* A behaviour is that of one channel: a queue per lidar, a counting       *)
(* semaphore and a polling thread.  Only the number of queued items        *)
(* matters here: what they hold and their order is LidarFrames' business.  *)
(***************************************************************************)
EXTENDS Integers

CONSTANTS N,          \* lidar_count_: the polling thread visits lidars 0 .. N - 1
          Capacity    \* places in a ring; for the IMU list, where the count stops

ASSUME NAssumption == N \in Nat \ {0}
ASSUME CapacityAssumption == Capacity \in Nat \ {0}

Lidars == 0 .. N - 1

VARIABLES
    channel,        \* "pcd" or "imu": chosen once
    queued,         \* [Lidars -> Nat]: items in data / imu_data of a lidar
    count,          \* count_ of pcd_semaphore_ / imu_semaphore_
    connect_state,  \* [Lidars -> {"Off", "Sampling"}]
    producer,       \* [pc, lidar]: where the storing thread is
    poller,         \* [pc, lidar]: where the polling thread is
    request_exit,   \* Lds::request_exit_
    node,           \* ~DriverNode: "running", "flagged", "joining", "joined"
    skipped         \* history: the lidars that were not Sampling when the
                    \* polling thread last came by

queues == <<queued, connect_state>>
exit == <<request_exit, node>>
vars == <<channel, queues, count, producer, poller, exit, skipped>>

At(thread, pc) == thread.pc = pc
Goes(thread, pc, l) == thread' = [pc |-> pc, lidar |-> l]
-----------------------------------------------------------------------------
Init ==
    /\ channel \in {"pcd", "imu"}
    /\ queued = [l \in Lidars |-> 0]
    /\ count = 0
    /\ connect_state = [l \in Lidars |-> "Off"]
    /\ producer = [pc |-> "idle", lidar |-> 0]
    /\ poller = [pc |-> "top", lidar |-> 0]
    /\ request_exit = FALSE
    /\ node = "running"
    /\ skipped = {}

(* A callback of LidarConfig has cleared the last configuration bit.       *)
StartSampling(l) ==
    /\ connect_state[l] = "Off"
    /\ connect_state' = [connect_state EXCEPT ![l] = "Sampling"]
    /\ UNCHANGED <<channel, queued, count, producer, poller, exit, skipped>>
-----------------------------------------------------------------------------
(* The storing side.  A frame that finds the ring full is dropped, and the *)
(* thread goes straight to the test of the semaphore.  The IMU list has no *)
(* limit: the model stops counting its items at Capacity.                  *)
Store(l) ==
    /\ At(producer, "idle")
    /\ queued[l] < Capacity \/ channel = "imu"
    /\ queued' = [queued EXCEPT ![l] = IF @ < Capacity THEN @ + 1 ELSE @]
    /\ Goes(producer, "stored", l)
    /\ UNCHANGED <<channel, connect_state, count, poller, exit, skipped>>

(* Mutant: a dropped frame wakes nobody.                                   *)
DropFullSilent(l) ==
    /\ channel = "pcd"
    /\ At(producer, "idle")
    /\ queued[l] = Capacity
    /\ UNCHANGED vars

DropFull(l) ==
    /\ channel = "pcd"
    /\ At(producer, "idle")
    /\ queued[l] = Capacity
    /\ Goes(producer, "getcount", l)
    /\ UNCHANGED <<channel, queues, count, poller, exit, skipped>>

(* The thread looks at the queue again: the polling thread may have        *)
(* emptied it already.                                                     *)
TestQueue ==
    /\ At(producer, "stored")
    /\ Goes(producer, IF queued[producer.lidar] > 0 THEN "getcount" ELSE "idle", producer.lidar)
    /\ UNCHANGED <<channel, queues, count, poller, exit, skipped>>

(* Mutant: it signals without having looked at the count.                  *)
TestCountNever ==
    /\ At(producer, "getcount")
    /\ Goes(producer, "signal", producer.lidar)
    /\ UNCHANGED <<channel, queues, count, poller, exit, skipped>>

(* GetCount() takes no lock; Signal() is a step of its own.                *)
TestCount ==
    /\ At(producer, "getcount")
    /\ Goes(producer, IF count <= 0 THEN "signal" ELSE "idle", producer.lidar)
    /\ UNCHANGED <<channel, queues, count, poller, exit, skipped>>

(* Mutant: the thread notifies without counting when nobody is waiting.    *)
SignalUncounted ==
    /\ At(producer, "signal")
    /\ count' = IF At(poller, "wait") THEN count + 1 ELSE count
    /\ Goes(producer, "idle", producer.lidar)
    /\ UNCHANGED <<channel, queues, poller, exit, skipped>>

Signal ==
    /\ At(producer, "signal")
    /\ count' = count + 1
    /\ Goes(producer, "idle", producer.lidar)
    /\ UNCHANGED <<channel, queues, poller, exit, skipped>>
-----------------------------------------------------------------------------
(* The polling side.  The loop of PointCloudDataPollThread /               *)
(* ImuDataPollThread enters Distribute...Data, which returns at once when  *)
(* an exit is requested.                                                   *)
Distribute ==
    /\ At(poller, "top")
    /\ Goes(poller, IF request_exit THEN "future" ELSE "wait", 0)
    /\ UNCHANGED <<channel, queues, count, producer, exit, skipped>>

Wait ==
    /\ At(poller, "wait")
    /\ count > 0
    /\ count' = count - 1
    /\ Goes(poller, "visit", 0)
    /\ UNCHANGED <<channel, queues, producer, exit, skipped>>

(* Mutant: the loop ends one lidar early.                                  *)
NextLidarShort ==
    IF poller.lidar + 2 < N THEN Goes(poller, "visit", poller.lidar + 1)
                            ELSE Goes(poller, "future", 0)

NextLidar ==
    IF poller.lidar + 1 < N THEN Goes(poller, "visit", poller.lidar + 1)
                            ELSE Goes(poller, "future", 0)

(* One lidar of the loop: passed over while it is not sampling.            *)
VisitSampling ==
    /\ At(poller, "visit")
    /\ connect_state[poller.lidar] = "Sampling"
    /\ skipped' = skipped \ {poller.lidar}
    /\ Goes(poller, "poll", poller.lidar)
    /\ UNCHANGED <<channel, queues, count, producer, exit>>

VisitOff ==
    /\ At(poller, "visit")
    /\ connect_state[poller.lidar] # "Sampling"
    /\ skipped' = skipped \union {poller.lidar}
    /\ NextLidar
    /\ UNCHANGED <<channel, queues, count, producer, exit>>

(* The IMU thread tests the exit before every sample; the point cloud      *)
(* thread only before its inner loop, which then runs the queue dry.       *)
Publish ==
    /\ (At(poller, "poll") /\ ~request_exit) \/ At(poller, "drain")
    /\ queued[poller.lidar] > 0
    /\ queued' = [queued EXCEPT ![poller.lidar] = @ - 1]
    /\ Goes(poller, IF channel = "pcd" THEN "drain" ELSE "poll", poller.lidar)
    /\ UNCHANGED <<channel, connect_state, count, producer, exit, skipped>>

Drained ==
    /\ At(poller, "drain")
    /\ queued[poller.lidar] = 0
    /\ Goes(poller, "poll", poller.lidar)
    /\ UNCHANGED <<channel, queues, count, producer, exit, skipped>>

LeaveLidar ==
    /\ At(poller, "poll")
    /\ request_exit \/ queued[poller.lidar] = 0
    /\ NextLidar
    /\ UNCHANGED <<channel, queues, count, producer, exit, skipped>>

(* future_.wait_for(0): timeout until exit_signal_ has its value.          *)
TestFuture ==
    /\ At(poller, "future")
    /\ Goes(poller, IF node \in {"running", "flagged"} THEN "top" ELSE "ended", 0)
    /\ UNCHANGED <<channel, queues, count, producer, exit, skipped>>
-----------------------------------------------------------------------------
(* ~DriverNode: RequestExit, set_value, join.  RequestExit does not signal *)
(* the semaphore.                                                          *)
RequestExit ==
    /\ node = "running"
    /\ request_exit' = TRUE
    /\ node' = "flagged"
    /\ UNCHANGED <<channel, queues, count, producer, poller, skipped>>

SetValue ==
    /\ node = "flagged"
    /\ node' = "joining"
    /\ UNCHANGED <<channel, queues, count, producer, poller, request_exit, skipped>>

Join ==
    /\ node = "joining"
    /\ At(poller, "ended")
    /\ node' = "joined"
    /\ UNCHANGED <<channel, queues, count, producer, poller, request_exit, skipped>>
-----------------------------------------------------------------------------
Arrival == \E l \in Lidars : Store(l) \/ DropFull(l)
ProducerStep == TestQueue \/ TestCount \/ Signal
PollerStep ==
    \/ Distribute \/ Wait \/ VisitSampling \/ VisitOff
    \/ Publish \/ Drained \/ LeaveLidar \/ TestFuture
Shutdown == SetValue \/ Join

Next ==
    \/ \E l \in Lidars : StartSampling(l)
    \/ Arrival \/ ProducerStep \/ PollerStep
    \/ RequestExit \/ Shutdown

Spec == Init /\ [][Next]_vars

(* The threads are scheduled; the lidars keep sending, so the storing      *)
(* thread never runs out of items; and a polling thread that empties a     *)
(* queue gets to the end of it: frames come at publish_freq, at most 100   *)
(* Hz, an IMU sample every few milliseconds, and publishing is faster.     *)
Fairness ==
    /\ WF_vars(ProducerStep \/ Arrival) /\ WF_vars(PollerStep) /\ WF_vars(Shutdown)
    /\ []<>(poller.pc \notin {"poll", "drain"})

FairSpec == Spec /\ Fairness
-----------------------------------------------------------------------------
TypeOK ==
    /\ channel \in {"pcd", "imu"}
    /\ queued \in [Lidars -> 0 .. Capacity]
    /\ count \in Nat
    /\ connect_state \in [Lidars -> {"Off", "Sampling"}]
    /\ producer \in [pc : {"idle", "stored", "getcount", "signal"}, lidar : Lidars]
    /\ poller \in [pc : {"top", "wait", "visit", "poll", "drain", "future", "ended"}, lidar : Lidars]
    /\ request_exit \in BOOLEAN
    /\ node \in {"running", "flagged", "joining", "joined"}
    /\ skipped \subseteq Lidars

(* The storing thread has yet to test or signal for lidar l.               *)
WillSignal(l) == ~At(producer, "idle") /\ producer.lidar = l

(* The polling thread still comes by lidar l in this round, or is there.   *)
WillVisit(l) == poller.pc \in {"visit", "poll", "drain"} /\ poller.lidar <= l

(* No lost wake-up (lds.cpp:184-195, lddc.cpp:128): whatever the two       *)
(* threads interleave between the push, the unlocked GetCount(), Signal()  *)
(* and Wait(), an item of a lidar that was sampling when last visited is   *)
(* never left behind by a polling thread that sleeps on a semaphore nobody *)
(* is about to signal.                                                     *)
NoLostWakeup ==
    \A l \in Lidars :
        queued[l] > 0 =>
            count > 0 \/ WillSignal(l) \/ WillVisit(l) \/ l \in skipped \/ request_exit

(* Although GetCount() and Signal() are not atomic, the semaphore never    *)
(* holds more than one token: a burst of frames costs one round.           *)
OneToken == count + (IF At(producer, "signal") THEN 1 ELSE 0) <= 1

(* A frame of a sampling lidar is published, or the node is shutting down: *)
(* this needs the semaphore protocol, the round over all the lidars and an *)
(* inner loop that ends.  It holds too for the items that were stored      *)
(* before the lidar was configured: the next item starts a round.          *)
EventuallyPublished ==
    \A l \in Lidars :
        (queued[l] > 0 /\ connect_state[l] = "Sampling") ~> (queued[l] = 0 \/ request_exit)

(* The destructor returns: the polling thread leaves its semaphore,        *)
(* because the lidars keep sending, and ends (driver_node.cpp:34-39).      *)
ExitCompletes == request_exit ~> (node = "joined")
=============================================================================
