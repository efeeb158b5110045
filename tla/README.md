# Verification of the ESO-based NMPC controller for PX4

This directory holds TLA+ models of the software in `src/`, the TLC
configurations that check them on small instances, and proofs, checked by
TLAPS, of theorems that hold for every value of the constants.

## 1. The system

The repository has three parts: the flight software (`px4ctrl`), the offboard
nodes that fly trajectories (`cxr_egoctrl_v1`), and the lidar that gives the
odometry its data (`utils/livox_ros_driver2` on top of `utils/Livox-SDK2`).

A ROS node's callbacks run only inside `ros::spinOnce()`, so a single-threaded
node is a sequence of "run some callbacks, run the loop body once":
`px4ctrl_node`, `uav_control_node` and `trajectory_node` are of this kind.
`trajectory_cli`, the lidar driver and the SDK have threads.

| component | source | state | operations |
|---|---|---|---|
| flight state machine | `px4ctrl/src/PX4CtrlFSM.{h,cpp}` | `state`, `hover_pose`, `takeoff_land`, statics `last_u`, `last_trial_time` | `process()`: one of ~20 branches, then publish, land detector, flag reset |
| land detector | `PX4CtrlFSM.cpp:407-451` | `takeoff_land.landed`, three statics | `land_detector`, at every exit of `process()` |
| px4ctrl node | `px4ctrl_node.cpp`, `PX4CtrlParam.cpp` | where `main()` is | wait for RC, wait for the FCU, loop |
| inputs | `input.{h,cpp}` | `RC_Data_t`, `Odom_Data_t`, `State_Data_t`, ... with time stamps | one `feed` per topic |
| MPC controller | `MPCController.{h,cpp}` | `thr2acc_`, `P_`, `timed_thrust_`, `u_last`, parameters | `calculateControl`, `estimateThrustModel`, `resetThrustMapping`, `reconfigureCallback` |
| state observer | `NonlinearESO.hpp` | three estimates | `update`, `initialize` |
| trajectory CLI | `cxr_egoctrl_v1/src/trajectory_cli.cpp` | mode flags, `goto_stage`, hold point | menu commands (input thread), 50 Hz loop (main thread) |
| offboard tracking | `uav_control_node.cpp`, `cxr_egoctrl_v1.cpp` | `receive`, `stop_hold_active`, `offboard_hold_*` | callbacks, hold / stop / track loop |
| trajectory node | `trajectory_node.cpp` | `offboard_started`, its center | callbacks, 20 Hz loop |
| lidar driver: threads | `lds.cpp`, `lddc.cpp`, `driver_node.cpp`, `comm/semaphore.cpp` | a queue per lidar, two semaphores, the exit flag | store, poll and publish, shut down |
| lidar driver: frames | `comm/pub_handler.cpp`, `comm/ldq.cpp`, `lddc.cpp` | packets, points per lidar, rings | receive a packet, cut a frame, push, pop, fill a message |
| lidar driver: configuration | `call_back/livox_lidar_callback.cpp` | `set_bits`, `connect_state` | seven callbacks and their retries |
| SDK command layer, detection | `general_command_handler.cpp`, `mid360_command_handler.cpp` | `commands_`, `devices_` | send, answer, time out; detect, ask for the firmware, configure |
| SDK life cycle and network | `device_manager.cpp`, `parse_cfg_file.cpp`, `params_check.cpp`, `base/` | tables of lidars, `channel_info_`, sockets, descriptors | `LivoxLidarSdkInit`, `LivoxLidarSdkUninit`, a detection reply |
| SDK settings and codec | `command_impl.cpp`, `build_request.cpp`, `parse_lidar_state_info.cpp` | none of its own | setters, queries, pushes |
| SDK firmware upgrade | `upgrade/` | `fsm_state_`, `read_offset_`, `try_count_` | five requests, their answers and limits |
| SDK logger | `logger_handler/` | handlers, a queue and an open file, a directory | push, write, delete the oldest, destroy |
| without a model | `trajectory_viz.cpp`, `sim_rc`, `thrust_calibrate.py`, `LinearController`, scripts | see section 5 | |
| external | mavros, PX4 FCU, vehicle, pilot; lidars, network, file system | mode, armed; what a lidar holds; datagrams | accept or refuse, lose, answer |

How they interact. mavros feeds `px4ctrl` with the FCU's state, odometry, RC
channels and extended state; `px4ctrl` answers with attitude setpoints, and asks
for mode changes, arming and disarming by service calls the FCU may refuse. A
take-off or landing is asked for on a topic, a trajectory arrives as
`PositionCommand` messages, and `px4ctrl` publishes a trigger when commands may
start. `uav_control_node` is an alternative to `px4ctrl`, fed on `/position_cmd`
by `trajectory_cli` or `trajectory_node`. The lidar driver calls the SDK, which
calls it back from its own threads: data packets on the data thread, answers to
requests on the command thread or, when they are not answered, on any IO thread.

What is hard, and what makes each component correct:

- *State machine.* Requests are made once and their results ignored; what the
  code knows of the FCU is as old as the last state message; a request, an
  odometry sample and a timeout can meet in any order between two cycles.
  Correct: it never holds the vehicle without knowing the mode to give back,
  never takes off on what an earlier flight left behind, and gives the vehicle
  back only for the documented reasons.
- *Land detector.* Three static variables and an early return. Correct: a
  take-off starts fresh, a landing is declared on contact of this landing.
- *Inputs.* Edges are detected in `feed` and consumed in `process()`; several
  messages may be fed in between. Correct: an edge still pending is still true.
- *MPC controller.* A queue of timed samples, a clamped estimate, limits that
  depend on it. Correct: a sample is used once and at its age, limits are feasible.
- *Trajectory CLI and offboard nodes.* Two threads, partly locked; modes inferred
  from the commands. Correct: stop stops and stays, a sequence goes on, hold
  points are where the vehicle was when the hold began.
- *Lidar driver.* A semaphore tested without its lock, rings shared without one,
  a flag shared by all lidars, a destructor that joins sleeping threads. Correct:
  every packet is published once, in order, with its own time; no frame is left
  behind; the node ends.
- *SDK.* Any datagram may be lost, an answer may be faster than the bookkeeping
  of its request, callbacks of one lidar run on two threads, lidars turn up at
  any time, sockets are refused, and everything may be called again. Correct: a
  lidar is configured once and completely, upgraded without a gap, told where to
  send, heard there, and reported as it was asked; a log file is whole.

`PROJECT.json` lists every hazard at its line, with the properties that cover it.

## 2. Modules

| module | what it is |
|---|---|
| `RcInput` | `RC_Data_t`: the switches, their edges, the sticks' center bits, the message age |
| `PX4CtrlFSM` | the node: `process()`, callbacks, `main()`, and the FCU and vehicle around it |
| `FlightModes` | abstract specification: flight mode, belief on being landed, mode to give back |
| `MCPX4CtrlFSM`, `MCRc` | RC messages, next-state relations of the instances, liveness, documented claims |
| `PX4CtrlFSM_proofs` | theorems about `PX4CtrlFSM` |
| `ThrustMapping` | what `MPCController` keeps between cycles: queue of thrusts, thrust model, last control, limits |
| `MCThrustMapping`, `ThrustMapping_proofs` | its instance and documented claim, its theorems |
| `EgoControl` | the loop and the callbacks of `uav_control_node` |
| `TrajectoryCli`, `MCTrajectoryCli` | the two threads of `trajectory_cli`, the instance of a claim |
| `TrajectoryNode` | `trajectory_node` |
| `EgoStack` | `EgoControl` composed with `TrajectoryCli` and `TrajectoryNode` over `/position_cmd` |
| `EgoStack_proofs` | theorems about `EgoControl`, `TrajectoryCli` and their composition |
| `MCOffboard` | four systems of offboard nodes: the loop alone, the CLI alone, the two joined, the loop with the trajectory node |
| `LidarHandoff` | the wake-ups between the driver's threads and the shutdown |
| `LidarRing`, `LidarFrames`, `LidarFrames_proofs` | the ring of `ldq.cpp`; packets, frames, messages; their theorems |
| `FrameQueues` | abstract specification of the rings: a bounded queue of messages per lidar |
| `LidarLogger` | the firmware log |
| `LidarThreads_proofs` | theorems about `LidarHandoff` and `LidarLogger` |
| `SequenceLemmas` | facts about sequences and `FlattenSeq` that three of the proof modules share |
| `MCDriver` | the instance of the three: a behaviour follows one of them |
| `LidarCommands` | the SDK's requests and answers, extended by the two below |
| `LidarConfig` | from the detection of a lidar to `connect_state` Sampling |
| `LidarUpgrade` | the upgrade of a firmware |
| `LidarSdk_proofs` | lemmas on the steps of `LidarCommands`, theorems about `LidarConfig`, `LidarUpgrade` and `LidarSettings` |
| `MCSdk` | the instance of these two |
| `LidarNetwork`, `LidarNetwork_proofs` | Init and Uninit of the SDK, its sockets and tables, what a lidar is told and who hears it; theorems |
| `LidarSettings` | setters, queries, pushes and their codec |
| `MCInterfaces` | the instance of `MCSdk`, `LidarNetwork` and `LidarSettings`: a behaviour follows one of them |

### Correspondence with the code

*One action per branch.* `process()` is atomic: no callback runs inside it. The
exception is the loop at `PX4CtrlFSM.cpp:112-121`, which spins callbacks until
the switches are in place; it is a phase of its own, entered by `WaitForSticks`
and left by `SticksReady`. Every other action of `process` is one path through
the switch, and ends with `EndCycle`: publish (unless in MANUAL_CTRL),
land detector, clear the flags. The three exits of the code (`:322-330`,
`:332-350`, `:352-397`) are the cases of `EndCycle` and `Publish`.

| branch of `process()` | actions |
|---|---|
| MANUAL_CTRL `:58-147` | `EnterHover`, `EnterTakeoff`, `WaitForSticks`, `SticksReady`, `Reject`, `StayManual` |
| AUTO_HOVER `:149-192` | `ToManual`, `HoverToCmd`, `HoverUncontrolled`, `HoverToLand`, `Hover` |
| CMD_CTRL `:194-223` | `ToManual`, `CmdToHover`, `Cmd` |
| AUTO_TAKEOFF `:225-264` | `SpeedUp`, `Climb`, `TakeoffToHover` (each with `TakeoffRequests`) |
| AUTO_LAND `:266-316` | `ToManual`, `LandToHover`, `Descend`, `Idle`, `DisarmAccepted`, `DisarmRefused` |

*Time.* A time stamp is kept as its age in ticks, saturating just past the
largest value it is compared with, so that every comparison of the code has the
same outcome as on the unbounded clock. `elapsed` is the age of
`toggle_takeoff_land_time`, and is held at 0 in the states that do not read it.

*Static locals* (`last_u`, `has_last_u`, `last_trial_time`, `last_state`,
`time_C12_reached`, `is_last_C12_satisfy`) are variables: they outlive flights,
which is where the hazards are. `last_u = "none"` stands for `~has_last_u`,
`c12 = Off` for `~is_last_C12_satisfy`.

*Data.* An odometry sample is its speed class (below 0.1 m/s, up to 3.0 m/s,
above), whether the vehicle was in the air, and whether it was in the window
that ends a take-off. A setpoint is the kind of reference it was computed from.
`C12_satisfy` gives the values constraints 1 and 2 of the land detector can take:
both, for any reference that may be more than half a meter below a vehicle that is
still, in the air or on the ground, whether the vehicle follows it or not
(`BelowVehicle`). What cannot be below is a reference just taken from the sample it
is compared with, which is what `held_pose` records, and the climb of a take-off
below a vehicle on the ground, which is taken to be flat. They must hold only when
the ramp of a landing has gone below any ground (`RampTime`, 0 in the runs).
A switch channel is its position relative to its threshold:
below, exactly at, above.

*The FCU.* `fcu_mode` and `fcu_armed` are the FCU's own, `mode` and `armed` are
what the last state message said. A mode request sets `fcu_mode` or is refused,
an arming request likewise; a disarm request is refused in the air. The pilot
changes modes and arms at any time. A message of a topic may be delayed (it is
fed at any later moment) and lost (never fed), and callbacks run in any order.

*The MPC controller* (`ThrustMapping`). A cycle out of MANUAL_CTRL solves
(`Fly`), learns and solves (`LearnAndFly`), or does neither (`Idle`). `Engage` is
the cycle that takes over, with the reset of `MPCController.cpp:174-185`: the
model, `P_` and the last control, not the queue. Reals are counted in steps: a
thrust signal is one of `0..Full`, the thrust model is the signal that balances
gravity, a force is a signal over the model it was computed with. `Learn` pops
what has expired and uses the next sample if it is old enough (`:130-171`), `Cut`
is the limit of 100 (`:965-968`). `Solution` has the constraints of the first
step of the horizon on thrust and yaw (`:430-438`, `:874-892`): the range and the
rate of the thrust, in signals and in forces, and the yaw, which is
constrained both to the desired yaw and to the rate. If a control satisfies them
`Solve` picks any that does, since the optimum depends on data no guard reads;
if none does it picks any control at all, since the status is not looked at
(`:915`). `solved` records the last solve for the properties.

*The offboard loop* (`EgoControl`). The body of the loop is one step: `Released`,
`Wait`, `Stop`, `Track` and `LiftStop` are its paths, and each ends with
`EndCycle`, which decides whether the stop lasts (`:407-410`) and what error is
published. An acceleration setpoint is what it was computed from.

*The trajectory CLI* (`TrajectoryCli`). One step per access of a shared variable,
in program order: a menu command is the sequence of its stores, the main thread a
program counter. The mutex is taken by the input thread only and orders nothing.

*The trajectory node* (`TrajectoryNode`). Where on its curve a command is matters
to nobody: a command is around the center the node took, and moves unless the
trajectory is the hover. `EgoStack` gives each node its own view of odometry and
mode; the topic is a bounded queue that loses its oldest message.

*The driver's threads* (`LidarHandoff`). Each thread is a program counter, one
step per shared access: push, test of the queue, `GetCount()` without the lock,
`Signal()`. The point cloud and the IMU channel have nearly the same shape and
share only connection states and the exit flag, so a behaviour follows one.

*Frames* (`LidarFrames`). Of the many points of a packet the first and the last
matter; they are `Span` milliseconds apart. A packet carries the time of its first
point and by whose clock that is: its lidar's, if its time type is gPTP or GPS, and
else the host's at the moment it arrives (`pub_handler.cpp:265-275`). The two clocks
are independent, a lidar may change its time type from packet to packet, and the
flag `is_timestamp_sync_`, which all lidars share, is that of the last packet that
arrived, of points or of the IMU (`OnPointCloud`, `OnImuData`). The assumptions are that a
lidar's clock is not set back and that the points it stamps follow each other; of
what arrives within one millisecond nothing is assumed. `TakePacket` is one round of
`RawDataProcess`, `CheckTimer` cuts frames in its two modes, with the unsigned
difference of `:143-144`, `FillSlot` and `MoveWriteIndex` are the two halves of
`QueuePushAny`, `CopySlot` and `MoveReadIndex` those of `QueuePop`. The indices of
`LidarRing` wrap at `IndexWrap`, the code's at 2^32. `Message` is what
`FillPointsToCustomMsg` makes of a frame; its 32-bit `offset_time` wraps at
`OffsetWrap`.

*The command layer* (`LidarCommands`). Two threads run callbacks: the command
thread, which reads answers and looks at time-outs, and one that stands for the
other IO threads and does only the latter. `GeneralCommandHandler::SendCommand`
sends before it remembers (`adding`), so an answer may find no command. A
datagram comes before its command expires or not at all. A `sendto` may fail
(`SendAfter`, `SendNextFails`): the callback is then called on the spot, with
`SendFailed` and no answer (`unsent`, `Recall`), and the command is remembered
all the same (`general_command_handler.cpp:691`), so that it expires later and the
callback runs once more. Where a callback looks at nothing but an answer
(`Indifferent`), a failing `sendto` is the same as a lost request.

*Configuration and upgrade.* A callback on the command thread is one step with the
requests it sends, unless one of them fails; from the other thread the requests go out one by one
(`todo`). `count`, the static of `QueryFwTypeCallback`, is shared by the lidars as
in the code. A setting that cannot be sent ends the program, because its callback
reads the answer there is none of (`Crashed`, `livox_lidar_callback.cpp:152`). The
upgrade's table of events is the code's, and the lidar keeps the blocks it was
sent. `FsmEventHandler` is several steps: the new state and the requests of its
event (`livox_lidar_upgrader.cpp:94-108`), then the call of the observer, which
reads `fsm_state_`, `handle_` and `observer_` (`:109-117`; `Observe`). In between the thread
is in `observing`, and the thread of the destructor may see the new state.

*The logger* (`LidarLogger`). The command, writing, deleting and destroying
threads; a file is its name and the messages it holds, and `link` is the name an
open file has in the directory, which the deleting thread may take away.

*The network* (`LidarNetwork`). One host address, so that a key of
`channel_info_` is a port. A socket is identified by the call of Init that made it;
`polled` are the descriptors of loops that run. A file is a sequence of
entries, one per `host_net_info`. A lidar answers at once: what requests do on
the way is the business of `LidarConfig`. `past` remembers what makes `Heard`
inapplicable.

*Settings* (`LidarSettings`). A value is the sequence of its members: a byte is cut
at 256, a bool is 0 or 1, and what has 32 bits in the code is cut at `Word`
(`Member`, the casts of `command_impl.cpp`); a request is taken or lost. `asked` is
what the user wanted, under the names of the report, and `report` the last
callback.

## 3. What is checked

| run | module, specification | shows |
|---|---|---|
| `no_rc` | `MCPX4CtrlFSM`, `Spec` | px4ctrl without an RC: the safety properties and the refinement of `FlightModes`, over every interleaving of callbacks, cycles, time, FCU and pilot |
| `landing` | `MCPX4CtrlFSM`, `LandingSpec` (fair) | landings and take-offs come to an end |
| `thrust` | `MCThrustMapping`, `FairMapSpec` (fair) | the MPC controller's state, over every order of phases, resets and reconfigurations |
| `offboard` | `MCOffboard`, `OffboardSpec` (fair) | the tracking loop, the CLI, the two composed, and the loop with the trajectory node |
| `driver` | `MCDriver`, `DriverSpec` (fair) | the driver's hand-over and shutdown, its frames, the SDK's log |
| `rc` | `MCRc`, `RcSpec` | px4ctrl with an RC |
| `sdk` | `MCInterfaces`, `InterfacesSpec` (fair) | detection and configuration of a lidar, or the upgrade of its firmware, with lost datagrams; or the codec; or the life cycle of the SDK |
| `claim_*` | | five statements of comments, menus and parameter descriptions that the code does not keep |

A run that instantiates several components chooses in its initial state which of
them moves; the others keep a value no step of theirs starts from. Nothing is
shared between them, so each is checked as it would be alone.

Properties, and what it takes to break them.

*px4ctrl*

- `BeforeModeKnown`: whenever the software holds the vehicle it knows the FCU
  mode to restore. On the take-off path OFFBOARD is requested by a timer that is
  independent of the one that ends the take-off; were the delay not shorter than
  the speed-up, or a restore of OFFBOARD recorded, a hand-back would be empty.
- `FreshDetector`: what the detector says in a take-off it says on contact of that
  take-off: the contact timer is not older than it, and landed takes longer than
  `TIME_KEEP_C`. The timer is a static that the early return of `land_detector` does
  not touch. (That there may be contact in the air at all is claim 1.)
- `ContactOfThisLanding`: the contact timer of a landing is not older than the landing.
- `RcFreeHandBack` (action property): without RC, the vehicle is given up only on
  lost odometry, or landed and disarmed.
- `FlightModesSpec`: the state machine implements `FlightModes`, under the
  mapping `give_back <- before_mode`. The abstract specification has eleven
  transitions; among others it says that the belief on being landed is withdrawn
  only on taking over (in flight it may be gained, never lost), and that a take-off
  starts from the ground as the detector believes it.
- `CommandEdgeKept` (action property): a pending edge of the gear switch stays in
  command mode, whatever the hover switch does, with one exception: a message with
  the switch exactly at its threshold (channel 6 at 1750) ends command mode,
  because that is `gear > 0.75`, but does not clear the edge, because that takes
  `gear < 0.75` (`input.cpp:72-83`). The edge still publishes the trigger (`:180`).
- `LandCompletes`, `TakeoffCompletes` (liveness): a landing ends once the
  vehicle is at rest, a take-off ends once it stays at height.
- `QueueInv`: the queue of commanded thrusts stays ordered by age and within its
  limit, although it is pushed in every flight phase, popped in two and never reset.
- `SolveInv`: the last control was solved with the thrust model in force, and lies
  within the limits it was solved with. It fails as soon as learning and solving
  change places. `InfeasibleHasCause` (action property): a solve has no
  solution only after one without, a reconfiguration, a moved thrust model or a
  jump of the desired yaw; the first solve after taking over only if
  hovering itself is outside the limits.
- `KeepsLearning` (liveness): while px4ctrl hovers and its cycles are no further
  apart than the window of 35 to 45 ms is wide, samples are used again and again.

*Offboard nodes*

- `HoldFlown`: what is flown during a stop is the hold point.
  `NoStaleAcceleration`: an acceleration setpoint is computed in the cycle that
  publishes it, although one path of the loop publishes the setpoint of an earlier
  cycle.
- `StopHolds`: a stop that no sequence overrides ends with the CLI publishing the
  hold point. `SequenceCompletes`: a sequence goes on to its second point.
- `StopIsFlown` (of the composition): a stop typed at the menu ends in a hold of
  the controller that stays, although commands of a circle are on their way.
  `TrajectoryIsFlown`: a trajectory is flown around its center as long as the
  controller is in OFFBOARD, wherever it came from; the hover ends in a hold.

*Lidar driver*

- `NoLostWakeup`: between the push, the unlocked `GetCount()`, `Signal()` and
  `Wait()`, no item of a sampling lidar is left behind by a sleeping thread.
  `EventuallyPublished`, `ExitCompletes` (liveness): a frame is published or the
  node is shutting down; the destructor returns, because the lidars keep sending.
- `EachPacketOnce`: at every moment the packets of a lidar, joined from the
  messages over the ring, the frame and the handler to the raw queue, are those
  that arrived without those of frames refused by a full ring, each once and in
  the order of arrival. `NoTornSlot`: the slot being written is never the
  one being copied. `OffsetsFit`: a message has the points of the lidar it names;
  `timebase + offset_time` is the time of each point, from the first of the first packet
  to the last of the last, if one clock stamped the frame and it is no longer than 32
  bits of nanoseconds; and a message does not begin before the one ahead of it ends,
  by the lidar's clock, or before the last packet of that one began, by the host's.
  The three conditions are needed, see below.
- `FilesSound`, `DeletesOldest`, `DestoryReturns`: a log file holds messages of one
  file in their order (in the run there is one file, so that this is about its order and
  gaps; that two files are never mixed is `FilesAreSound`, for any number of them);
  the deleting thread never removes the file being written, nor a newer one than it leaves; `Destory` comes back unless an old message makes
  the writer loop.

*SDK*

- `CalledOnce`, `SamplingIsConfigured`, `BitHasRequest`: the driver hears of a lidar
  once; its data is published only when it has read every setting of the
  user's file; every bit still set has a request that is being sent or waited for.
  `EventuallySampling` (liveness): every lidar with settings comes to be published,
  whatever is lost and if a `sendto` fails, or the program has ended (`Crashed`).
- `NoBlockMissing`, `OneRequestDrives`, `SuccessMeansFlashed`, `UpgradeEnds`: the
  lidar has every block when the transfer is declared complete; exactly one
  request drives the upgrade, and none is left in a final state, so that nothing
  calls back into a destroyed object; success is told only of a flashed lidar; an
  upgrade ends, whatever is lost or cannot be sent. The first three hold as long as no
  `sendto` fails, which they say; `UpgradeEnds` holds in any case.
- `ReportedAsAsked`: what a user is told about a lidar is what was last asked of
  it, through setters, casts, keys, layouts, parser and names, for every argument that
  survives (`Survives`: not 256 in an address, no mounting offset below zero, no number
  that is too wide for its byte or bool).
- `Heard`: a lidar that was told where to send is heard there, for every plain file
  (`PlainFile`: a data port is in one group and is neither another port of the host
  nor one of the SDK's own; a HAP's ports are the constants), found at any time,
  after any earlier calls that left nothing behind. `SocketsClosed`: after Uninit no socket stays open but the detection
  sockets of a failed Init. `EveryoneIsTold`: when detection replies change nothing
  any more, every expected lidar has been told; it says `~ENABLED DetectionReply(l)`,
  which makes it an invariant in place of a liveness property.

Claims that the code does not keep (each `claim_` run ends in a violation):

1. `LandingFromAirNotLanded`: contact is computed from the reference and the
   measurement alone, and landed is never withdrawn in flight. A vehicle the pilot
   lifts and holds above the reference of a take-off that has begun counts as
   landed after three seconds, and so does one commanded onto the ground and up
   again: LAND then idles the motors in the air.
2. `SecondAfterDwell`: a sequence entered while another dwells can go to its
   second point at once, because both threads write `goto_stage`.
3. `LimitsKept`: a control is flown although the solve it came from has no solution
   within the limits. In the run hovering is within them and nothing is
   reconfigured: the desired yaw is further away than the yaw rate reaches.
   (`InfeasibleHasCause` names the other ways there.)
4. `GotoIsFlown`: a goto never moves the vehicle. Its commands have zero velocity
   and acceleration, which `uav_control_node.cpp:307` takes for a stop.
5. `SticksCenteredAtTakeoff`: `check_centered` reads `ch[0]` four times, so a
   take-off starts with the pitch, throttle or yaw stick deflected.

### Read off the models

Facts that writing the models showed, without a run of their own.

*px4ctrl and offboard.* The diagram at `PX4CtrlFSM.cpp:20-43` lacks the edge from
AUTO_LAND to AUTO_HOVER that `:275` takes. A vehicle started by hand still counts
as landed, so a take-off is accepted in the air (`:102`). When the FCU refuses to
leave OFFBOARD, px4ctrl is in MANUAL_CTRL and does not ask again (`:154`). After
re-engaging without a new odometry sample the first setpoint is the last one of
the previous flight (`last_u`, `:333`). A trigger armed by a take-off survives
leaving AUTO_HOVER (`:255`). A menu command entered between the two loads of the
CLI's flags publishes a command nobody filled in (`trajectory_cli.cpp:242`). A stop
entered after a sequence is not flown: nothing ever ends a sequence and its commands win
(`:173`, `:223`), which is why `StopHolds` and `StopIsFlown` speak of a stop that no sequence overrides.

*Driver.* `EnableLivoxLidarImuDataCallback` returns on the null answer of a
time-out before it comes to the branch that would retry. A frame that spans more
than 4.29 s (a lidar that falls silent in the middle of one) has `offset_time`s
that start over. A frame whose packets were stamped by both clocks, because the lidar
was synchronised or lost its master in the middle of it, has `offset_time`s that say
nothing, and its message may begin before the end of the one ahead; if the frame was
begun by a clock that is ahead of the one that stamps its last point, the unsigned
difference of `pub_handler.cpp:144` is huge and the frame is cut at the next multiple of
the interval, however short. Packets that reach the host in a burst get nearly
the same time, so that frames it stamps overlap by up to the length of a packet.

*A failing `sendto`* (`mid360_command_handler.cpp:243-249`). The callback runs at once
and again when the remembered command expires, so that what it sends again is sent
twice: the chains of retries of the firmware type and of the work mode fork. In an upgrade
both chains may be answered, `read_offset_` advances twice and a block is left out; a
second answer to the reboot calls back into an object that the first has led to
being destroyed, or, after `Idle`, a second chain starts the upgrade again. The
callback of a setting reads the null answer and the program ends
(`livox_lidar_callback.cpp:152`).

*The end of an upgrade.* `FsmEventHandler` sets a final state
(`livox_lidar_upgrader.cpp:97`, `:103`) before it is done with the object: it reads `fsm_state_`,
`handle_` and `observer_` at `:113-116`. The destructor, which polls `fsm_state_` on
another thread and takes no lock, may have ended by then.

*Codec.* `IpToU8` accepts 256, which wraps to 0. A negative install offset x, y or
z is written out as 2^32 minus its size (`parse_lidar_state_info.cpp:480-485`). An
enumeration is cut to a byte, so that 258 asks for what 2 does
(`command_impl.cpp:165`, `:186`, `:458`, `:596`), and dual emission is on for any number but 0 (`:207-211`). The
keys of WorkModeAfterBoot, ForceHeatEn, LogParamSet and CurGlassHeatState are not
parsed. The result of `Parse` is ignored, so a malformed push calls the user
with an empty text. Changing the port of the state information stops all
reports, because `OnCommandCmd` compares with a constant. `ParseGPRMC` reads the
tenth field where nine are enough.

*Network.* `Init` of view mode never sets `sdk_framework_cfg_ptr_`, which the
first detection reply reads (`general_command_handler.cpp:379`); after a failed
Init of view mode a following Init with a file leaves `is_view_` TRUE, and its
lidars are never told. A file that cannot be opened is parsed from a null `FILE*`
(`parse_cfg_file.cpp:46-51`). A Mid-360 in a multicast group sends its state
information to the group, while the SDK listens on the host address. Of two groups on
one port only the first gets a socket. The lidar-side ports of a HAP's entry are
ignored by the requests. A lidar listed under the wrong type is never told. A
failed Init leaves `channel_info_` behind, so that a retry adds no descriptors.
`is_stop_detection_` stays TRUE after `Destory`, and is reset only after the new
thread has started. `GeneralCommandHandler::custom_lidars_cfg_map_` is never
cleared: after an Init with another file a lidar is told its old configuration.
`GeneralCommandHandler::Destory` declares a local `commands_` (`:113-114`) where it
means the member, and clears tables that callbacks may be reading. An IO loop
refuses descriptors beyond its 49th silently, and every detected Mid-360 of an
unlisted address adds a broadcast socket for each lidar there is.

*HAP.* `HapCommandHandler::SendCommand` puts a command into `commands_` before it
sends it, and `GeneralCommandHandler::SendCommand` does so again afterwards: an
answer that comes in between is followed by a call-back for a time-out.
Unlike a Mid-360, a HAP that refuses its configuration is reported to the driver.

*Logger.* A message older than the last is skipped without being popped, and the
writing thread loops (`logger_handler.cpp:187`). A lidar that pushes before it is
detected gets a null handler, which is used; `handlers_` is shared without a lock.

### Bounds

Timeouts and delays of `px4ctrl` are 0 to 2 ticks. That is enough: a guard only
asks whether a limit has been passed, so each timer needs the classes before, at
and after its limit, and the order of two limits is kept where the code relies on
it (`OffboardDelay < MotorsSpeedup`, 1.0 s against 3.0 s). `landing` leaves out the
samples above 3 m/s, and those of a vehicle that moves at the take-off height: the
still ones there end a take-off as well. `no_rc` takes
`OffboardDelay = 1`, `MotorsSpeedup = 2`, `TimeKeep = 1`, so that there is a cycle
between the steps of a take-off and the contact has to hold over several cycles.
One FCU mode other than OFFBOARD is enough for all but the identity of the mode
restored. In `rc` there are two pilots, told apart by the reboot switch:
one flies by hover, command and landing, and also moves the gear switch exactly to
its threshold; one takes off and sees only samples of a
vehicle that keeps still. Without this the run takes hours; what is lost
are TAKEOFF and LAND requests in one flight with an RC, which `no_rc` has without one.

`thrust`: signals in thirds, the hover clamp at 2 and 3 thirds, so that a configured
hover percentage of one third is outside the clamp as 0.1 is; a window of two
ticks (3 and 4), cycles one or two ticks apart or further, and a queue limit of
3, so that the queue is cut, expires and is used. Two yaws are out of reach of each
other and two limits exclude each other's controls.

`offboard`: three places, so that a setpoint, a hold point and a position can all
differ. The CLI alone gets any two menu commands and a stop; joined to the
controller, a circle and a stop once it is in OFFBOARD.

`driver`: two lidars and queues of two. Frames: one lidar sends five packets, each a
millisecond long (`Span`), into a ring of two with indices that wrap at 4, so that the ring
fills and wraps; it is stamped by the host until, once, it is synchronised, so that frames
of both clocks and of one are cut. Another is unknown and unsynchronised, so that the
shared flag changes between a packet and its check, as it does by the data of an IMU.
The lidar's clock ends at 9 and the host's at 4, the interval is 2, and a frame can be
longer than `OffsetWrap`. `Sending` (in `MCDriver`) says when: the packets of a lidar follow
each other or leave a gap, what changes only the flag does so when it is about to be read, and
the host's clock goes on between two packets. The theorems have none of this. Log: one file of four
messages beside one of an earlier program, and one datagram lost, doubled or late.

`sdk`: one lidar with two settings and one other request, of which there
are three to choose from; two sequence numbers per request; limits of 0 retries of the
firmware type, 2 of a request of the upgrade and 2 of its progress. Two blocks of
firmware, a first and a last. One `sendto` fails: of an upgrade, any but the one
that starts it; of a configuration, any of a lidar in application mode with one setting at
most, followed in its work mode, where all the callbacks that mind are met (`FailsHere`).
Codec and life cycle: each setter once, with arguments that survive and some that do not
(a mode of 258, a dual emission of 1), a second call for those that share a key or a
layout; a HAP and a Mid-360, files with one entry or one of each type, with and
without a group, and the files a user may get wrong; two calls of Init, one
refused socket. A loop holds 9 descriptors where the code's holds 49: the sockets
of two lidars fit, as they do in the code.

A run may stop where the system may: `offboard` after `quit`, `driver` when the
node has ended, the bounded log is written or the program has crashed, `sdk` after
an upgrade or the last call of Init. They say `CHECK_DEADLOCK
FALSE`; the others check for deadlock. The theorems have no such bounds.

### Fairness

`LandingSpec` assumes weak fairness of `process` (the loop of `main()` runs at
`ctrl_freq_max`), of `Tick` (time passes) and of `FeedExtendedState` (mavros
publishes it periodically), and strong fairness of `DisarmAccepted`: a request
that is repeated every second to an FCU on the ground is accepted in the end.
Nothing is assumed of odometry, of the requests for OFFBOARD and arming, or of
the pilot, who in this run requests take-offs and landings and does nothing else.
`LandCompletes` adds the hypothesis that the vehicle comes to rest,
`TakeoffCompletes` that it stays in the window of the take-off height.

`FairMapSpec`: px4ctrl goes on running cycles and time passes; that cycles are
close together is a hypothesis of `KeepsLearning`, as nothing in the code
guarantees it.

`OffboardSpec`: both threads of the CLI run on, `spinOnce` returns, because it
calls what was queued when it started (strong fairness of `Sleep`), time passes,
the loops of the nodes run, and messages are delivered. Nothing is assumed of the
pilot or of odometry; the hypotheses of the properties say "as long as the mode
stays OFFBOARD".

`LidarHandoff`: the threads are scheduled, the lidars keep sending, and
(`[]<>`) a polling thread that empties a queue comes to its end, since publishing is
faster than a frame interval. Without that its inner loop could go on for ever.
`LoggerFairness`: each thread goes on; a waiting one is woken, or wakes after 600 s.

`LidarConfig`: datagrams are lost, but a request that is sent again and again is
read at last, and so is its answer (strong fairness); the IO threads look for
expired commands every 100 ms, detection replies come every second. Two
coincidences end at some time (`<>[]`): an answer that beats `AddCommand`, which
follows `sendto` at once while an answer takes a round trip, and a lost work mode,
whose callback puts the command thread to sleep for a second. A callback that is
called because a `sendto` failed comes to its end (`Refused`); nothing is assumed of a program
that has crashed. `LidarUpgrade` assumes nothing of the network, since its limits end
the retries, only that its threads go on, through the call of the observer
(`Observe`) and that of a request that could not be sent (`RequestRefused`), and that a
lidar does not say for ever that it is busy.

## 4. What is proved

`PX4CtrlFSM_proofs` proves, for all constants that satisfy `RcAssumption`,
`TimeAssumption`, `ParamAssumption` and `ModesAssumption`:

| theorem | statement |
|---|---|
| `TypeCorrect` | `Spec => []TypeOK` |
| `FlightSafety` | `Spec => []FlightInv` |
| `BeforeModeIsKnown`, `DetectorIsFresh`, `ContactIsOfThisLanding` | three invariants of section 3 |
| `ThrustIsDefault`, `ArmingIsOrdered` | no take-off flies on the thrust model of an earlier flight; arming is never requested before OFFBOARD |
| `RcFreeHandsBack` | `Spec => RcFreeHandBack` |
| `CommandEdgesAreKept` | `Spec => CommandEdgeKept` |
| `ImplementsFlightModes` | `Spec => FlightModesSpec` |

The assumptions are those of the code: positive timeouts, the delay of the
OFFBOARD request shorter than the speed-up of the motors, options that
`config_from_ros_handle` switches off when the option they need is off, and
neither OFFBOARD nor the unknown mode among the modes to restore.

`FlightInv` is inductive together with the types. The five invariants alone are
not: that a take-off starts fresh needs `last_state = state` (the detector was
told of the state `process()` left, at every exit), that the recorded mode is a
mode needs that no cycle runs before the FCU was heard of (`phase` and `mode`),
that it is recorded in time needs the two take-off flags, and the hand-back
without RC needs that the RC object still has its initial values. Each step of the
proof takes one action; what all of `process()` shares is proved once, of
`EndCycle` (`EndCycleType`, `EndCycleEffect`, `CycleInv`).

`ThrustMapping_proofs` proves, for every window, queue limit, length of a cycle,
number of steps, clamp, hover percentage and set of limits that satisfy
`QueueAssumption`, `HoverAssumption` and `LimitsAssumption`:

| theorem | statement |
|---|---|
| `QueueIsSound` | `MapSpec => []QueueInv` |
| `LastControlIsSound` | `MapSpec => []SolveInv` |
| `NothingExpiredIsKept` | `MapSpec => NoBacklog` |
| `InfeasibleIsExplained` | `MapSpec => InfeasibleHasCause` |

`QueueInv` and `SolveInv` are inductive together. The order of the queue is what
makes popping from the front complete: once the front has not expired, nothing
behind it has (`NoBacklog`: a cycle that learns leaves no expired sample). The lemmas say of each operation on the queue (a tick,
popping, using, pushing and cutting) that it preserves order and length, and of
`Solve` what it leaves behind. `InfeasibleIsExplained` gives a witness: the
last control itself, which is within its own rate limit and, by `SolveInv`,
within the range if nothing changed.

`EgoStack_proofs` proves of `EgoControl`, for any set of places, `EgoIsSafe` (`EgoInv`),
`HoldIsFlown`, `AccelerationsAreFresh`, `HoldsAreSteady` (a hold keeps its point)
and `ErrorsAreOfTheGoal` (the published error is of the published setpoint, except
in the cycle that lifts a stop). `HoldFlown` alone is not inductive: it needs that
a stop is in force only after a command and with a hold point, and that no hold
point exists before the loop has started.

Of `TrajectoryCli` it proves `CommandsAreInitialised`: whatever the order in which
the two threads access their variables, no command is computed from a center or a
hold point that nobody has stored. The invariant (`CliInv`) says of each flag that
announces data that the data was stored before it: by a store that is done if the
flag is up, by an earlier store of the menu command if it is still to be raised;
and of the main thread that what it is about to use was stored when it looked.

Of the composition, for any points, menu, dwell time and size of the topic's queue
that satisfy `StackAssumption` (the nodes' positions are of one kind, and that no
memory was written is not a position):

| theorem | statement |
|---|---|
| `StackRunsController`, `StackRunsCli` | `StackSpec => EgoSpec`, `StackSpec => Cli!CliSpec` |
| `StackIsSafe` | the invariants and action properties of the two hold of the two together |
| `TrajectoryRunsController`, `TrajectoryIsSafe` | the same of `EgoControl` behind `trajectory_node` |

That the stack implements the controller needs the CLI's own invariant: a message
on the topic is a command of a place because a command is published with all its
coordinates filled in.

`LidarThreads_proofs` proves of `LidarHandoff`, for any number of lidars and any capacity,
`TypeCorrect`, `OneTokenHolds` (`Spec => []OneToken`: the semaphore never holds more
than one token, although `GetCount()` and `Signal()` are not atomic) and
`NoLostWakeupHolds`. `NoLostWakeup` is inductive with the types: a storing thread
past its push will signal or has seen a token; a token taken starts a round that
passes every lidar, and a lidar passed over is in `skipped`. Its assumptions are
`NAssumption` and `CapacityAssumption`, both numbers positive.

The same module proves of `LidarLogger`, for any number of files and of messages
in a file (`LoggerAssumption`: at least one file, and the message that creates a
file is not the one that ends it), any cache size and any number of datagrams
lost, doubled or delayed:

| theorem | statement |
|---|---|
| `LogIsSound` | `LoggerSpec => []LoggerInv` |
| `LogTypeCorrect` | `LoggerSpec => []LoggerTypeOK` |
| `FilesAreSound` | `LoggerSpec => []FilesSound` |
| `OldestIsDeleted` | `LoggerSpec => DeletesOldest` |

`LoggerInv` adds to `FilesSound` what its steps need. That a file stays in order
needs that the last message of the open one is not later than `trans_index`
(`ContentInv`). That a file shown is whole needs two things: that while nothing
went wrong the messages on their way (the command thread, `queue_`, the batch)
follow each other and begin with the one the open file expects (`ChainInv`),
and that the deleter cannot have taken the open file (`WholeInv`). The latter,
and `DeletesOldest`, need that the only hidden file is the open one, that it is
the newest, and that what was listed is older than what is left (`CycleInv`).

`LidarFrames_proofs` proves, for any number of lidars and packets, any interval,
any wrap of the offsets and any ring that satisfies `FramesAssumption` and
`RingAssumption` (the mask is a natural number, and the size of the ring goes into
the wrap of its indices at least twice, as a power of two goes into 2^32):

| theorem | statement |
|---|---|
| `FramesAreSound` | `FramesSpec => []FramesInv` |
| `TypeCorrect` | `FramesSpec => []FramesTypeOK`, with a ring never fuller than its places |
| `SlotsAreApart`, `OffsetsAreRight` | `NoTornSlot` and `OffsetsFit` of section 3 |
| `PacketsKeepTheirOrder` | `FramesSpec => []EachPacketOnce` |
| `RingsAreQueues` | `FramesSpec => FrameQueuesSpec` |

`EachPacketOnce` joins sequences with `FlattenSeq`, a recursive function. What it
yields is proved without the library's induction theorems: if a sequence of
sequences had a prefix whose join does not have the elements, or the order, of its
parts, there would be a shortest one (`LeastNumber` and what follows it in
`SequenceLemmas`). `FramesInv` has four parts. The types; at the rings, that the thread
that pushes has found its ring not full and filled the slot at `wr_idx`, and that
a ring being popped is not empty (`NoTornSlot` follows, once the arithmetic
of indices that wrap is done: `DivMod` to `RingHolds`); of the frame in
hand, that there is at most one of a lidar; and for each lidar the order along
its way. `OffsetsFit` needs that order, clock by clock (`Before`, `Follow`): of two packets of a
lidar stamped by the same clock the later one is not older, and by the lidar's clock it begins
where the other has ended or after. Nothing is assumed of how packets of the two clocks
are mixed: a frame of which one clock stamped all packets is the only one the
offsets of which are claimed.

`RingsAreQueues` is a refinement. `FrameQueues` knows no slots, indices or
threads: a message enters the queue of its lidar if there is a place, and the
oldest leaves it. The mapping (`ToPublish`) is what the ring holds beyond a slot
that is being copied, as the messages that will be made of it. A frame enters
with the step that moves `wr_idx` (`EnterStep`), not with the one that fills the
slot (`FillHides`); a message leaves with the copy of its slot (`LeaveStep`), not
with the step that moves `rd_idx` (`PopHides`), which only gives the slot back. So
whoever looks at the messages alone cannot tell two threads at a ring from one queue.

`LidarSdk_proofs` has first the lemmas on the steps of the command layer that the
two modules above it share: what is waited for before and after a step, and that
there is always a free sequence number to pick (`MaxSeqAssumption`).

Of `LidarUpgrade` it proves, for a firmware of any length, any limits that
satisfy `UpgradeAssumption` and any number of failures of `sendto`, `UpgradeIsSound`
(`UpgradeSoundness`: the types, and `UpgradeInv` as long as no `sendto` has failed),
`UpgradeTypeCorrect`, `NoBlockIsMissing`, `SuccessIsFlashed`, `OneRequestDrivesIt` and
`NoCallbackAfterDestruction`. The last is an action property (`OnlyObserversRemain`): once
the upgrader is destroyed no request or answer calls back into it, although they
hold a plain pointer to it, and the one step that is left is that of a thread which
was in `FsmEventHandler` when the object went, with `observing` saying which. That there is
such a step is the hazard of `livox_lidar_upgrader.cpp:113-116`, and no theorem denies it.
All but the types hold as long as no `sendto` fails, which their statements say.
`OneRequestDrives` is not inductive: that a state has one request needs
that it is the request of that state and of the current block, and that no
answer on its way has lost its command; `NoBlockMissing` needs that an
answer is a promise of the lidar.

Two more theorems are what `UpgradeEnds` says short of fairness. `EveryStepAdvances`
(`UpgradeSpec => UpgradeAdvances`): as long as no `sendto` fails, every step makes a
bounded lexicographic measure better (the stage of the upgrade, the block, the retry, the steps a request still
has to take through the queue, the table and the air, the observers still to be
called), but for an answer of the lidar that asks for patience. `NobodyWaitsForNothing` (`[]UpgradeGoesOn`): again as long as no `sendto` fails, until
the object is destroyed a step of the SDK's own threads is enabled, its
guards written out, so that the destructor, which waits without a limit, is not
left with nobody to end its wait. The measure needs that the one request has one
datagram (`OneDatagram`). What is left to TLC is that fair threads do take
those steps, that a lidar does not ask for patience for ever, and what a failing
`sendto` does.

Of `LidarConfig` it proves, for any number of lidars, any settings, any
limit of the retries and any sequence numbers (`SettingsAssumption`,
`TryLimitAssumption`), `ConfigIsSound` (`ConfigInv`), `TypeCorrect`,
`DriverIsCalledOnce`, `SamplingIsAfterConfiguration`, `BitsHaveRequests` and
`ChainsDoNotFork` (`RetriesDoNotFork`: as long as no `sendto` fails, every request but
that of the configuration, which each detection may send again, is outstanding at
most once, so that two chains of retries never write the same setting). All but the
last hold for any number of failures of `sendto`.
`ConfigInv` says of each setting that it waits in `set_bits` with a request or has
been read by the lidar, and of each answer on its way that the lidar has read what
it answers; that nothing is asked of a lidar before its detection keeps the
driver from being called twice. `RetriesDoNotFork` needs besides (`OnceInv`) that
a request that sleeps in `WorkModeChangedCallback` is outstanding nowhere, and that
`LidarInfoChangeCallback` asks only for what was never asked of that lidar;
`RequestsAreSingle` states that invariant (`SingleInv`).

`SomebodyGoesOn` (`[]NobodyIsLeftOff`) and `NoStepTakesBack` (`NeverBack`) are what
`EventuallySampling` says short of fairness: a lidar of the user's file whose data
is not published yet is undetected, or has a request outstanding that goes on with
it, or is taken further by its next detection, whatever was lost, refused, not sent or
answered too early; and no step forgets what is known of a lidar, waits again for a
setting it has taken, or stops its data. `NobodyIsLeftOff` is not inductive: it
needs (`LeftInv`) that a lidar whose firmware type is unknown is being asked for it
and a known one is not, that only a known one is sent its configuration, and that
a lidar which has taken it is known to the driver and has a setting to take or
sends its data.

Of `LidarSettings` it proves, for calls in any number and order, with any arguments
their types admit and any width of a word (`SettingsConstants`: the arguments are as
the C++ types allow, a word is even and wider than a port number), `SettingsTypes` (the lidar
holds a value for every key, only names of the report are asked for, and the report of a
push has a value under each name of a key the parser knows and no other) and
`SettingsReported` (`SettingsSpec => []ReportedAsAsked`). The invariant is not about
the push but about the lidar (`SettingsInv`): what was last asked for is held under a
key of the name it was asked under, and what is measured is held as it was
measured. From this the push follows, because no two keys share a number or a
name, because it carries every key once, and because each layout of the parser reads
what its writer wrote, the signed ones by way of the two halves of a word. That
every setter writes the one key it is meant to, and in the layout it is read with,
is proved call by call (`CallWrites`); a reset forgets what was asked, and leaves
what is measured. The arguments that do not survive (`Survives`, section 3: 256 in an
address, a mounting offset below zero, a number too wide for its byte or bool) are
excepted: after such a call nothing is claimed of that setting until the next.

`LidarNetwork_proofs` proves, for any configuration files, lidars, sizes of the
loops, refusals and number of calls of Init (`NetworkConstants`: the entries of a
file are a sequence, its lidars are known and of one of the two types):

| theorem | statement |
|---|---|
| `NetworkIsSound` | `NetworkSpec => []NetworkInv` |
| `SocketsAreClosed` | `NetworkSpec => []SocketsClosed` |
| `HearingIsSound` | `NetworkSpec => []HearingInv` |
| `LidarsAreHeard` | `NetworkSpec => [](Fits => Heard)` |
| `TellingIsSound`, `NetworkTypeCorrect` | `NetworkSpec => []TellingInv`, `NetworkSpec => []NetworkTypeOK` |
| `NobodyGetsStuck` | `NetworkSpec => []NobodyIsStuck` |

`SocketsClosed` speaks of the moment after Uninit, which closes the sockets of the
last call; it needs that a socket of an earlier call was left by one that was
refused a socket. `NetworkInv` adds that the keys of `channel_info_` and the
descriptors of the loops are of open sockets.

`HearingInv` is what `Heard` needs, and holds through steps of which `Heard` does not
speak. `FileInv`: the four tables of lidars, and what `GeneralCommandHandler`
keeps after Uninit, say of a lidar what the file says of it or of its type.
`PortsInv`: the key of every port is of a socket of this call, bound to the
address that each entry with that port wants (`RightFor`), and every lidar of the
tables has a key for its ports. `ToldInv`: a lidar told by this call was told what
its table says, or this host's address in view mode, where the ports it had been
told before were plain. The heart is `ListCreated`: the sockets are created one
after the other and a port that has a key is skipped, whoever it was created for,
so that every need must be right for every entry (`NeedRight`); this is what
`PortsAgree` is for. It holds for a list of any length, through `FlattenSeq` and
`LeastNumber`, and for a lidar that is appended while the loops run.

`Fits` is the one hypothesis: every socket of this call is a descriptor of its loop.
A loop has room for 48 descriptors (`OPEN_MAX_POLL`; `MaxPoll`); a socket that finds it full is
never read and nobody is told (`PollSetAdd`), so that without it `Heard` is false
for a file of enough entries; in the run `MaxPoll` suffices for each file.

`NobodyIsStuck` is `EveryoneIsTold` with the guards of `DetectionReply` written out
(`MayReply`) in place of `~ENABLED DetectionReply(l)`; that `MayReply(l)` is
`ENABLED DetectionReply(l)` TLC found in every state of the run's instance of
`LidarNetwork`. It needs that a master never leaves a lidar at `asked`
(`AskingInv`): what is known of the devices is forgotten before a call of Init
can change `sdk_framework_cfg_ptr_`.

Of the invariants proved, `FlightInv`, `DefaultThrustInTakeoff`,
`ArmAfterOffboard`, `EgoInv`, `ErrorOfGoal`, `SteadyHold`, `NoBacklog`,
`OneToken`, `FramesInv`, `UpgradeSoundness`, `ConfigInv`, `SingleInv`,
`RetriesDoNotFork`, `LeftInv`, `NobodyIsLeftOff`, `NeverBack`, `UpgradeAdvances`,
`UpgradeGoesOn`, `SettingsTypeOK`, `SettingsInv`, `FrameQueuesSpec`, `NetworkInv`, `HearingInv`, `TellingInv`, `NobodyIsStuck`,
`LoggerInv`, `CliInv`, `CommandsInitialised` and `OnlyObserversRemain` are not
listed in a run: TLC agreed with them on small instances, and the proofs cover
every instance.

Only model-checked:

- the liveness properties (`LandCompletes`, `KeepsLearning`, `EventuallySampling`,
  `UpgradeEnds` and the others): liveness under fairness is out of the prover's
  reach. Of `EventuallySampling` and `UpgradeEnds` the part that needs no fairness is
  proved (above);
- `EveryoneIsTold`, which speaks of ENABLED (`NobodyIsStuck` is what is proved of it);
- the refusals of the claims.

## 5. Not modelled

*Whole components.* The state observer and the linear controller: arithmetic
without control flow, and the latter is not instantiated. `px4ctrl` uses an
observer whose default constructor leaves the estimates uninitialised
(`NonlinearESO.hpp:49`), and its disturbance is a static that no reset clears
between flights (`MPCController.cpp:799`). `trajectory_viz`: nothing reads what it
publishes. `sim_rc`: two threads that exchange 16 numbers under one lock; its
messages are among those of `RcInput`. `thrust_calibrate.py`: an offline tool; its
callback threads read, extend and write back `cmd_buf` without a lock, which loses
samples. Offline scripts, message definitions and math helpers have no state.

*px4ctrl.* The link to the FCU being lost again after `Connected`; the time an FCU
takes to reboot; the shape of setpoints and poses; IMU and battery samples (no
guard reads them). Of the MPC: the cost and the optimum, roll and pitch and their
limits, the disturbance estimate, the arithmetic of least squares.

*Offboard.* Of the CLI: gains, radius and angular velocity, the displayed path, and
orders of the unsynchronised stores that a weakly ordered processor could add to
the program order. Of the loop: the LQR, its gains and limits, the observer.
`EgoControl` stands for both `uav_control_node` and `cxr_egoctrl_v1`, which have
the same branches; the latter subtracts the disturbance.

*Lidar driver.* The arithmetic on points (the three data types, the extrinsics),
the layout of messages and the choice of topics, bag files, the parsing of the
driver's own file. The indices of a ring are `volatile` and not atomic: what a
weakly ordered processor may show of a slot before its index is not modelled.

*SDK.* Framing and checksums (`sdk_protocol`); that the second call for a command
that could not be sent may come on a thread other than the two; what a destroyed
upgrader or the callback after a crash does, which is undefined; datagrams later than the
expiry of their command; the HAP's command handler, which differs
as section 3 says, in `LidarCommands` and `LidarConfig` (`LidarNetwork` has the
HAP's requests); PA lidars; several host addresses, with which a bind fails
and Init with it; the debug point cloud, time synchronisation by RMC; the
exception log, which the code treats like the real-time log, and a second Init or
`Destory` of the logger.

## 6. Plan

Done: the flight software, the offboard nodes and their composition, the lidar
driver and the SDK, with their runs; the proofs of `PX4CtrlFSM`, `ThrustMapping`,
`EgoControl`, `TrajectoryCli` and `EgoStack`, `LidarHandoff`, `LidarLogger`,
`LidarFrames`, `LidarConfig`, `LidarUpgrade`, `LidarNetwork` and `LidarSettings`; the
refinements of `FlightModes` and `FrameQueues`.

Left, in the order of what it would add:

1. The HAP's command handler in `LidarCommands`, with the double `AddCommand`.
2. `PX4CtrlFSM` composed with `ThrustMapping`: `thr2acc` of the one is `hover` of
   the other, proved as a refinement; loss of the FCU link; the trigger.
3. An abstract specification of the CLI, a menu command as one step, for the
   commands the two threads cannot tear.
4. The driver's life cycle and its own configuration file as the environment of
   `LidarConfig`, joined to `LidarHandoff`.
