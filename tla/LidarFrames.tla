----------------------------- MODULE LidarFrames -----------------------------
(***************************************************************************)
(* How livox_ros_driver2 turns the data packets of its lidars into point   *)
(* cloud frames (comm/pub_handler.cpp, lds.cpp, call_back/                 *)
(* lidar_common_callback.cpp, lddc.cpp).                                   *)
(*                                                                         *)
(* The SDK's data thread appends packets to raw_packet_queue_; the         *)
(* RawDataProcess thread takes them one by one, collects the points of a   *)
(* lidar in its LidarPubHandler, and cuts a frame when CheckTimer says so; *)
(* the frame goes into the lidar's ring, from which the point cloud thread *)
(* publishes it.  Of a packet's points only the first and the last matter  *)
(* here: a packet is its number among those of its lidar, the millisecond  *)
(* of its first point, and whose clock has told that.  The code forgets    *)
(* whose; it is kept here to say which stamps can be compared.             *)
(***************************************************************************)
EXTENDS LidarRing, Sequences, FiniteSets, SequencesExt

CONSTANTS Handles,           \* the handles that send packets
          Known,            \* the handles CacheIndex has an index for
          Interval,         \* publish_interval_ms_
          QueueSize,        \* places asked for, which CalculatePacketQueueSize derives from
                            \* publish_freq: at least ten in the code
          TimeTypes,        \* [Handles -> SUBSET Clocks]: the stamps a lidar sends
          Span,             \* milliseconds from the first point of a packet to its last
          OffsetWrap,       \* milliseconds after which an offset_time, 32 bits of
                            \* nanoseconds, starts over: 4294
          MaxPackets,       \* bound: [Handles -> Nat], packets of a lidar
          MaxClock,         \* bound: milliseconds of the host's clock
          MaxTime,          \* bound: milliseconds of a lidar's clock
          MaxBacklog        \* bound: packets in raw_packet_queue_, which the code does not limit

(* A packet of type gPTP or GPS is stamped by its lidar; the others are    *)
(* stamped by the host when they arrive (GetEthPacketTimestamp).           *)
Clocks == {"lidar", "host"}

ASSUME FramesAssumption ==
    /\ Handles \subseteq Nat /\ Known \subseteq Handles
    /\ Interval \in Nat \ {0, 1}
    /\ OffsetWrap \in Nat \ {0}
    /\ TimeTypes \in [Handles -> SUBSET Clocks]
    /\ Span \in Nat
    /\ MaxPackets \in [Handles -> Nat]
    /\ MaxClock \in Nat \ {0} /\ MaxTime \in Nat /\ MaxBacklog \in Nat

(* The places of a ring, a power of two.                                   *)
RingSize == InitQueue(QueueSize, <<>>).mask + 1

ASSUME RingAssumption ==
    /\ InitQueue(QueueSize, <<>>).mask \in Nat
    /\ \E k \in 2 .. IndexWrap : IndexWrap = k * RingSize

VARIABLES
    clock,                  \* milliseconds of the host's clock
    lidar_time,             \* [Handles -> Nat]: of a lidar's own, at the last point it stamped
    sent,                   \* [Handles -> Nat]: packets of points received so far
    is_timestamp_sync_,     \* of the last packet that arrived, of whichever lidar
    raw_packet_queue_,      \* sequence of [lidar, num, stamp, by]
    points_clouds_,         \* [Handles -> Seq of [num, stamp, by]]: of the LidarPubHandlers
    handlers,               \* the lidars with an entry in lidar_process_handlers_
    last_pub_time_,         \* -1 until CheckTimer has run once without synchronisation
    thread,                 \* RawDataProcess: [pc, id]
    frame_,                 \* sequence of [lidar, base_time, points]: still to be stored
    data,                   \* [Handles -> queue]: the rings
    reading,                \* point cloud thread: the lidars whose slot it is copying
    published,              \* [Handles -> Seq of messages]: history
    dropped,                \* [Handles -> SUBSET Nat]: history, the packets of refused frames
    is_quit_                \* "no", "requested", "joined"

pub == <<points_clouds_, handlers, last_pub_time_>>
rings == <<data, reading, published>>
framing == <<clock, lidar_time, sent, is_timestamp_sync_, raw_packet_queue_, pub, thread, frame_, rings,
             dropped, is_quit_>>

FramesInit ==
    /\ clock = 1
    /\ lidar_time = [l \in Handles |-> 0]
    /\ sent = [l \in Handles |-> 0]
    /\ is_timestamp_sync_ = FALSE
    /\ raw_packet_queue_ = <<>>
    /\ points_clouds_ = [l \in Handles |-> <<>>]
    /\ handlers = {}
    /\ last_pub_time_ = -1
    /\ thread = [pc |-> "loop", id |-> 0]
    /\ frame_ = <<>>
    /\ data = [l \in Handles |-> NoQueue]
    /\ reading = {}
    /\ published = [l \in Handles |-> <<>>]
    /\ dropped = [l \in Handles |-> {}]
    /\ is_quit_ = "no"

Tick ==
    /\ clock < MaxClock
    /\ clock' = clock + 1
    /\ UNCHANGED <<lidar_time, sent, is_timestamp_sync_, raw_packet_queue_, pub, thread,
                   frame_, rings, dropped, is_quit_>>
-----------------------------------------------------------------------------
(* OnLivoxLidarPointCloudCallback, on the SDK's data thread: under the    *)
(* observers' mutex, so it is one step.  The observer is gone once Uninit  *)
(* has been called.  A packet of either kind sets the flag that all lidars *)
(* share.  A lidar's clock is not set back, and its points follow each     *)
(* other; what the host reads when packets arrive may be closer together   *)
(* than their points are.                                                  *)
Stamps(l, by) ==
    IF by = "host" THEN {clock} ELSE {t \in 1 .. MaxTime : t >= lidar_time[l]}

OnPointCloud(l, by, stamp) ==
    /\ is_quit_ = "no"
    /\ sent[l] < MaxPackets[l]
    /\ Len(raw_packet_queue_) < MaxBacklog
    /\ sent' = [sent EXCEPT ![l] = @ + 1]
    /\ is_timestamp_sync_' = (by = "lidar")
    /\ raw_packet_queue_' =
          Append(raw_packet_queue_, [lidar |-> l, num |-> sent[l] + 1, stamp |-> stamp, by |-> by])
    /\ lidar_time' = IF by = "lidar" THEN [lidar_time EXCEPT ![l] = stamp + Span] ELSE lidar_time
    /\ UNCHANGED <<clock, pub, thread, frame_, rings, dropped, is_quit_>>

(* The same callback for a packet of the IMU, which goes its own way.      *)
OnImuData(by) ==
    /\ is_quit_ = "no"
    /\ is_timestamp_sync_' = (by = "lidar")
    /\ UNCHANGED <<clock, lidar_time, sent, raw_packet_queue_, pub, thread, frame_, rings,
                   dropped, is_quit_>>
-----------------------------------------------------------------------------
(* RawDataProcess: one packet becomes points of its lidar, the first at    *)
(* its stamp and the last Span later.                                      *)
TakePacket ==
    /\ thread.pc = "loop"
    /\ is_quit_ = "no"
    /\ raw_packet_queue_ # <<>>
    /\ LET p == Head(raw_packet_queue_) IN
       /\ handlers' = handlers \union {p.lidar}
       /\ points_clouds_' = [points_clouds_ EXCEPT
             ![p.lidar] = Append(@, [num |-> p.num, stamp |-> p.stamp, by |-> p.by])]
       /\ thread' = [pc |-> "check", id |-> p.lidar]
    /\ raw_packet_queue_' = Tail(raw_packet_queue_)
    /\ UNCHANGED <<clock, lidar_time, sent, is_timestamp_sync_, last_pub_time_, frame_, rings,
                   dropped, is_quit_>>

(* Mutant: the header takes the newest stamp.                              *)
EntryNewest(l) == [lidar |-> l, base_time |-> Last(points_clouds_[l]).stamp, points |-> points_clouds_[l]]

(* The points of a lidar leave its LidarPubHandler as one entry of frame_. *)
Entry(l) == [lidar |-> l, base_time |-> Head(points_clouds_[l]).stamp, points |-> points_clouds_[l]]

(* Mutant: the points stay behind.                                         *)
CutKeeps(lidars, entries) == points_clouds_' = points_clouds_ /\ frame_' = entries

Cut(lidars, entries) ==
    /\ points_clouds_' = [l \in Handles |-> IF l \in lidars THEN <<>> ELSE points_clouds_[l]]
    /\ frame_' = entries

(* CheckTimer, synchronised: only the lidar of the packet, when its last   *)
(* point is on a multiple of the interval and the frame is long enough.    *)
(* The difference has no sign: if the frame began by the other clock and   *)
(* that is ahead, any length is enough.                                    *)
OnFrameBoundary(l) ==
    LET recent == Last(points_clouds_[l]).stamp + Span
        diff == recent - Head(points_clouds_[l]).stamp
    IN  /\ recent % Interval = 0
        /\ diff < 0 \/ diff >= Interval - 1

CheckTimerSync ==
    /\ thread.pc = "check"
    /\ is_timestamp_sync_
    /\ IF OnFrameBoundary(thread.id)
       THEN Cut({thread.id}, <<Entry(thread.id)>>) /\ thread' = [thread EXCEPT !.pc = "store"]
       ELSE thread' = [thread EXCEPT !.pc = "loop"] /\ UNCHANGED <<points_clouds_, frame_>>
    /\ UNCHANGED <<clock, lidar_time, sent, is_timestamp_sync_, raw_packet_queue_, handlers,
                   last_pub_time_,
                   rings, dropped, is_quit_>>

(* CheckTimer, not synchronised: all the lidars together, in the order of  *)
(* their handles, by the host's clock.  The due time advances by one       *)
(* interval, not to the present.                                           *)
CheckTimerNoSync ==
    /\ thread.pc = "check"
    /\ ~is_timestamp_sync_
    /\ \/ /\ last_pub_time_ = -1
          /\ last_pub_time_' = clock
          /\ thread' = [thread EXCEPT !.pc = "loop"]
          /\ UNCHANGED <<points_clouds_, frame_>>
       \/ /\ last_pub_time_ # -1 /\ clock - last_pub_time_ < Interval
          /\ thread' = [thread EXCEPT !.pc = "loop"]
          /\ UNCHANGED <<points_clouds_, frame_, last_pub_time_>>
       \/ /\ last_pub_time_ # -1 /\ clock - last_pub_time_ >= Interval
          /\ last_pub_time_' = last_pub_time_ + Interval
          /\ LET full == {l \in handlers : points_clouds_[l] # <<>>} IN
             \E order \in Bijection(1 .. Cardinality(full), full) :
                /\ \A i, j \in DOMAIN order : i < j => order[i] < order[j]
                /\ Cut(full, [i \in DOMAIN order |-> Entry(order[i])])
          /\ thread' = [thread EXCEPT !.pc = "store"]
    /\ UNCHANGED <<clock, lidar_time, sent, is_timestamp_sync_, raw_packet_queue_, handlers,
                   rings, dropped, is_quit_>>
-----------------------------------------------------------------------------
(* StoragePointData, one entry after the other.  The entry of a lidar that *)
(* CacheIndex does not know, or whose ring is full, is lost.               *)
Numbers(points) == {points[i].num : i \in DOMAIN points}

RingOf(l) ==
    IF data[l] = NoQueue THEN InitQueue(QueueSize, <<>>) ELSE data[l]

Refuse ==
    /\ thread.pc = "store" /\ frame_ # <<>>
    /\ LET e == Head(frame_) IN
       /\ e.lidar \notin Known \/ QueueIsFull(RingOf(e.lidar))
       /\ dropped' = [dropped EXCEPT ![e.lidar] = @ \union Numbers(e.points)]
    /\ frame_' = Tail(frame_)
    /\ UNCHANGED <<clock, lidar_time, sent, is_timestamp_sync_, raw_packet_queue_, pub,
                   thread, rings, is_quit_>>

(* QueuePushAny: the slot is filled, then the index moves.                 *)
FillSlot ==
    /\ thread.pc = "store" /\ frame_ # <<>>
    /\ LET e == Head(frame_) IN
       /\ e.lidar \in Known /\ ~QueueIsFull(RingOf(e.lidar))
       /\ data' = [data EXCEPT ![e.lidar] = WriteSlot(RingOf(e.lidar), e)]
    /\ thread' = [thread EXCEPT !.pc = "push"]
    /\ UNCHANGED <<clock, lidar_time, sent, is_timestamp_sync_, raw_packet_queue_, pub,
                   frame_, reading, published,
                   dropped, is_quit_>>

MoveWriteIndex ==
    /\ thread.pc = "push"
    /\ data' = [data EXCEPT ![Head(frame_).lidar] = AdvanceWrite(@)]
    /\ frame_' = Tail(frame_)
    /\ thread' = [thread EXCEPT !.pc = "store"]
    /\ UNCHANGED <<clock, lidar_time, sent, is_timestamp_sync_, raw_packet_queue_, pub,
                   reading, published, dropped, is_quit_>>

EndOfFrame ==
    /\ thread.pc = "store" /\ frame_ = <<>>
    /\ thread' = [thread EXCEPT !.pc = "loop"]
    /\ UNCHANGED <<clock, lidar_time, sent, is_timestamp_sync_, raw_packet_queue_, pub,
                   frame_, rings, dropped, is_quit_>>
-----------------------------------------------------------------------------
(* InitCustomMsg with FillPointsToCustomMsg, and InitPointcloud2Msg: the   *)
(* message that is made of the frame pkg for the lidar at an index.  A     *)
(* point has an offset_time in one format and its timestamp in the other.  *)
(* "of" is whose points they really are.  Of each packet the first point   *)
(* and the last are given.                                                 *)
Message(l, pkg) ==
    [lidar_id |-> l, of |-> pkg.lidar, timebase |-> pkg.base_time,
     points |-> [i \in DOMAIN pkg.points |->
        [num |-> pkg.points[i].num, by |-> pkg.points[i].by, timestamp |-> pkg.points[i].stamp,
         offset_time |-> (pkg.points[i].stamp - pkg.base_time) % OffsetWrap,
         last_offset |-> (pkg.points[i].stamp + Span - pkg.base_time) % OffsetWrap]]]

(* QueuePop and the publication, on the point cloud thread, whenever it    *)
(* comes by (LidarHandoff says when): it copies a slot, one lidar at a     *)
(* time, and then moves the index.                                         *)
CopySlot(l) ==
    /\ reading = {}
    /\ ~QueueIsEmpty(data[l])
    /\ published' = [published EXCEPT ![l] = Append(@, Message(l, QueuePrePop(data[l])))]
    /\ reading' = {l}
    /\ UNCHANGED <<clock, lidar_time, sent, is_timestamp_sync_, raw_packet_queue_, pub,
                   thread, frame_, data, dropped, is_quit_>>

MoveReadIndex(l) ==
    /\ l \in reading
    /\ data' = [data EXCEPT ![l] = QueuePopUpdate(@)]
    /\ reading' = {}
    /\ UNCHANGED <<clock, lidar_time, sent, is_timestamp_sync_, raw_packet_queue_, pub,
                   thread, frame_, published, dropped, is_quit_>>
-----------------------------------------------------------------------------
(* Uninit: the observer is removed, the thread asked to end and joined; it *)
(* wakes from its timed wait at the latest after 500 ms.                   *)
Uninit ==
    /\ is_quit_ = "no"
    /\ is_quit_' = "requested"
    /\ UNCHANGED <<clock, lidar_time, sent, is_timestamp_sync_, raw_packet_queue_, pub,
                   thread, frame_, rings, dropped>>

Joined ==
    /\ is_quit_ = "requested"
    /\ thread.pc = "loop"
    /\ is_quit_' = "joined"
    /\ UNCHANGED <<clock, lidar_time, sent, is_timestamp_sync_, raw_packet_queue_, pub,
                   thread, frame_, rings, dropped>>
-----------------------------------------------------------------------------
RawDataProcess ==
    \/ TakePacket \/ CheckTimerSync \/ CheckTimerNoSync
    \/ Refuse \/ FillSlot \/ MoveWriteIndex \/ EndOfFrame \/ Joined
PointCloudThread == \E l \in Known : CopySlot(l) \/ MoveReadIndex(l)

FramesNext ==
    \/ Tick
    \/ \E l \in Handles : \E by \in TimeTypes[l] :
          OnImuData(by) \/ \E stamp \in Stamps(l, by) : OnPointCloud(l, by, stamp)
    \/ RawDataProcess \/ PointCloudThread \/ Uninit

FramesSpec == FramesInit /\ [][FramesNext]_framing
-----------------------------------------------------------------------------
NumbersInOrder(points) == [i \in DOMAIN points |-> points[i].num]
Flat(frames) == FlattenSeq([i \in DOMAIN frames |-> NumbersInOrder(frames[i].points)])

(* The packets of a lidar on their way, the oldest first: published in a   *)
(* frame, in the ring, in a frame about to be stored, in the handler, or   *)
(* still queued.                                                           *)
UnreadFrames(l) == IF l \in reading THEN Tail(Contents(data[l])) ELSE Contents(data[l])
CutNumbers(l) ==
    FlattenSeq([i \in DOMAIN frame_ |->
        IF frame_[i].lidar = l THEN NumbersInOrder(frame_[i].points) ELSE <<>>])
QueuedNumbers(l) ==
    FlattenSeq([i \in DOMAIN raw_packet_queue_ |->
        IF raw_packet_queue_[i].lidar = l THEN <<raw_packet_queue_[i].num>> ELSE <<>>])
Along(l) ==
    FlattenSeq(<<Flat(published[l]), Flat(UnreadFrames(l)), CutNumbers(l),
                 NumbersInOrder(points_clouds_[l]), QueuedNumbers(l)>>)

FramesTypeOK ==
    /\ clock \in 1 .. MaxClock
    /\ \A l \in Handles : lidar_time[l] \in 0 .. MaxTime + Span
    /\ \A l \in Handles : sent[l] \in 0 .. MaxPackets[l]
    /\ is_timestamp_sync_ \in BOOLEAN
    /\ Len(raw_packet_queue_) <= MaxBacklog
    /\ handlers \subseteq Handles
    /\ thread \in [pc : {"loop", "check", "store", "push"}, id : Handles \union {0}]
    /\ \A l \in Handles :
          /\ {data[l].rd_idx, data[l].wr_idx} \subseteq 0 .. IndexWrap - 1
          /\ data[l] # NoQueue => QueueUsedSize(data[l]) <= data[l].mask + 1
    /\ reading \subseteq Known
    /\ is_quit_ \in {"no", "requested", "joined"}

(* Every packet of a lidar that was not in a frame that was refused is in  *)
(* exactly one place on its way, and they are in the order of arrival.     *)
(* Nothing is lost, published twice or reordered between the SDK's callback*)
(* and the topic (pub_handler.cpp:178-193, 207-224; lds.cpp:148-196;       *)
(* ldq.cpp).                                                               *)
EachPacketOnce ==
    \A l \in Handles :
        LET along == Along(l)
        IN  /\ ToSet(along) = (1 .. sent[l]) \ dropped[l]
            /\ \A i, j \in DOMAIN along : i < j => along[i] < along[j]

(* The thread that fills a slot never fills the one that is being copied:  *)
(* the two threads share a ring without a lock, and the index that lets the*)
(* other side in moves last on both sides (ldq.cpp:111-148).               *)
NoTornSlot ==
    \A l \in reading :
        thread.pc = "push" /\ Head(frame_).lidar = l =>
            Slot(data[l], data[l].wr_idx) # Slot(data[l], data[l].rd_idx)

(* Whoever adds the offset_time of a point to the timebase of its message  *)
(* gets the point's own time, if the frame was stamped by one clock and is *)
(* not longer than an offset_time can say; the points are those of the     *)
(* lidar the message names, and no message reaches back into the one       *)
(* before it, unless the clock has changed between them: not at all by the *)
(* lidar's clock, and by less than a packet by the host's.  The offset is  *)
(* an unsigned difference: one of a point before the timebase would be far *)
(* in the future (pub_handler.cpp:143-144, 265-275, 388; lddc.cpp:384-399).*)
OneClock(m) == \A j \in DOMAIN m.points : m.points[j].by = Head(m.points).by
Fits(m) == Last(m.points).timestamp + Span - Head(m.points).timestamp < OffsetWrap
EndsAt(p) == IF p.by = "lidar" THEN p.timestamp + Span ELSE p.timestamp
OffsetsFit ==
    \A l \in Handles :
        /\ \A i \in DOMAIN published[l] :
              LET m == published[l][i] IN
              /\ m.lidar_id = m.of
              /\ m.timebase = Head(m.points).timestamp
              /\ OneClock(m) /\ Fits(m) =>
                    \A j \in DOMAIN m.points :
                        LET p == m.points[j] IN
                        /\ m.timebase + p.offset_time = p.timestamp
                        /\ m.timebase + p.last_offset = p.timestamp + Span
        /\ \A i \in 2 .. Len(published[l]) :
              LET last == Last(published[l][i - 1].points) IN
              last.by = Head(published[l][i].points).by => published[l][i].timebase >= EndsAt(last)

(* What the other thread has not taken yet, as the messages that will be   *)
(* made of it.  Slots, wrapping indices and two threads at once implement  *)
(* FrameQueues: a frame enters with the write index and leaves when its    *)
(* slot is copied (ldq.cpp:70-148).                                        *)
ToPublish(l) == [i \in DOMAIN UnreadFrames(l) |-> Message(l, UnreadFrames(l)[i])]
FQ == INSTANCE FrameQueues
          WITH Queues <- Handles, Places <- RingSize,
               waiting <- [l \in Handles |-> ToPublish(l)], delivered <- published
FrameQueuesSpec == FQ!Spec
=============================================================================
