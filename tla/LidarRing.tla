----------------------------- MODULE LidarRing -----------------------------
(***************************************************************************)
(* The ring buffer between the thread that builds point cloud frames and   *)
(* the thread that publishes them (comm/ldq.cpp, comm/ldq.h).  A queue is  *)
(* a record of storage and indices; the indices run freely and wrap, and   *)
(* only their low bits address a slot.                                     *)
(***************************************************************************)
EXTENDS Integers

CONSTANT IndexWrap      \* 2^32 in the code: the modulus of rd_idx and wr_idx

(* publish_freq is at most 100 (livox_ros_driver2.cpp): 128 places do.     *)
Powers == {2^i : i \in 0 .. 7}

IsPowerOf2(size) == size \in Powers

RoundupPowerOf2(size) ==
    CHOOSE p \in Powers : p >= size /\ \A q \in Powers : q >= size => p <= q

(* Places asked for at a publishing frequency: ten, or one second of frames*)
(* and one more.                                                           *)
CalculatePacketQueueSize(publish_freq) == IF publish_freq > 10 THEN publish_freq + 1 ELSE 10

(* A lidar that has stored nothing yet has no storage (storage_packet is   *)
(* null) and equal indices.                                                *)
NoQueue == [rd_idx |-> 0, wr_idx |-> 0, mask |-> 0, storage_packet |-> <<>>]

InitQueue(queue_size, empty) ==
    LET size == IF IsPowerOf2(queue_size) THEN queue_size ELSE RoundupPowerOf2(queue_size) IN
    [rd_idx |-> 0, wr_idx |-> 0, mask |-> size - 1,
     storage_packet |-> [i \in 0 .. size - 1 |-> empty]]

QueueUsedSize(queue) == (queue.wr_idx - queue.rd_idx) % IndexWrap
(* Mutant: one frame too many.                                             *)
FullTooLate(queue) == QueueUsedSize(queue) > queue.mask + 1
QueueIsFull(queue) == QueueUsedSize(queue) > queue.mask
QueueIsEmpty(queue) == queue.rd_idx = queue.wr_idx

(* index & mask                                                            *)
Slot(queue, index) == index % (queue.mask + 1)

WriteSlot(queue, packet) ==
    [queue EXCEPT !.storage_packet[Slot(queue, queue.wr_idx)] = packet]
AdvanceWrite(queue) == [queue EXCEPT !.wr_idx = (@ + 1) % IndexWrap]

QueuePrePop(queue) == queue.storage_packet[Slot(queue, queue.rd_idx)]
QueuePopUpdate(queue) == [queue EXCEPT !.rd_idx = (@ + 1) % IndexWrap]

(* What the queue holds, oldest first.                                     *)
Contents(queue) ==
    [i \in 1 .. QueueUsedSize(queue) |->
        queue.storage_packet[Slot(queue, (queue.rd_idx + i - 1) % IndexWrap)]]
=============================================================================
