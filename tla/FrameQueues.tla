----------------------------- MODULE FrameQueues -----------------------------
(***************************************************************************)
(* What the rings between the thread that cuts point cloud frames and the  *)
(* thread that publishes them promise (comm/ldq.cpp, comm/ldq.h): to each  *)
(* lidar its own queue of bounded length, in which nothing that was let in *)
(* is lost, changed, doubled or overtaken.  There are no slots, no indices *)
(* that wrap and no threads: LidarFrames, which has them, implements it.   *)
(***************************************************************************)
EXTENDS Naturals, Sequences

CONSTANTS Queues,     \* whose messages they are
          Places      \* messages that may wait in a queue

VARIABLES waiting,    \* [Queues -> Seq of messages]: let in, the oldest first
          delivered   \* [Queues -> Seq of messages]: taken out, the oldest first

queues == <<waiting, delivered>>

Init ==
    /\ waiting = [q \in Queues |-> <<>>]
    /\ delivered = [q \in Queues |-> <<>>]

(* Some message is let in, behind the others, if there is a place for it.  *)
Enter(q) ==
    /\ Len(waiting[q]) < Places
    /\ waiting'[q] # <<>>
    /\ waiting' = [waiting EXCEPT ![q] = Append(@, waiting'[q][Len(waiting'[q])])]
    /\ UNCHANGED delivered

(* The oldest is taken out.                                                *)
Leave(q) ==
    /\ waiting[q] # <<>>
    /\ delivered' = [delivered EXCEPT ![q] = Append(@, Head(waiting[q]))]
    /\ waiting' = [waiting EXCEPT ![q] = Tail(@)]

Next == \E q \in Queues : Enter(q) \/ Leave(q)

Spec == Init /\ [][Next]_queues
=============================================================================
