-------------------------- MODULE LidarFrames_proofs --------------------------
(***************************************************************************)
(* Theorems about LidarFrames and its ring, for any number of lidars and   *)
(* packets, any publishing interval and any sizes of the ring and of its   *)
(* indices.                                                                *)
(***************************************************************************)
EXTENDS LidarFrames, SequenceLemmas

(* One packet's points come before another's, of those that can be told by *)
(* one clock; all of some before all of others.                            *)
Until(p) == IF p.by = "lidar" THEN p.stamp + Span ELSE p.stamp
Before(p, q) == p.num < q.num /\ (p.by = q.by => Until(p) <= q.stamp)
AllBefore(P, Q) == \A p \in P, q \in Q : Before(p, q)
InOrder(points) == \A i, j \in DOMAIN points : i < j => Before(points[i], points[j])

PointsOf(f) == {f.points[i] : i \in DOMAIN f.points}
PointsIn(frames) == UNION {PointsOf(frames[i]) : i \in DOMAIN frames}

(* A frame as it is cut, and frames of a lidar that follow each other.     *)
Point == [num : Nat, stamp : Nat, by : Clocks]
Frame == [lidar : Handles, base_time : Nat, points : Seq(Point)]
Whole(f) ==
    /\ f \in Frame
    /\ f.points # <<>> /\ f.base_time = Head(f.points).stamp
    /\ InOrder(f.points)
Follow(l, frames) ==
    /\ \A i \in DOMAIN frames : Whole(frames[i]) /\ frames[i].lidar = l
    /\ \A i, j \in DOMAIN frames : i < j => AllBefore(PointsOf(frames[i]), PointsOf(frames[j]))

Sample == [num : Nat, by : Clocks, timestamp : Nat, offset_time : Nat, last_offset : Nat]
MessageSet == [lidar_id : Handles, of : Handles, timebase : Nat, points : Seq(Sample)]

(* The frame that a message was made of, and a packet's point.             *)
FrameOf(m) ==
    [lidar |-> m.of, base_time |-> m.timebase,
     points |-> [i \in DOMAIN m.points |->
                    [num |-> m.points[i].num, stamp |-> m.points[i].timestamp, by |-> m.points[i].by]]]
PointOf(p) == [num |-> p.num, stamp |-> p.stamp, by |-> p.by]

(* Where the points of a lidar are on their way, the oldest first.         *)
Out(l) == [i \in DOMAIN published[l] |-> FrameOf(published[l][i])]
Cutting(l) == UNION {PointsOf(frame_[i]) : i \in {i \in DOMAIN frame_ : frame_[i].lidar = l}}
Collected(l) == {points_clouds_[l][i] : i \in DOMAIN points_clouds_[l]}
Raw(l) == {PointOf(raw_packet_queue_[i]) :
              i \in {i \in DOMAIN raw_packet_queue_ : raw_packet_queue_[i].lidar = l}}

OnTheWay(l) == PointsIn(Out(l)) \cup PointsIn(UnreadFrames(l)) \cup Cutting(l) \cup Collected(l) \cup Raw(l)
Nums(P) == {p.num : p \in P}

(* The places of a lidar, one behind the other.                            *)
Path(A, B, C, D, E) ==
    /\ AllBefore(A, B \cup C \cup D \cup E)
    /\ AllBefore(B, C \cup D \cup E)
    /\ AllBefore(C, D \cup E)
    /\ AllBefore(D, E)

(* A ring that is in use: its indices, its places, and what it holds.      *)
Ring(q) ==
    /\ q = [rd_idx |-> q.rd_idx, wr_idx |-> q.wr_idx, mask |-> RingSize - 1,
            storage_packet |-> [k \in 0 .. RingSize - 1 |-> q.storage_packet[k]]]
    /\ {q.rd_idx, q.wr_idx} \subseteq 0 .. IndexWrap - 1
    /\ QueueUsedSize(q) <= RingSize

TypesInv ==
    /\ clock \in 1 .. MaxClock
    /\ lidar_time \in [Handles -> Nat] /\ \A l \in Handles : lidar_time[l] <= MaxTime + Span
    /\ sent \in [Handles -> Nat] /\ \A l \in Handles : sent[l] <= MaxPackets[l]
    /\ is_timestamp_sync_ \in BOOLEAN
    /\ raw_packet_queue_ \in Seq([lidar : Handles, num : Nat, stamp : Nat, by : Clocks])
    /\ Len(raw_packet_queue_) <= MaxBacklog
    /\ points_clouds_ \in [Handles -> Seq(Point)]
    /\ handlers \subseteq Handles /\ IsFiniteSet(handlers)
    /\ thread \in [pc : {"loop", "check", "store", "push"}, id : Handles \union {0}]
    /\ frame_ \in Seq(Frame)
    /\ is_quit_ \in {"no", "requested", "joined"}
    /\ published \in [Handles -> Seq(MessageSet)]
    /\ dropped \in [Handles -> SUBSET Nat]
    /\ data = [l \in Handles |-> data[l]]

(* The two threads at the rings.                                           *)
RingsInv ==
    /\ \A l \in Handles : data[l] = NoQueue \/ Ring(data[l])
    /\ reading \subseteq Known /\ \A l, k \in reading : l = k
    /\ \A l \in reading : ~QueueIsEmpty(data[l])
    /\ thread.pc = "push" =>
          LET e == Head(frame_) q == data[e.lidar] IN
          /\ frame_ # <<>> /\ e.lidar \in Known
          /\ Ring(q) /\ ~QueueIsFull(q)
          /\ q.storage_packet[Slot(q, q.wr_idx)] = e

FrameInv ==
    /\ thread.pc \in {"loop", "check"} => frame_ = <<>>
    /\ thread.pc = "check" => thread.id \in Handles /\ points_clouds_[thread.id] # <<>>
    /\ \A i \in DOMAIN frame_ : Whole(frame_[i])
    /\ \A i, j \in DOMAIN frame_ : frame_[i].lidar = frame_[j].lidar => i = j

RawInOrder(l) ==
    \A i, j \in DOMAIN raw_packet_queue_ :
        i < j /\ raw_packet_queue_[i].lidar = l /\ raw_packet_queue_[j].lidar = l =>
            Before(raw_packet_queue_[i], raw_packet_queue_[j])

OrderInv(l) ==
    /\ Follow(l, Out(l)) /\ Follow(l, UnreadFrames(l))
    /\ InOrder(points_clouds_[l]) /\ RawInOrder(l)
    /\ Path(PointsIn(Out(l)), PointsIn(UnreadFrames(l)), Cutting(l), Collected(l), Raw(l))

(* Every packet is on its way or was in a frame that was refused, and was  *)
(* stamped before now.                                                     *)
Stamped(l, p) ==
    /\ p.by = "host" => p.stamp <= clock
    /\ p.by = "lidar" => p.stamp + Span <= lidar_time[l]

Accounted(l) ==
    /\ \A p \in OnTheWay(l) : p \in Point /\ Stamped(l, p)
    /\ Nums(OnTheWay(l)) \cup dropped[l] = 1 .. sent[l]
    /\ Nums(OnTheWay(l)) \cap dropped[l] = {}

PathInv(l) ==
    /\ \A i \in DOMAIN published[l] : published[l][i] = Message(l, FrameOf(published[l][i]))
    /\ OrderInv(l)
    /\ Accounted(l)

FramesInv == TypesInv /\ RingsInv /\ FrameInv /\ \A l \in Handles : PathInv(l)
-----------------------------------------------------------------------------
(* Arithmetic of indices that wrap.                                        *)
LEMMA DivMod ==
    ASSUME NEW s \in Nat \ {0}, NEW a \in Int
    PROVE  a = (a \div s) * s + (a % s) /\ a % s \in 0 .. s - 1 /\ a \div s \in Int
  OBVIOUS

LEMMA ModIs ==
    ASSUME NEW s \in Nat \ {0}, NEW q \in Int, NEW r \in 0 .. s - 1
    PROVE  (q * s + r) % s = r
  OBVIOUS

(* An index addresses the same slot whether it has wrapped or not.         *)
LEMMA ModMod ==
    ASSUME NEW s \in Nat \ {0}, NEW k \in Nat \ {0}, NEW a \in Int
    PROVE  (a % (k * s)) % s = a % s
<1> DEFINE m == k * s
           b == a % m
           q == a \div m
           c == b \div s
           d == b % s
<1>1. m \in Nat \ {0}
  OBVIOUS
<1>2. a = q * m + b /\ b \in Int /\ q \in Int
  <2> HIDE DEF m
  <2>1. QED
    BY <1>1, DivMod
<1>3. b = c * s + d /\ d \in 0 .. s - 1 /\ c \in Int
  <2> HIDE DEF b
  <2>1. QED
    BY <1>2, DivMod
<1> HIDE DEF b, q, c, d
<1>4. a = (q * k + c) * s + d /\ q * k + c \in Int
  BY <1>2, <1>3
<1>5. a % s = d
  BY <1>3, <1>4, ModIs
<1>6. QED
  BY <1>5 DEF b, d

LEMMA ModApart ==
    ASSUME NEW s \in Nat \ {0}, NEW a \in Int, NEW d \in 1 .. s - 1
    PROVE  (a + d) % s # a % s
<1> DEFINE q == a \div s
           r == a % s
<1>1. a = q * s + r /\ r \in 0 .. s - 1 /\ q \in Int
  BY DivMod
<1> HIDE DEF q, r
<1>2. CASE r + d < s
  <2>1. a + d = q * s + (r + d) /\ r + d \in 0 .. s - 1
    BY <1>1, <1>2
  <2>2. (a + d) % s = r + d
    BY <1>1, <2>1, ModIs
  <2>3. QED
    BY <1>1, <2>2 DEF r
<1>3. CASE r + d >= s
  <2>1. a + d = (q + 1) * s + (r + d - s) /\ r + d - s \in 0 .. s - 1 /\ q + 1 \in Int
    BY <1>1, <1>3
  <2>2. (a + d) % s = r + d - s
    BY <2>1, ModIs
  <2>3. QED
    BY <1>1, <2>2 DEF r
<1>4. QED
  BY <1>1, <1>2, <1>3

LEMMA ModDifference ==
    ASSUME NEW w \in Nat \ {0}, NEW x \in 0 .. w - 1, NEW y \in 0 .. w - 1
    PROVE  (x - y) % w = IF x >= y THEN x - y ELSE x - y + w
<1>1. CASE x >= y
  BY <1>1
<1>2. CASE x < y
  <2>1. x - y = (-1) * w + (x - y + w) /\ x - y + w \in 0 .. w - 1
    BY <1>2
  <2>2. (x - y) % w = x - y + w
    BY <2>1, ModIs
  <2>3. QED
    BY <1>2, <2>2
<1>3. QED
  BY <1>1, <1>2

LEMMA ModSum ==
    ASSUME NEW w \in Nat \ {0}, NEW x \in 0 .. w - 1, NEW n \in 0 .. w
    PROVE  (x + n) % w = IF x + n < w THEN x + n ELSE x + n - w
<1>1. CASE x + n < w
  BY <1>1
<1>2. CASE x + n >= w
  <2>1. x + n = 1 * w + (x + n - w) /\ x + n - w \in 0 .. w - 1
    BY <1>2
  <2>2. (x + n) % w = x + n - w
    BY <2>1, ModIs
  <2>3. QED
    BY <1>2, <2>2
<1>3. QED
  BY <1>1, <1>2
-----------------------------------------------------------------------------
LEMMA Sizes ==
    /\ RingSize \in Nat \ {0} /\ IndexWrap \in Nat \ {0} /\ RingSize < IndexWrap
    /\ \E k \in Nat \ {0} : IndexWrap = k * RingSize
<1>1. RingSize \in Nat \ {0}
  BY RingAssumption DEF RingSize
<1>2. PICK k \in 2 .. IndexWrap : IndexWrap = k * RingSize
  BY RingAssumption
<1>3. k \in Nat /\ k >= 2
  BY <1>2
<1>4. k * RingSize >= 2 * RingSize
  BY <1>1, <1>3
<1>5. QED
  BY <1>1, <1>2, <1>3, <1>4

(* What a ring holds, in terms of where it begins and of how much it is.   *)
LEMMA RingHolds ==
    ASSUME NEW q, Ring(q)
    PROVE  /\ q.mask = RingSize - 1
           /\ q.rd_idx \in 0 .. IndexWrap - 1 /\ q.wr_idx \in 0 .. IndexWrap - 1
           /\ QueueUsedSize(q) \in 0 .. RingSize
           /\ QueueIsFull(q) <=> QueueUsedSize(q) = RingSize
           /\ QueueIsEmpty(q) <=> QueueUsedSize(q) = 0
           /\ q.wr_idx = (q.rd_idx + QueueUsedSize(q)) % IndexWrap
           /\ Slot(q, q.rd_idx) = q.rd_idx % RingSize
           /\ Slot(q, q.wr_idx) = (q.rd_idx + QueueUsedSize(q)) % RingSize
           /\ Slot(q, q.wr_idx) \in 0 .. RingSize - 1
           /\ Contents(q) = [i \in 1 .. QueueUsedSize(q) |->
                                q.storage_packet[(q.rd_idx + i - 1) % RingSize]]
<1>1. /\ q.mask = RingSize - 1
      /\ q.rd_idx \in 0 .. IndexWrap - 1 /\ q.wr_idx \in 0 .. IndexWrap - 1
  BY DEF Ring
<1> DEFINE n == QueueUsedSize(q)
<1>2. n = IF q.wr_idx >= q.rd_idx THEN q.wr_idx - q.rd_idx ELSE q.wr_idx - q.rd_idx + IndexWrap
  BY <1>1, Sizes, ModDifference DEF QueueUsedSize
<1>3. n \in 0 .. RingSize
  BY <1>1, <1>2, Sizes DEF Ring
<1> HIDE DEF n
<1>4. /\ QueueIsFull(q) <=> n = RingSize
      /\ QueueIsEmpty(q) <=> n = 0
  BY <1>1, <1>2, <1>3, Sizes DEF QueueIsFull, QueueIsEmpty, n
<1>5. q.wr_idx = (q.rd_idx + n) % IndexWrap
  <2>1. n \in 0 .. IndexWrap
    BY <1>3, Sizes
  <2>2. (q.rd_idx + n) % IndexWrap =
            IF q.rd_idx + n < IndexWrap THEN q.rd_idx + n ELSE q.rd_idx + n - IndexWrap
    BY <1>1, <2>1, Sizes, ModSum
  <2>3. QED
    BY <1>1, <1>2, <2>1, <2>2, Sizes
<1>6. \A x \in Int : (x % IndexWrap) % RingSize = x % RingSize
  <2>1. PICK k \in Nat \ {0} : IndexWrap = k * RingSize
    BY Sizes
  <2>2. RingSize \in Nat \ {0}
    BY Sizes
  <2>3. \A x \in Int : (x % (k * RingSize)) % RingSize = x % RingSize
    BY <2>2, ModMod
  <2>4. QED
    BY <2>1, <2>3
<1>7. \A x : Slot(q, x) = x % RingSize
  BY <1>1, Sizes DEF Slot
<1>8. /\ Slot(q, q.wr_idx) = (q.rd_idx + n) % RingSize
      /\ Slot(q, q.wr_idx) \in 0 .. RingSize - 1
  <2>1. q.rd_idx + n \in Int
    BY <1>1, <1>3
  <2>2. ((q.rd_idx + n) % IndexWrap) % RingSize = (q.rd_idx + n) % RingSize
    BY <1>6, <2>1
  <2>3. (q.rd_idx + n) % RingSize \in 0 .. RingSize - 1
    BY <2>1, Sizes
  <2>4. QED
    BY <1>5, <1>7, <2>2, <2>3
<1>9. \A i \in 1 .. n : Slot(q, (q.rd_idx + i - 1) % IndexWrap) = (q.rd_idx + i - 1) % RingSize
  <2> SUFFICES ASSUME NEW i \in 1 .. n
               PROVE  Slot(q, (q.rd_idx + i - 1) % IndexWrap) = (q.rd_idx + i - 1) % RingSize
    OBVIOUS
  <2>1. q.rd_idx + i - 1 \in Int
    BY <1>1, <1>3
  <2>2. QED
    BY <1>6, <1>7, <2>1
<1>10. Contents(q) = [i \in 1 .. n |-> q.storage_packet[(q.rd_idx + i - 1) % RingSize]]
  BY <1>9 DEF Contents, n
<1>11. QED
  BY <1>1, <1>3, <1>4, <1>5, <1>7, <1>8, <1>10 DEF n

(* A change of one field of a ring.                                        *)
LEMMA RecordEdits ==
    ASSUME NEW q, q = [rd_idx |-> q.rd_idx, wr_idx |-> q.wr_idx, mask |-> q.mask,
                       storage_packet |-> q.storage_packet],
           NEW f, NEW w
    PROVE  /\ w = [q EXCEPT !.rd_idx = f] =>
                  w = [rd_idx |-> f, wr_idx |-> q.wr_idx, mask |-> q.mask,
                       storage_packet |-> q.storage_packet]
           /\ w = [q EXCEPT !.wr_idx = f] =>
                  w = [rd_idx |-> q.rd_idx, wr_idx |-> f, mask |-> q.mask,
                       storage_packet |-> q.storage_packet]
           /\ w = [q EXCEPT !.storage_packet = f] =>
                  w = [rd_idx |-> q.rd_idx, wr_idx |-> q.wr_idx, mask |-> q.mask,
                       storage_packet |-> f]
<1>1. PICK r, x, m, s : q = [rd_idx |-> r, wr_idx |-> x, mask |-> m, storage_packet |-> s]
  OBVIOUS
<1>2. q.rd_idx = r /\ q.wr_idx = x /\ q.mask = m /\ q.storage_packet = s
  BY <1>1
<1>3. QED
  BY <1>1, <1>2

LEMMA RingRecord ==
    ASSUME NEW q, Ring(q)
    PROVE  /\ q = [rd_idx |-> q.rd_idx, wr_idx |-> q.wr_idx, mask |-> q.mask,
                   storage_packet |-> q.storage_packet]
           /\ q.mask = RingSize - 1
           /\ q.storage_packet = [k \in 0 .. RingSize - 1 |-> q.storage_packet[k]]
  BY DEF Ring

(* Filling the slot beyond the last one changes nothing that is held.      *)
LEMMA WriteKeeps ==
    ASSUME NEW q, Ring(q), ~QueueIsFull(q), NEW e
    PROVE  LET w == WriteSlot(q, e) IN
           /\ Ring(w) /\ ~QueueIsFull(w)
           /\ Contents(w) = Contents(q)
           /\ w.storage_packet[Slot(w, w.wr_idx)] = e
           /\ w.rd_idx = q.rd_idx /\ w.wr_idx = q.wr_idx
<1> DEFINE w == WriteSlot(q, e)
           n == QueueUsedSize(q)
           k == Slot(q, q.wr_idx)
<1>1. /\ q.mask = RingSize - 1
      /\ q.rd_idx \in 0 .. IndexWrap - 1
      /\ n \in 0 .. RingSize - 1 /\ k \in 0 .. RingSize - 1
  BY RingHolds, Sizes
<1>held.
      /\ k = (q.rd_idx + n) % RingSize
      /\ Contents(q) = [i \in 1 .. n |-> q.storage_packet[(q.rd_idx + i - 1) % RingSize]]
  BY RingHolds, Sizes
<1> HIDE DEF k
<1>2. w = [rd_idx |-> q.rd_idx, wr_idx |-> q.wr_idx, mask |-> RingSize - 1,
           storage_packet |-> [j \in 0 .. RingSize - 1 |-> IF j = k THEN e ELSE q.storage_packet[j]]]
  <2> DEFINE st == q.storage_packet
             held == [j \in 0 .. RingSize - 1 |-> IF j = k THEN e ELSE st[j]]
  <2>2. w = [q EXCEPT !.storage_packet = [st EXCEPT ![k] = e]]
    BY DEF WriteSlot, k
  <2>3. st = [j \in 0 .. RingSize - 1 |-> st[j]]
    BY RingRecord
  <2>4. [st EXCEPT ![k] = e] = held
    <3> HIDE DEF st
    <3>1. QED
      BY <1>1, <2>3
  <2> HIDE DEF held, w
  <2>5. w = [rd_idx |-> q.rd_idx, wr_idx |-> q.wr_idx, mask |-> RingSize - 1, storage_packet |-> held]
    <3>1. w = [q EXCEPT !.storage_packet = held]
      BY <2>2, <2>4
    <3>2. /\ q = [rd_idx |-> q.rd_idx, wr_idx |-> q.wr_idx, mask |-> q.mask,
                  storage_packet |-> q.storage_packet]
          /\ q.mask = RingSize - 1
      BY RingRecord
    <3>3. w = [rd_idx |-> q.rd_idx, wr_idx |-> q.wr_idx, mask |-> q.mask, storage_packet |-> held]
      BY <3>1, <3>2, RecordEdits
    <3>4. QED
      BY <3>2, <3>3
  <2>6. QED
    BY <2>5 DEF held
<1> HIDE DEF w
<1>3. /\ w.rd_idx = q.rd_idx /\ w.wr_idx = q.wr_idx /\ w.mask = q.mask
      /\ w.storage_packet = [j \in 0 .. RingSize - 1 |-> IF j = k THEN e ELSE q.storage_packet[j]]
  BY <1>1, <1>2
<1>4. QueueUsedSize(w) = n
  BY <1>3 DEF QueueUsedSize
<1>5. Ring(w)
  <2>1. w = [rd_idx |-> w.rd_idx, wr_idx |-> w.wr_idx, mask |-> RingSize - 1,
             storage_packet |-> [j \in 0 .. RingSize - 1 |-> w.storage_packet[j]]]
    BY <1>2
  <2>2. QED
    BY <1>1, <1>3, <1>4, <2>1 DEF Ring
<1>6. Contents(w) = [i \in 1 .. n |-> w.storage_packet[(q.rd_idx + i - 1) % RingSize]]
  <2>1. Contents(w) = [i \in 1 .. QueueUsedSize(w) |->
                          w.storage_packet[(w.rd_idx + i - 1) % RingSize]]
    BY <1>5, RingHolds
  <2>2. QED
    BY <1>3, <1>4, <2>1
<1>7. ASSUME NEW i \in 1 .. n
      PROVE  w.storage_packet[(q.rd_idx + i - 1) % RingSize]
                 = q.storage_packet[(q.rd_idx + i - 1) % RingSize]
  <2> DEFINE a == q.rd_idx + i - 1
             d == n + 1 - i
  <2>1. a \in Nat /\ d \in 1 .. RingSize - 1 /\ a + d = q.rd_idx + n
    BY <1>1, Sizes
  <2> HIDE DEF a, d
  <2>2. (a + d) % RingSize # a % RingSize /\ a % RingSize \in 0 .. RingSize - 1
    <3>1. a \in Int
      BY <2>1
    <3>2. (a + d) % RingSize # a % RingSize
      BY <2>1, <3>1, ModApart, Sizes
    <3>3. a % RingSize \in 0 .. RingSize - 1
      BY <3>1, DivMod, Sizes
    <3>4. QED
      BY <3>2, <3>3
  <2>3. a % RingSize # k
    BY <1>held, <2>1, <2>2
  <2>4. QED
    BY <1>3, <2>2, <2>3 DEF a
<1>8. Contents(w) = Contents(q)
  BY <1>held, <1>6, <1>7
<1>9. w.storage_packet[Slot(w, w.wr_idx)] = e
  BY <1>1, <1>3 DEF Slot, k
<1>10. ~QueueIsFull(w)
  BY <1>1, <1>4, <1>5, RingHolds
<1>11. QED
  BY <1>3, <1>5, <1>8, <1>9, <1>10 DEF w

(* Moving the index lets the reader have what is in that slot.             *)
LEMMA AdvanceAppends ==
    ASSUME NEW q, Ring(q), ~QueueIsFull(q)
    PROVE  LET w == AdvanceWrite(q) IN
           /\ Ring(w) /\ ~QueueIsEmpty(w)
           /\ Contents(w) = Append(Contents(q), q.storage_packet[Slot(q, q.wr_idx)])
           /\ w.rd_idx = q.rd_idx
<1> DEFINE w == AdvanceWrite(q)
           n == QueueUsedSize(q)
<1>1. /\ q.rd_idx \in 0 .. IndexWrap - 1 /\ q.wr_idx \in 0 .. IndexWrap - 1
      /\ n \in 0 .. RingSize - 1
  BY RingHolds, Sizes
<1>held.
      /\ Slot(q, q.wr_idx) = (q.rd_idx + n) % RingSize
      /\ Contents(q) = [i \in 1 .. n |-> q.storage_packet[(q.rd_idx + i - 1) % RingSize]]
  BY RingHolds, Sizes
<1>2. w = [rd_idx |-> q.rd_idx, wr_idx |-> (q.wr_idx + 1) % IndexWrap, mask |-> RingSize - 1,
           storage_packet |-> [j \in 0 .. RingSize - 1 |-> q.storage_packet[j]]]
  <2>1. w = [q EXCEPT !.wr_idx = (q.wr_idx + 1) % IndexWrap]
    BY DEF AdvanceWrite
  <2> HIDE DEF w
  <2>2. QED
    BY <2>1, RecordEdits, RingRecord
<1> HIDE DEF w
<1>3. /\ w.rd_idx = q.rd_idx /\ w.wr_idx = (q.wr_idx + 1) % IndexWrap
      /\ w.storage_packet = [j \in 0 .. RingSize - 1 |-> q.storage_packet[j]]
  BY <1>2
<1>4. w.storage_packet = q.storage_packet
  BY <1>3 DEF Ring
<1>5. QueueUsedSize(w) = n + 1 /\ w.wr_idx \in 0 .. IndexWrap - 1
  <2>1. w.wr_idx = IF q.wr_idx + 1 < IndexWrap THEN q.wr_idx + 1 ELSE q.wr_idx + 1 - IndexWrap
    <3>1. 1 \in 0 .. IndexWrap
      BY Sizes
    <3>2. QED
      BY <1>1, <1>3, <3>1, Sizes, ModSum
  <2>2. n = IF q.wr_idx >= q.rd_idx THEN q.wr_idx - q.rd_idx ELSE q.wr_idx - q.rd_idx + IndexWrap
    BY <1>1, Sizes, ModDifference DEF QueueUsedSize
  <2>3. w.wr_idx \in 0 .. IndexWrap - 1
    BY <1>1, <2>1, Sizes
  <2>4. QueueUsedSize(w) =
            IF w.wr_idx >= q.rd_idx THEN w.wr_idx - q.rd_idx ELSE w.wr_idx - q.rd_idx + IndexWrap
    <3>1. QueueUsedSize(w) = (w.wr_idx - q.rd_idx) % IndexWrap
      BY <1>3 DEF QueueUsedSize
    <3>2. QED
      BY <1>1, <2>3, <3>1, Sizes, ModDifference
  <2> HIDE DEF n
  <2>5. QED
    BY <1>1, <2>1, <2>2, <2>3, <2>4, Sizes
<1>6. Ring(w)
  <2>1. w = [rd_idx |-> w.rd_idx, wr_idx |-> w.wr_idx, mask |-> RingSize - 1,
             storage_packet |-> [j \in 0 .. RingSize - 1 |-> w.storage_packet[j]]]
    BY <1>2
  <2>2. QED
    BY <1>1, <1>3, <1>5, <2>1, Sizes DEF Ring
<1> HIDE DEF n
<1>7. Contents(w) = [i \in 1 .. n + 1 |-> q.storage_packet[(q.rd_idx + i - 1) % RingSize]]
  BY <1>3, <1>4, <1>5, <1>6, RingHolds
<1>8. Contents(w) = Append(Contents(q), q.storage_packet[(q.rd_idx + n) % RingSize])
  <2> DEFINE at(i) == q.storage_packet[(q.rd_idx + i - 1) % RingSize]
             S == {at(i) : i \in 1 .. n + 1}
  <2>1. [i \in 1 .. n |-> at(i)] \in Seq(S) /\ at(n + 1) \in S /\ n \in Nat
    <3> HIDE DEF at
    <3>1. QED
      BY <1>1
  <2>2. q.rd_idx + n = q.rd_idx + (n + 1) - 1
    BY <1>1
  <2> HIDE DEF S
  <2>3. Append([i \in 1 .. n |-> at(i)], at(n + 1)) = [i \in 1 .. n + 1 |-> at(i)]
    <3> HIDE DEF at
    <3>1. QED
      BY <2>1
  <2>4. QED
    BY <1>held, <1>7, <2>2, <2>3
<1>9. ~QueueIsEmpty(w)
  BY <1>1, <1>5, <1>6, RingHolds
<1>10. QED
  BY <1>held, <1>3, <1>6, <1>8, <1>9 DEF w

(* The reader copies the oldest, and moving its index gives the slot back. *)
LEMMA PopTakes ==
    ASSUME NEW q, Ring(q), ~QueueIsEmpty(q)
    PROVE  LET w == QueuePopUpdate(q) IN
           /\ Ring(w) /\ ~QueueIsFull(w)
           /\ Contents(q) # <<>> /\ QueuePrePop(q) = Head(Contents(q))
           /\ Contents(w) = Tail(Contents(q))
           /\ w.wr_idx = q.wr_idx /\ w.storage_packet = q.storage_packet
           /\ Slot(w, w.wr_idx) = Slot(q, q.wr_idx)
<1> DEFINE w == QueuePopUpdate(q)
           n == QueueUsedSize(q)
<1>1. /\ q.rd_idx \in 0 .. IndexWrap - 1 /\ q.wr_idx \in 0 .. IndexWrap - 1
      /\ n \in 1 .. RingSize
  BY RingHolds, Sizes
<1>held.
      /\ Slot(q, q.rd_idx) = q.rd_idx % RingSize
      /\ Contents(q) = [i \in 1 .. n |-> q.storage_packet[(q.rd_idx + i - 1) % RingSize]]
  BY RingHolds, Sizes
<1>2. w = [rd_idx |-> (q.rd_idx + 1) % IndexWrap, wr_idx |-> q.wr_idx, mask |-> RingSize - 1,
           storage_packet |-> [j \in 0 .. RingSize - 1 |-> q.storage_packet[j]]]
  <2>1. w = [q EXCEPT !.rd_idx = (q.rd_idx + 1) % IndexWrap]
    BY DEF QueuePopUpdate
  <2> HIDE DEF w
  <2>2. QED
    BY <2>1, RecordEdits, RingRecord
<1> HIDE DEF w
<1>3. /\ w.rd_idx = (q.rd_idx + 1) % IndexWrap /\ w.wr_idx = q.wr_idx
      /\ w.storage_packet = [j \in 0 .. RingSize - 1 |-> q.storage_packet[j]]
      /\ w.mask = RingSize - 1
  BY <1>2
<1>4. w.storage_packet = q.storage_packet /\ w.mask = q.mask
  BY <1>3 DEF Ring
<1>5. /\ QueueUsedSize(w) = n - 1 /\ w.rd_idx \in 0 .. IndexWrap - 1
      /\ w.rd_idx = IF q.rd_idx + 1 < IndexWrap THEN q.rd_idx + 1 ELSE q.rd_idx + 1 - IndexWrap
  <2>1. w.rd_idx = IF q.rd_idx + 1 < IndexWrap THEN q.rd_idx + 1 ELSE q.rd_idx + 1 - IndexWrap
    <3>1. 1 \in 0 .. IndexWrap
      BY Sizes
    <3>2. QED
      BY <1>1, <1>3, <3>1, Sizes, ModSum
  <2>2. n = IF q.wr_idx >= q.rd_idx THEN q.wr_idx - q.rd_idx ELSE q.wr_idx - q.rd_idx + IndexWrap
    BY <1>1, Sizes, ModDifference DEF QueueUsedSize
  <2>3. w.rd_idx \in 0 .. IndexWrap - 1
    BY <1>1, <2>1, Sizes
  <2>4. QueueUsedSize(w) =
            IF q.wr_idx >= w.rd_idx THEN q.wr_idx - w.rd_idx ELSE q.wr_idx - w.rd_idx + IndexWrap
    <3>1. QueueUsedSize(w) = (q.wr_idx - w.rd_idx) % IndexWrap
      BY <1>3 DEF QueueUsedSize
    <3>2. QED
      BY <1>1, <2>3, <3>1, Sizes, ModDifference
  <2> HIDE DEF n
  <2>5. QED
    BY <1>1, <2>1, <2>2, <2>3, <2>4, Sizes
<1>6. Ring(w)
  <2>1. w = [rd_idx |-> w.rd_idx, wr_idx |-> w.wr_idx, mask |-> RingSize - 1,
             storage_packet |-> [j \in 0 .. RingSize - 1 |-> w.storage_packet[j]]]
    BY <1>2
  <2>2. QED
    <3>1. QueueUsedSize(w) <= RingSize
      <4> HIDE DEF n
      <4>1. QED
        BY <1>1, <1>5, Sizes
    <3>2. w.wr_idx \in 0 .. IndexWrap - 1 /\ w.rd_idx \in 0 .. IndexWrap - 1
      BY <1>1, <1>3, <1>5
    <3>3. QED
      BY <2>1, <3>1, <3>2 DEF Ring
<1> HIDE DEF n
<1>7. Contents(w) = [i \in 1 .. n - 1 |-> q.storage_packet[(w.rd_idx + i - 1) % RingSize]]
  BY <1>4, <1>5, <1>6, RingHolds
<1>8. ASSUME NEW i \in 1 .. n - 1
      PROVE  (w.rd_idx + i - 1) % RingSize = (q.rd_idx + (i + 1) - 1) % RingSize
  <2>1. CASE w.rd_idx = q.rd_idx + 1
    <3>1. w.rd_idx + i - 1 = q.rd_idx + (i + 1) - 1
      BY <1>1, <2>1
    <3>2. QED
      BY <3>1
  <2>2. CASE w.rd_idx = q.rd_idx + 1 - IndexWrap
    <3>1. PICK k \in Nat \ {0} : IndexWrap = k * RingSize
      BY Sizes
    <3> DEFINE a == w.rd_idx + i - 1
    <3>2. a \in Int /\ q.rd_idx + (i + 1) - 1 = a + k * RingSize
      BY <1>1, <1>5, <2>2, <3>1, Sizes
    <3> HIDE DEF a
    <3>3. (a + k * RingSize) % RingSize = a % RingSize
      <4>1. /\ a = (a \div RingSize) * RingSize + (a % RingSize)
            /\ a % RingSize \in 0 .. RingSize - 1 /\ a \div RingSize \in Int
        BY <3>2, DivMod, Sizes
      <4> DEFINE b == a \div RingSize
                 r == a % RingSize
      <4> HIDE DEF b, r
      <4>2. a + k * RingSize = (b + k) * RingSize + r /\ b + k \in Int /\ r \in 0 .. RingSize - 1
        BY <4>1, Sizes DEF b, r
      <4>3. QED
        BY <4>2, ModIs, Sizes DEF r
    <3>4. QED
      BY <3>2, <3>3 DEF a
  <2>3. QED
    BY <1>5, <2>1, <2>2
<1>9. Contents(w) = Tail(Contents(q)) /\ Contents(q) # <<>>
      /\ Head(Contents(q)) = q.storage_packet[q.rd_idx % RingSize]
  <2> DEFINE at(i) == q.storage_packet[(q.rd_idx + i - 1) % RingSize]
             S == {at(i) : i \in 1 .. n}
  <2>1. Contents(q) = [i \in 1 .. n |-> at(i)] /\ n \in Nat /\ n >= 1
    BY <1>1, <1>held
  <2>2. Contents(w) = [i \in 1 .. n - 1 |-> at(i + 1)]
    BY <1>1, <1>7, <1>8
  <2>3. [i \in 1 .. n |-> at(i)] \in Seq(S)
    <3> HIDE DEF at
    <3>1. QED
      BY <2>1
  <2>4. at(1) = q.storage_packet[q.rd_idx % RingSize]
    <3>1. q.rd_idx + 1 - 1 = q.rd_idx
      BY <1>1
    <3>2. QED
      BY <3>1
  <2> HIDE DEF at, S
  <2>5. /\ Tail([i \in 1 .. n |-> at(i)]) = [i \in 1 .. n - 1 |-> at(i + 1)]
        /\ Head([i \in 1 .. n |-> at(i)]) = at(1)
        /\ [i \in 1 .. n |-> at(i)] # <<>>
    BY <2>1, <2>3
  <2>6. QED
    BY <2>1, <2>2, <2>4, <2>5
<1>10. ~QueueIsFull(w)
  BY <1>1, <1>5, <1>6, RingHolds
<1>11. QueuePrePop(q) = Head(Contents(q))
  BY <1>held, <1>9 DEF QueuePrePop
<1>12. Slot(w, w.wr_idx) = Slot(q, q.wr_idx)
  BY <1>3, <1>4 DEF Slot
<1>13. QED
  BY <1>3, <1>4, <1>6, <1>9, <1>10, <1>11, <1>12 DEF w

(* A ring begins empty, as if it had been there all along.                 *)
LEMMA NewRing ==
    LET q == InitQueue(QueueSize, <<>>) IN
    /\ Ring(q) /\ ~QueueIsFull(q) /\ Contents(q) = <<>>
    /\ QueueIsEmpty(NoQueue) /\ Contents(NoQueue) = <<>>
<1> DEFINE q == InitQueue(QueueSize, <<>>)
<1>1. q = [rd_idx |-> 0, wr_idx |-> 0, mask |-> q.mask,
           storage_packet |-> [k \in 0 .. q.mask |-> <<>>]]
  BY DEF InitQueue
<1>2. q.mask = RingSize - 1 /\ q.mask \in Nat
  BY RingAssumption DEF RingSize
<1> HIDE DEF q
<1>3. 0 % IndexWrap = 0
  BY Sizes
<1>4. Ring(q)
  <2>1. q = [rd_idx |-> q.rd_idx, wr_idx |-> q.wr_idx, mask |-> RingSize - 1,
             storage_packet |-> [k \in 0 .. RingSize - 1 |-> q.storage_packet[k]]]
    BY <1>1, <1>2
  <2>2. q.rd_idx = 0 /\ q.wr_idx = 0
    BY <1>1
  <2>3. QueueUsedSize(q) = 0
    BY <1>3, <2>2 DEF QueueUsedSize
  <2>4. QED
    BY <2>1, <2>2, <2>3, Sizes DEF Ring
<1>5. q.rd_idx = 0 /\ q.wr_idx = 0
  BY <1>1
<1>6. QueueUsedSize(q) = 0
  BY <1>3, <1>5 DEF QueueUsedSize
<1>7. ~QueueIsFull(q) /\ Contents(q) = <<>>
  BY <1>4, <1>6, RingHolds, Sizes
<1>8. QueueUsedSize(NoQueue) = 0 /\ QueueIsEmpty(NoQueue)
  BY <1>3 DEF NoQueue, QueueUsedSize, QueueIsEmpty
<1>9. Contents(NoQueue) = <<>>
  BY <1>8 DEF Contents
<1>10. QED
  BY <1>4, <1>7, <1>8, <1>9 DEF q
-----------------------------------------------------------------------------
LEMMA Appended ==
    ASSUME NEW S, NEW s \in Seq(S), NEW e \in S
    PROVE  /\ Append(s, e) \in Seq(S) /\ Len(s) \in Nat /\ DOMAIN s = 1 .. Len(s)
           /\ DOMAIN Append(s, e) = 1 .. Len(s) + 1
           /\ \A i \in DOMAIN s : Append(s, e)[i] = s[i]
           /\ Append(s, e)[Len(s) + 1] = e
  OBVIOUS

LEMMA Shortened ==
    ASSUME NEW S, NEW s \in Seq(S), s # <<>>
    PROVE  /\ Tail(s) \in Seq(S) /\ 1 \in DOMAIN s /\ Head(s) = s[1] /\ Head(s) \in S
           /\ Len(s) \in Nat /\ DOMAIN s = 1 .. Len(s)
           /\ \A i \in DOMAIN Tail(s) : i \in Nat /\ i + 1 \in DOMAIN s /\ Tail(s)[i] = s[i + 1]
           /\ \A i \in DOMAIN s : i = 1 \/ (i - 1 \in DOMAIN Tail(s) /\ s[i] = Tail(s)[i - 1])
<1>1. Len(s) \in Nat /\ Len(s) # 0 /\ DOMAIN s = 1 .. Len(s)
  OBVIOUS
<1>2. Tail(s) \in Seq(S) /\ Head(s) = s[1] /\ Head(s) \in S
  OBVIOUS
<1>3. DOMAIN Tail(s) = 1 .. Len(s) - 1 /\ \A i \in 1 .. Len(s) - 1 : Tail(s)[i] = s[i + 1]
  OBVIOUS
<1>4. QED
  BY <1>1, <1>2, <1>3

LEMMA TailOfAppended ==
    ASSUME NEW S, NEW s \in Seq(S), s # <<>>, NEW e \in S
    PROVE  Tail(Append(s, e)) = Append(Tail(s), e)
  OBVIOUS

LEMMA SequencesAsFunctions ==
    ASSUME NEW S, NEW s \in Seq(S)
    PROVE  /\ \A e \in S :
              Append(s, e) = [i \in 1 .. Len(s) + 1 |-> IF i <= Len(s) THEN s[i] ELSE e]
           /\ s # <<>> => Tail(s) = [i \in 1 .. Len(s) - 1 |-> s[i + 1]]
<1>1. ASSUME NEW t \in Seq(S) PROVE t = [i \in 1 .. Len(t) |-> t[i]] /\ Len(t) \in Nat
  OBVIOUS
<1>2. ASSUME NEW e \in S
      PROVE  Append(s, e) = [i \in 1 .. Len(s) + 1 |-> IF i <= Len(s) THEN s[i] ELSE e]
  <2>0. Append(s, e) \in Seq(S)
    BY <1>2
  <2>1. PICK t \in Seq(S) : t = Append(s, e)
    BY <2>0, Zenon
  <2>2. /\ Len(t) = Len(s) + 1
        /\ \A i \in 1 .. Len(s) + 1 : t[i] = IF i <= Len(s) THEN s[i] ELSE e
    BY <2>1
  <2>3. t = [i \in 1 .. Len(s) + 1 |-> t[i]]
    BY <1>1, <2>2
  <2>4. QED
    BY <2>1, <2>2, <2>3
<1>3. ASSUME s # <<>> PROVE Tail(s) = [i \in 1 .. Len(s) - 1 |-> s[i + 1]]
  <2>0. Tail(s) \in Seq(S)
    BY <1>3
  <2>1. PICK t \in Seq(S) : t = Tail(s)
    BY <2>0, Zenon
  <2>2. Len(t) = Len(s) - 1 /\ \A i \in 1 .. Len(s) - 1 : t[i] = s[i + 1]
    BY <1>3, <2>1
  <2>3. t = [i \in 1 .. Len(s) - 1 |-> t[i]]
    BY <1>1, <2>2
  <2>4. QED
    BY <2>1, <2>2, <2>3
<1>4. QED
  BY <1>2, <1>3

LEMMA FollowAppend ==
    ASSUME NEW l, NEW frames \in Seq(Frame), Follow(l, frames),
           NEW f, Whole(f), f.lidar = l, AllBefore(PointsIn(frames), PointsOf(f))
    PROVE  /\ Append(frames, f) \in Seq(Frame) /\ Follow(l, Append(frames, f))
           /\ PointsIn(Append(frames, f)) = PointsIn(frames) \cup PointsOf(f)
<1> DEFINE s == Append(frames, f)
           n == Len(frames)
<1>1. f \in Frame
  BY DEF Whole
<1>2. /\ s \in Seq(Frame) /\ n \in Nat /\ DOMAIN frames = 1 .. n /\ DOMAIN s = 1 .. n + 1
      /\ \A i \in 1 .. n : s[i] = frames[i]
      /\ s[n + 1] = f
  BY <1>1, Appended
<1> HIDE DEF s, n
<1>3. \A i \in DOMAIN s : Whole(s[i]) /\ s[i].lidar = l
  BY <1>2 DEF Follow
<1>4. ASSUME NEW i \in DOMAIN s, NEW j \in DOMAIN s, i < j
      PROVE  AllBefore(PointsOf(s[i]), PointsOf(s[j]))
  <2>1. i \in 1 .. n
    BY <1>2, <1>4
  <2>2. CASE j = n + 1
    <3>1. PointsOf(frames[i]) \subseteq PointsIn(frames)
      BY <1>2, <2>1 DEF PointsIn
    <3>2. QED
      BY <1>2, <2>1, <2>2, <3>1 DEF AllBefore
  <2>3. CASE j # n + 1
    BY <1>2, <1>4, <2>1, <2>3 DEF Follow
  <2>4. QED
    BY <2>2, <2>3
<1>5. PointsIn(s) = PointsIn(frames) \cup PointsOf(f)
  <2>1. PointsIn(s) \subseteq PointsIn(frames) \cup PointsOf(f)
    BY <1>2 DEF PointsIn
  <2>2. PointsIn(frames) \subseteq PointsIn(s) /\ PointsOf(f) \subseteq PointsIn(s)
    BY <1>2 DEF PointsIn
  <2>3. QED
    BY <2>1, <2>2
<1>6. QED
  BY <1>2, <1>3, <1>4, <1>5 DEF s, Follow

LEMMA FollowTail ==
    ASSUME NEW l, NEW S, NEW frames \in Seq(S), frames # <<>>, Follow(l, frames)
    PROVE  /\ Follow(l, Tail(frames))
           /\ Whole(Head(frames)) /\ Head(frames).lidar = l
           /\ PointsIn(frames) = PointsOf(Head(frames)) \cup PointsIn(Tail(frames))
           /\ AllBefore(PointsOf(Head(frames)), PointsIn(Tail(frames)))
<1> DEFINE t == Tail(frames)
<1>1. /\ 1 \in DOMAIN frames /\ Head(frames) = frames[1]
      /\ DOMAIN frames \subseteq Nat
      /\ \A i \in DOMAIN t : i \in Nat /\ i + 1 \in DOMAIN frames /\ t[i] = frames[i + 1]
      /\ \A i \in DOMAIN frames : i = 1 \/ (i - 1 \in DOMAIN t /\ frames[i] = t[i - 1])
  BY Shortened
<1>2. \A i \in DOMAIN t : 1 < i + 1
  <2>1. \A i \in DOMAIN t : i \in 1 .. Len(t)
    OBVIOUS
  <2>2. QED
    BY <2>1
<1> HIDE DEF t
<1>3. Follow(l, t)
  BY <1>1 DEF Follow
<1>4. Whole(Head(frames)) /\ Head(frames).lidar = l
  BY <1>1 DEF Follow
<1>5. PointsIn(frames) = PointsOf(Head(frames)) \cup PointsIn(t)
  <2>1. PointsIn(t) \subseteq PointsIn(frames) /\ PointsOf(Head(frames)) \subseteq PointsIn(frames)
    BY <1>1 DEF PointsIn
  <2>2. PointsIn(frames) \subseteq PointsOf(Head(frames)) \cup PointsIn(t)
    BY <1>1 DEF PointsIn
  <2>3. QED
    BY <2>1, <2>2
<1>6. AllBefore(PointsOf(Head(frames)), PointsIn(t))
  BY <1>1, <1>2 DEF Follow, AllBefore, PointsIn
<1>7. QED
  BY <1>3, <1>4, <1>5, <1>6 DEF t

(* A message tells which frame it was made of.                             *)
LEMMA MessageOfFrame ==
    ASSUME NEW l \in Handles, NEW f, Whole(f), f.lidar = l
    PROVE  Message(l, f) \in MessageSet /\ FrameOf(Message(l, f)) = f
<1>1. f \in Frame /\ f.points \in Seq(Point)
  BY DEF Whole, Frame
<1>points. /\ \A i \in DOMAIN f.points : f.points[i] \in Point
           /\ DOMAIN f.points = 1 .. Len(f.points) /\ Len(f.points) \in Nat
  BY <1>1
<1>2. /\ Message(l, f).of = l /\ Message(l, f).lidar_id = l
      /\ Message(l, f).timebase = f.base_time
      /\ Message(l, f).points = [i \in DOMAIN f.points |->
            [num |-> f.points[i].num, by |-> f.points[i].by, timestamp |-> f.points[i].stamp,
             offset_time |-> (f.points[i].stamp - f.base_time) % OffsetWrap,
             last_offset |-> (f.points[i].stamp + Span - f.base_time) % OffsetWrap]]
  BY DEF Message
<1>3. Message(l, f) \in MessageSet
  <2>1. f.base_time \in Nat
    BY <1>1 DEF Frame
  <2>2. ASSUME NEW i \in DOMAIN f.points
        PROVE  [num |-> f.points[i].num, by |-> f.points[i].by, timestamp |-> f.points[i].stamp,
                offset_time |-> (f.points[i].stamp - f.base_time) % OffsetWrap,
                last_offset |-> (f.points[i].stamp + Span - f.base_time) % OffsetWrap] \in Sample
    <3>1. f.points[i].num \in Nat /\ f.points[i].stamp \in Nat /\ f.points[i].by \in Clocks
      BY <1>points DEF Point
    <3>2. (f.points[i].stamp - f.base_time) % OffsetWrap \in Nat
      BY <2>1, <3>1, FramesAssumption, DivMod
    <3>3. (f.points[i].stamp + Span - f.base_time) % OffsetWrap \in Nat
      <4>1. f.points[i].stamp + Span - f.base_time \in Int /\ OffsetWrap \in Nat \ {0}
        BY <2>1, <3>1, FramesAssumption
      <4>2. QED
        BY <4>1, DivMod
    <3>4. QED
      BY <3>1, <3>2, <3>3 DEF Sample
  <2>3. Message(l, f).points \in Seq(Sample)
    BY <1>2, <1>points, <2>2
  <2>4. QED
    BY <1>2, <2>1, <2>3 DEF Message, MessageSet
<1>4. FrameOf(Message(l, f)).points = f.points
  <2>1. FrameOf(Message(l, f)).points = [i \in DOMAIN f.points |->
            [num |-> f.points[i].num, stamp |-> f.points[i].stamp, by |-> f.points[i].by]]
    BY <1>2 DEF FrameOf
  <2>2. \A i \in DOMAIN f.points :
            f.points[i] = [num |-> f.points[i].num, stamp |-> f.points[i].stamp, by |-> f.points[i].by]
    BY <1>points DEF Point
  <2>3. f.points = [i \in DOMAIN f.points |-> f.points[i]]
    BY <1>1
  <2> HIDE DEF FrameOf
  <2>4. QED
    BY <2>1, <2>2, <2>3
<1>5. QED
  BY <1>1, <1>2, <1>3, <1>4 DEF FrameOf, Frame
-----------------------------------------------------------------------------
(* Points move along the path, all of a place or the first ones.           *)
LEMMA Published ==
    ASSUME NEW A, NEW M, NEW R, NEW C, NEW D, NEW E, Path(A, M \cup R, C, D, E), AllBefore(M, R)
    PROVE  Path(A \cup M, R, C, D, E)
  BY DEF Path, AllBefore

LEMMA Stored ==
    ASSUME NEW A, NEW B, NEW C, NEW D, NEW E, Path(A, B, C, D, E)
    PROVE  Path(A, B \cup C, {}, D, E) /\ Path(A, B, {}, D, E) /\ AllBefore(B, C)
  BY DEF Path, AllBefore

LEMMA CutOff ==
    ASSUME NEW A, NEW B, NEW D, NEW E, Path(A, B, {}, D, E)
    PROVE  Path(A, B, D, {}, E)
  BY DEF Path, AllBefore

LEMMA Taken ==
    ASSUME NEW A, NEW B, NEW C, NEW D, NEW M, NEW R, Path(A, B, C, D, M \cup R), AllBefore(M, R)
    PROVE  Path(A, B, C, D \cup M, R)
  BY DEF Path, AllBefore

LEMMA Arrived ==
    ASSUME NEW A, NEW B, NEW C, NEW D, NEW E, NEW p, Path(A, B, C, D, E),
           \A q \in A \cup B \cup C \cup D \cup E : Before(q, p)
    PROVE  Path(A, B, C, D, E \cup {p})
  BY DEF Path, AllBefore

LEMMA AccountedMoves ==
    ASSUME NEW l, Accounted(l), OnTheWay(l)' = OnTheWay(l), UNCHANGED <<sent, dropped, clock, lidar_time>>
    PROVE  Accounted(l)'
  BY DEF Accounted, Point, Stamped

(* The contents of a ring are a sequence.                                  *)
LEMMA ContentsSequence ==
    ASSUME NEW q, q = NoQueue \/ Ring(q)
    PROVE  Contents(q) \in Seq({Contents(q)[i] : i \in DOMAIN Contents(q)})
<1>1. CASE q = NoQueue
  BY <1>1, NewRing
<1>2. CASE Ring(q)
  <2>1. PICK n \in Nat : DOMAIN Contents(q) = 1 .. n
    BY <1>2, RingHolds, Sizes
  <2>2. Contents(q) = [i \in 1 .. n |-> Contents(q)[i]]
    BY <2>1 DEF Contents
  <2>3. QED
    BY <2>1, <2>2
<1>3. QED
  BY <1>1, <1>2
-----------------------------------------------------------------------------
LEMMA SamePath ==
    ASSUME NEW l, TypesInv, PathInv(l), UnreadFrames(l)' = UnreadFrames(l),
           UNCHANGED <<published, frame_, points_clouds_, raw_packet_queue_, sent, dropped, lidar_time>>,
           clock' \in Nat, clock <= clock'
    PROVE  PathInv(l)'
<1>1. Out(l)' = Out(l) /\ Cutting(l)' = Cutting(l) /\ Collected(l)' = Collected(l) /\ Raw(l)' = Raw(l)
  BY DEF Out, Cutting, Collected, Raw
<1>2. OnTheWay(l)' = OnTheWay(l)
  BY <1>1 DEF OnTheWay
<1>3. OrderInv(l)'
  BY <1>1 DEF PathInv, OrderInv, RawInOrder
<1>4. ASSUME NEW p \in OnTheWay(l)' PROVE p \in Point /\ Stamped(l, p)'
  <2>1. clock \in Nat
    BY DEF TypesInv
  <2>2. p \in Point /\ p.stamp \in Nat /\ Stamped(l, p)
    BY <1>2, <1>4 DEF PathInv, Accounted, Point
  <2>3. QED
    BY <2>1, <2>2 DEF Stamped
<1>5. Accounted(l)'
  BY <1>2, <1>4 DEF PathInv, Accounted, Point
<1>6. QED
  BY <1>3, <1>5 DEF PathInv

LEMMA SameRings ==
    ASSUME RingsInv, UNCHANGED <<data, reading>>,
           thread'.pc # "push" \/ UNCHANGED <<thread, frame_>>
    PROVE  RingsInv' /\ \A l : UnreadFrames(l)' = UnreadFrames(l)
<1>1. \A l : UnreadFrames(l)' = UnreadFrames(l)
  BY DEF UnreadFrames
<1>2. \A l \in Handles : data'[l] = NoQueue \/ Ring(data'[l])
  BY DEF RingsInv
<1>3. QED
  BY <1>1, <1>2 DEF RingsInv

LEMMA SameFrame ==
    ASSUME FrameInv, UNCHANGED <<thread, frame_, points_clouds_>>
    PROVE  FrameInv'
  BY DEF FrameInv

LEMMA TickKeeps ==
    ASSUME FramesInv, Tick \/ Uninit \/ Joined \/ \E by \in Clocks : OnImuData(by)
    PROVE  FramesInv'
<1>1. /\ UNCHANGED <<lidar_time, sent, raw_packet_queue_, points_clouds_, handlers, last_pub_time_, thread,
                     frame_, data, reading, published, dropped>>
      /\ is_timestamp_sync_' \in BOOLEAN
      /\ clock' = clock \/ (clock < MaxClock /\ clock' = clock + 1)
      /\ is_quit_' = is_quit_ \/ is_quit_' \in {"requested", "joined"}
  <2>0. is_timestamp_sync_ \in BOOLEAN
    BY DEF FramesInv, TypesInv
  <2>1. CASE Tick
    BY <2>0, <2>1 DEF Tick, pub, rings
  <2>2. CASE Uninit
    BY <2>0, <2>2 DEF Uninit, pub, rings
  <2>3. CASE Joined
    BY <2>0, <2>3 DEF Joined, pub, rings
  <2>4. CASE \E by \in Clocks : OnImuData(by)
    BY <2>4 DEF OnImuData, pub, rings
  <2>5. QED
    BY <2>1, <2>2, <2>3, <2>4
<1>2. clock \in 1 .. MaxClock /\ clock' \in 1 .. MaxClock /\ clock <= clock'
  BY <1>1, FramesAssumption DEF FramesInv, TypesInv
<1>3. TypesInv'
  <2>1. is_quit_' \in {"no", "requested", "joined"}
    BY <1>1 DEF FramesInv, TypesInv
  <2>2. QED
    BY <1>1, <1>2, <2>1 DEF FramesInv, TypesInv
<1>4. RingsInv' /\ FrameInv' /\ \A l : UnreadFrames(l)' = UnreadFrames(l)
  BY <1>1, SameRings, SameFrame DEF FramesInv
<1>5. \A l \in Handles : PathInv(l)'
  BY <1>1, <1>2, <1>4, SamePath DEF FramesInv
<1>6. QED
  BY <1>3, <1>4, <1>5 DEF FramesInv

LEMMA TimeBounds == MaxTime \in Nat /\ Span \in Nat
  BY FramesAssumption

(* A packet arrives behind everything its lidar has sent.                  *)
LEMMA ArrivalKeeps ==
    ASSUME FramesInv, NEW h \in Handles, NEW by \in Clocks, NEW stamp \in Stamps(h, by),
           OnPointCloud(h, by, stamp)
    PROVE  FramesInv'
<1> DEFINE r == [lidar |-> h, num |-> sent[h] + 1, stamp |-> stamp, by |-> by]
           Packet == [lidar : Handles, num : Nat, stamp : Nat, by : Clocks]
           n == Len(raw_packet_queue_)
<1>1. /\ UNCHANGED <<clock, points_clouds_, handlers, last_pub_time_, thread, frame_, data, reading,
                     published, dropped, is_quit_>>
      /\ sent[h] < MaxPackets[h] /\ Len(raw_packet_queue_) < MaxBacklog
      /\ sent' = [sent EXCEPT ![h] = @ + 1] /\ is_timestamp_sync_' \in BOOLEAN
      /\ raw_packet_queue_' = Append(raw_packet_queue_, r)
      /\ lidar_time' = IF by = "lidar" THEN [lidar_time EXCEPT ![h] = stamp + Span] ELSE lidar_time
  BY DEF OnPointCloud, pub, rings
<1>stamp. /\ clock \in Nat /\ lidar_time \in [Handles -> Nat]
          /\ MaxTime \in Nat /\ Span \in Nat
          /\ stamp \in Nat
          /\ by = "host" => stamp = clock
          /\ by # "host" => lidar_time[h] <= stamp /\ stamp <= MaxTime
  <2>1. clock \in Nat /\ lidar_time \in [Handles -> Nat]
    BY DEF FramesInv, TypesInv
  <2>2. CASE by = "host"
    <3>1. stamp = clock
      BY <2>2 DEF Stamps
    <3>2. QED
      BY <2>1, <2>2, <3>1, TimeBounds
  <2>3. CASE by # "host"
    <3>1. stamp \in 1 .. MaxTime /\ stamp >= lidar_time[h]
      BY <2>3 DEF Stamps
    <3>2. lidar_time[h] \in Nat
      BY <2>1
    <3>3. QED
      BY <2>1, <2>3, <3>1, <3>2, TimeBounds
  <2>4. QED
    BY <2>2, <2>3
<1>time. /\ lidar_time' \in [Handles -> Nat]
         /\ \A l \in Handles : lidar_time[l] <= lidar_time'[l] /\ (l # h => lidar_time'[l] = lidar_time[l])
         /\ by = "lidar" => lidar_time'[h] = stamp + Span
         /\ \A l \in Handles : lidar_time'[l] <= MaxTime + Span
  <2>1. \A l \in Handles : lidar_time[l] \in Nat /\ lidar_time[l] <= MaxTime + Span
    BY DEF FramesInv, TypesInv
  <2>2. CASE by = "lidar"
    <3>1. lidar_time' = [lidar_time EXCEPT ![h] = stamp + Span]
      BY <1>1, <2>2
    <3>2. stamp + Span \in Nat /\ stamp + Span <= MaxTime + Span /\ lidar_time[h] <= stamp + Span
      BY <1>stamp, <2>1, <2>2
    <3>3. \A l \in Handles : lidar_time'[l] = IF l = h THEN stamp + Span ELSE lidar_time[l]
      BY <1>stamp, <3>1
    <3>4. QED
      BY <1>stamp, <2>1, <3>1, <3>2, <3>3
  <2>3. CASE by # "lidar"
    BY <1>1, <1>stamp, <2>1, <2>3
  <2>4. QED
    BY <2>2, <2>3
<1>2. /\ clock \in Nat /\ sent[h] \in Nat /\ r \in Packet /\ raw_packet_queue_ \in Seq(Packet)
      /\ sent \in [Handles -> Nat]
  BY <1>stamp DEF FramesInv, TypesInv
<1>3. /\ raw_packet_queue_' \in Seq(Packet) /\ n \in Nat /\ DOMAIN raw_packet_queue_ = 1 .. n
      /\ DOMAIN raw_packet_queue_' = 1 .. n + 1
      /\ \A i \in 1 .. n : raw_packet_queue_'[i] = raw_packet_queue_[i]
      /\ raw_packet_queue_'[n + 1] = r
  <2> HIDE DEF r, Packet
  <2>1. QED
    BY <1>1, <1>2, Appended
<1>4. TypesInv'
  <2>1. sent' \in [Handles -> Nat] /\ \A l \in Handles : sent'[l] <= MaxPackets[l]
    <3>1. \A l \in Handles : sent'[l] = IF l = h THEN sent[h] + 1 ELSE sent[l]
      BY <1>1, <1>2
    <3>2. sent' \in [Handles -> Nat]
      BY <1>1, <1>2
    <3>3. MaxPackets[h] \in Nat
      BY FramesAssumption
    <3>4. sent[h] + 1 <= MaxPackets[h]
      BY <1>1, <1>2, <3>3
    <3>5. \A l \in Handles : sent[l] <= MaxPackets[l]
      BY DEF FramesInv, TypesInv
    <3>6. QED
      BY <3>1, <3>2, <3>4, <3>5
  <2>2. Len(raw_packet_queue_') <= MaxBacklog
    BY <1>1, <1>3, FramesAssumption
  <2>3. QED
    BY <1>1, <1>3, <1>time, <2>1, <2>2 DEF FramesInv, TypesInv
<1>5. RingsInv' /\ FrameInv' /\ \A l : UnreadFrames(l)' = UnreadFrames(l)
  BY <1>1, SameRings, SameFrame DEF FramesInv
<1>p. PICK p : p = [num |-> sent[h] + 1, stamp |-> stamp, by |-> by]
  OBVIOUS
<1>fields. p.num = sent[h] + 1 /\ p.stamp = stamp /\ p.by = by
  BY <1>p
<1>6. r.lidar = h /\ PointOf(r) = p /\ r.num = p.num /\ r.stamp = p.stamp /\ r.by = p.by
  BY <1>p DEF PointOf
<1> HIDE DEF r, n, Packet
<1>7. \A l : /\ Out(l)' = Out(l) /\ Cutting(l)' = Cutting(l) /\ Collected(l)' = Collected(l)
             /\ l = h => Raw(l)' = Raw(l) \cup {p}
             /\ l # h => Raw(l)' = Raw(l)
  <2>1. ASSUME NEW l PROVE Out(l)' = Out(l) /\ Cutting(l)' = Cutting(l) /\ Collected(l)' = Collected(l)
    BY <1>1 DEF Out, Cutting, Collected
  <2>2. ASSUME NEW l PROVE Raw(l) \subseteq Raw(l)' /\ (l = h => p \in Raw(l)')
    BY <1>3, <1>6 DEF Raw
  <2>3. ASSUME NEW l, NEW x \in Raw(l)' PROVE x \in Raw(l) \/ (l = h /\ x = p)
    <3>1. PICK i \in 1 .. n + 1 : raw_packet_queue_'[i].lidar = l /\ x = PointOf(raw_packet_queue_'[i])
      BY <1>3, <2>3 DEF Raw
    <3>2. CASE i = n + 1
      BY <1>3, <1>6, <3>1, <3>2
    <3>3. CASE i # n + 1
      <4>1. i \in 1 .. n
        BY <1>3, <3>3
      <4>2. QED
        BY <1>3, <3>1, <4>1 DEF Raw
    <3>4. QED
      BY <3>2, <3>3
  <2>4. ASSUME NEW l, l = h PROVE Raw(l)' = Raw(l) \cup {p}
    BY <2>2, <2>3, <2>4
  <2>5. ASSUME NEW l, l # h PROVE Raw(l)' = Raw(l)
    <3>1. \A x \in Raw(l)' : x \in Raw(l)
      BY <2>3, <2>5
    <3>2. Raw(l) \subseteq Raw(l)'
      BY <2>2
    <3>3. QED
      BY <3>1, <3>2
  <2>6. QED
    BY <2>1, <2>4, <2>5
<1>8. \A q \in OnTheWay(h) : Before(q, p)
  <2> SUFFICES ASSUME NEW q \in OnTheWay(h) PROVE Before(q, p)
    OBVIOUS
  <2>1. q.num \in 1 .. sent[h] /\ q \in Point /\ Stamped(h, q)
    BY DEF FramesInv, PathInv, Accounted, Nums
  <2>2. q.num < p.num
    BY <1>2, <1>fields, <2>1
  <2>3. q.by \in Clocks /\ q.stamp \in Nat
    BY <2>1 DEF Point
  <2>4. q.by = by => Until(q) <= stamp
    <3>1. CASE q.by = "lidar" /\ by = "lidar"
      <4>1. q.stamp + Span <= lidar_time[h] /\ lidar_time[h] <= stamp /\ lidar_time[h] \in Nat
        BY <1>stamp, <2>1, <3>1 DEF Stamped
      <4>2. QED
        BY <1>stamp, <2>3, <3>1, <4>1 DEF Until
    <3>2. CASE q.by = "host" /\ by = "host"
      BY <1>stamp, <2>1, <3>2 DEF Stamped, Until
    <3>3. QED
      BY <2>3, <3>1, <3>2 DEF Clocks
  <2>5. QED
    BY <1>fields, <2>2, <2>4 DEF Before
<1>9. ASSUME NEW l \in Handles PROVE PathInv(l)'
  <2>1. Follow(l, Out(l))' /\ Follow(l, UnreadFrames(l))' /\ InOrder(points_clouds_[l])'
    BY <1>1, <1>5, <1>7 DEF FramesInv, PathInv, OrderInv
  <2>2. RawInOrder(l)'
    <3>1. ASSUME NEW i \in 1 .. n, raw_packet_queue_[i].lidar = h PROVE Before(raw_packet_queue_[i], r)
      <4>1. PointOf(raw_packet_queue_[i]) \in OnTheWay(h)
        BY <1>3, <3>1 DEF OnTheWay, Raw
      <4>2. QED
        BY <1>6, <1>8, <4>1 DEF Before, Until, PointOf
    <3>2. \A i, j \in 1 .. n + 1 : i < j => i \in 1 .. n /\ (j = n + 1 \/ j \in 1 .. n)
      BY <1>3
    <3>3. RawInOrder(l)
      BY DEF FramesInv, PathInv, OrderInv
    <3>4. QED
      BY <1>3, <1>6, <3>1, <3>2, <3>3 DEF RawInOrder
  <2>3. Path(PointsIn(Out(l)), PointsIn(UnreadFrames(l)), Cutting(l), Collected(l), Raw(l))'
    <3>1. Path(PointsIn(Out(l)), PointsIn(UnreadFrames(l)), Cutting(l), Collected(l), Raw(l))
      BY DEF FramesInv, PathInv, OrderInv
    <3>2. CASE l = h
      <4>1. Path(PointsIn(Out(l)), PointsIn(UnreadFrames(l)), Cutting(l), Collected(l), Raw(l) \cup {p})
        BY <1>8, <3>1, <3>2, Arrived DEF OnTheWay
      <4>2. QED
        BY <1>5, <1>7, <3>2, <4>1
    <3>3. CASE l # h
      BY <1>5, <1>7, <3>1, <3>3
    <3>4. QED
      BY <3>2, <3>3
  <2>4. Accounted(l)'
    <3>1. CASE l = h
      <4>1. OnTheWay(l)' = OnTheWay(l) \cup {p}
        BY <1>5, <1>7, <3>1 DEF OnTheWay
      <4>2. Nums(OnTheWay(l)') = Nums(OnTheWay(l)) \cup {sent[h] + 1}
        BY <4>1, <1>fields DEF Nums
      <4>3. sent'[l] = sent[h] + 1 /\ 1 .. sent'[l] = (1 .. sent[h]) \cup {sent[h] + 1}
        BY <1>1, <1>2, <3>1
      <4>4. dropped' = dropped /\ dropped[l] \subseteq 1 .. sent[h]
        BY <1>1, <3>1 DEF FramesInv, PathInv, Accounted
      <4>5. sent[h] + 1 \notin 1 .. sent[h]
        BY <1>2
      <4>6. p \in Point /\ Stamped(l, p)' /\ clock' = clock
        <5>1. p \in Point
          BY <1>2, <1>p, <1>stamp DEF Point
        <5>2. clock' = clock
          BY <1>1
        <5>3. Stamped(l, p)'
          BY <1>fields, <1>stamp, <1>time, <3>1, <5>2 DEF Stamped
        <5>4. QED
          BY <5>1, <5>2, <5>3
      <4>7. ASSUME NEW q \in OnTheWay(l)' PROVE q \in Point /\ Stamped(l, q)'
        <5>1. CASE q = p
          BY <4>6, <5>1
        <5>2. CASE q \in OnTheWay(l)
          <6>1. q \in Point /\ q.stamp \in Nat /\ Stamped(l, q)
            BY <5>2 DEF FramesInv, PathInv, Accounted, Point
          <6>2. lidar_time[l] \in Nat /\ lidar_time'[l] \in Nat /\ lidar_time[l] <= lidar_time'[l]
            BY <1>stamp, <1>time
          <6>3. QED
            BY <1>stamp, <4>6, <6>1, <6>2 DEF Stamped
        <5>3. QED
          BY <4>1, <4>7, <5>1, <5>2
      <4>8. Nums(OnTheWay(l)) \cup dropped[l] = 1 .. sent[h] /\ Nums(OnTheWay(l)) \cap dropped[l] = {}
        BY <3>1 DEF FramesInv, PathInv, Accounted
      <4>9. /\ Nums(OnTheWay(l)') \cup dropped'[l] = 1 .. sent'[l]
            /\ Nums(OnTheWay(l)') \cap dropped'[l] = {}
        BY <4>2, <4>3, <4>4, <4>5, <4>8
      <4>10. QED
        BY <4>7, <4>9 DEF Accounted, Point, Nums
    <3>2. CASE l # h
      <4>1. OnTheWay(l)' = OnTheWay(l)
        BY <1>5, <1>7, <3>2 DEF OnTheWay
      <4>2. sent'[l] = sent[l] /\ lidar_time'[l] = lidar_time[l] /\ UNCHANGED <<dropped, clock>>
        BY <1>1, <1>2, <1>time, <3>2
      <4>3. QED
        BY <4>1, <4>2 DEF FramesInv, PathInv, Accounted, Point, Stamped
    <3>3. QED
      BY <3>1, <3>2
  <2>5. QED
    BY <1>1, <2>1, <2>2, <2>3, <2>4 DEF FramesInv, PathInv, OrderInv, FrameOf
<1>10. QED
  BY <1>4, <1>5, <1>9 DEF FramesInv
-----------------------------------------------------------------------------
(* The lidars that a step is not about, and the one it is about.           *)
LEMMA OtherLidar ==
    ASSUME NEW l, PathInv(l), RawInOrder(l)',
           UnreadFrames(l)' = UnreadFrames(l), Cutting(l)' = Cutting(l), Raw(l)' = Raw(l),
           published'[l] = published[l], points_clouds_'[l] = points_clouds_[l],
           sent'[l] = sent[l], dropped'[l] = dropped[l], clock' = clock, lidar_time' = lidar_time
    PROVE  PathInv(l)'
<1>1. Out(l)' = Out(l) /\ Collected(l)' = Collected(l)
  BY DEF Out, Collected
<1>2. OnTheWay(l)' = OnTheWay(l)
  BY <1>1 DEF OnTheWay
<1>3. OrderInv(l)'
  BY <1>1 DEF PathInv, OrderInv
<1>4. Accounted(l)'
  BY <1>2 DEF PathInv, Accounted, Point, Stamped
<1>5. \A i \in DOMAIN published'[l] : published'[l][i] = Message(l, FrameOf(published'[l][i]))
  BY DEF PathInv
<1>6. QED
  BY <1>3, <1>4, <1>5 DEF PathInv

LEMMA MovedAlong ==
    ASSUME NEW l, PathInv(l), OrderInv(l)', OnTheWay(l)' = OnTheWay(l),
           published'[l] = published[l], UNCHANGED <<sent, dropped, clock, lidar_time>>
    PROVE  PathInv(l)'
<1>1. Accounted(l)'
  BY AccountedMoves DEF PathInv
<1>2. \A i \in DOMAIN published'[l] : published'[l][i] = Message(l, FrameOf(published'[l][i]))
  BY DEF PathInv
<1>3. QED
  BY <1>1, <1>2 DEF PathInv

LEMMA InOrderAppended ==
    ASSUME NEW s \in Seq(Point), InOrder(s), NEW e \in Point, \A i \in DOMAIN s : Before(s[i], e)
    PROVE  /\ Append(s, e) \in Seq(Point) /\ InOrder(Append(s, e)) /\ Append(s, e) # <<>>
           /\ {Append(s, e)[i] : i \in DOMAIN Append(s, e)} = {s[i] : i \in DOMAIN s} \cup {e}
<1> DEFINE w == Append(s, e)
           n == Len(s)
<1>1. /\ w \in Seq(Point) /\ n \in Nat /\ DOMAIN s = 1 .. n /\ DOMAIN w = 1 .. n + 1
      /\ \A i \in 1 .. n : w[i] = s[i]
      /\ w[n + 1] = e
  BY Appended
<1> HIDE DEF w, n
<1>2. \A i, j \in 1 .. n + 1 : i < j => i \in 1 .. n /\ (j = n + 1 \/ j \in 1 .. n)
  BY <1>1
<1>3. InOrder(w)
  BY <1>1, <1>2 DEF InOrder
<1>4. {w[i] : i \in DOMAIN w} = {s[i] : i \in DOMAIN s} \cup {e}
  <2>1. \A i \in 1 .. n + 1 : i = n + 1 \/ i \in 1 .. n
    BY <1>1
  <2>2. 1 .. n \subseteq 1 .. n + 1 /\ n + 1 \in 1 .. n + 1
    BY <1>1
  <2>3. QED
    BY <1>1, <2>1, <2>2
<1>5. w # <<>>
  <2>1. n + 1 \in DOMAIN w
    BY <1>1
  <2>2. DOMAIN <<>> = {}
    OBVIOUS
  <2>3. QED
    BY <2>1, <2>2
<1>6. QED
  BY <1>1, <1>3, <1>4, <1>5 DEF w

(* A packet goes from the queue to the points of its lidar.                *)
LEMMA TakeKeeps == ASSUME FramesInv, TakePacket PROVE FramesInv'
<1> DEFINE Packet == [lidar : Handles, num : Nat, stamp : Nat, by : Clocks]
<1>0. PICK r, h, p : r = Head(raw_packet_queue_) /\ h = r.lidar /\ p = PointOf(r)
  OBVIOUS
<1>1. /\ UNCHANGED <<clock, lidar_time, sent, is_timestamp_sync_, frame_, data, reading, published, dropped, is_quit_>>
      /\ thread.pc = "loop" /\ thread' = [pc |-> "check", id |-> h]
      /\ raw_packet_queue_ # <<>> /\ raw_packet_queue_' = Tail(raw_packet_queue_)
      /\ handlers' = handlers \cup {h}
      /\ points_clouds_' = [points_clouds_ EXCEPT ![h] = Append(@, p)]
  BY <1>0 DEF TakePacket, rings, PointOf
<1>2. raw_packet_queue_ \in Seq(Packet) /\ points_clouds_ \in [Handles -> Seq(Point)]
  BY DEF FramesInv, TypesInv
<1>3. /\ Tail(raw_packet_queue_) \in Seq(Packet) /\ 1 \in DOMAIN raw_packet_queue_
      /\ r = raw_packet_queue_[1] /\ r \in Packet
      /\ DOMAIN raw_packet_queue_ \subseteq Nat
      /\ \A i \in DOMAIN Tail(raw_packet_queue_) :
            i \in Nat /\ i + 1 \in DOMAIN raw_packet_queue_
            /\ Tail(raw_packet_queue_)[i] = raw_packet_queue_[i + 1]
      /\ \A i \in DOMAIN raw_packet_queue_ :
            i = 1 \/ (i - 1 \in DOMAIN Tail(raw_packet_queue_)
                      /\ raw_packet_queue_[i] = Tail(raw_packet_queue_)[i - 1])
  <2> HIDE DEF Packet
  <2>1. QED
    BY <1>0, <1>1, <1>2, Shortened
<1>4. Len(Tail(raw_packet_queue_)) <= Len(raw_packet_queue_) /\ Len(raw_packet_queue_) \in Nat
      /\ Len(Tail(raw_packet_queue_)) \in Nat
  BY <1>1, <1>2
<1>pos. \A i \in DOMAIN Tail(raw_packet_queue_) : 1 < i + 1
  <2>1. \A i \in DOMAIN Tail(raw_packet_queue_) : i \in 1 .. Len(Tail(raw_packet_queue_))
    BY <1>3
  <2>2. QED
    BY <2>1, <1>4
<1>5. h \in Handles /\ p \in Point
  BY <1>0, <1>3 DEF PointOf, Point
<1> HIDE DEF Packet
<1>6. /\ \A l : Out(l)' = Out(l) /\ Cutting(l)' = Cutting(l) /\ UnreadFrames(l)' = UnreadFrames(l)
      /\ \A l : l # h => Raw(l)' = Raw(l)
      /\ Raw(h) = {p} \cup Raw(h)'
  <2>1. ASSUME NEW l PROVE Out(l)' = Out(l) /\ Cutting(l)' = Cutting(l) /\ UnreadFrames(l)' = UnreadFrames(l)
    BY <1>1 DEF Out, Cutting, UnreadFrames
  <2>2. ASSUME NEW l PROVE Raw(l)' \subseteq Raw(l)
    BY <1>1, <1>3 DEF Raw
  <2>3. p \in Raw(h)
    BY <1>0, <1>3 DEF Raw
  <2>4. ASSUME NEW l, NEW x \in Raw(l) PROVE x \in Raw(l)' \/ (l = h /\ x = p)
    <3>1. PICK i \in DOMAIN raw_packet_queue_ :
              raw_packet_queue_[i].lidar = l /\ x = PointOf(raw_packet_queue_[i])
      BY <2>4 DEF Raw
    <3>2. CASE i = 1
      BY <1>0, <1>3, <3>1, <3>2
    <3>3. CASE i # 1
      BY <1>1, <1>3, <3>1, <3>3 DEF Raw
    <3>4. QED
      BY <3>2, <3>3
  <2>5. ASSUME NEW l, l # h PROVE Raw(l)' = Raw(l)
    <3>1. \A x \in Raw(l) : x \in Raw(l)'
      BY <2>4, <2>5
    <3>2. Raw(l)' \subseteq Raw(l)
      BY <2>2
    <3>3. QED
      BY <3>1, <3>2
  <2>6. Raw(h) = {p} \cup Raw(h)'
    <3>1. \A x \in Raw(h) : x \in Raw(h)' \/ x = p
      BY <2>4
    <3>2. Raw(h)' \subseteq Raw(h)
      BY <2>2
    <3>3. QED
      BY <2>3, <3>1, <3>2
  <2>7. QED
    BY <2>1, <2>5, <2>6
<1>7. ASSUME NEW l \in Handles PROVE RawInOrder(l)'
  <2>1. RawInOrder(l)
    BY DEF FramesInv, PathInv, OrderInv
  <2>2. ASSUME NEW i \in DOMAIN raw_packet_queue_', NEW j \in DOMAIN raw_packet_queue_', i < j,
               raw_packet_queue_'[i].lidar = l, raw_packet_queue_'[j].lidar = l
        PROVE  Before(raw_packet_queue_'[i], raw_packet_queue_'[j])
    <3>1. i \in Nat /\ j \in Nat /\ i + 1 < j + 1
      BY <1>1, <1>3, <2>2
    <3>2. QED
      BY <1>1, <1>3, <2>1, <2>2, <3>1 DEF RawInOrder
  <2>3. QED
    BY <2>2 DEF RawInOrder
<1>8. AllBefore({p}, Raw(h)')
  <2>1. ASSUME NEW x \in Raw(h)' PROVE Before(p, x)
    <3>1. PICK i \in DOMAIN raw_packet_queue_' :
              raw_packet_queue_'[i].lidar = h /\ x = PointOf(raw_packet_queue_'[i])
      BY <2>1 DEF Raw
    <3>2. RawInOrder(h)
      BY <1>5 DEF FramesInv, PathInv, OrderInv
    <3>3. Before(r, raw_packet_queue_[i + 1])
      BY <1>0, <1>1, <1>3, <1>pos, <3>1, <3>2 DEF RawInOrder
    <3>4. QED
      BY <1>0, <1>1, <1>3, <3>1, <3>3 DEF Before, Until, PointOf
  <2>2. QED
    BY <2>1 DEF AllBefore
<1>9. /\ points_clouds_'[h] \in Seq(Point) /\ InOrder(points_clouds_'[h]) /\ points_clouds_'[h] # <<>>
      /\ Collected(h)' = Collected(h) \cup {p}
      /\ \A l \in Handles : l # h => points_clouds_'[l] = points_clouds_[l]
      /\ points_clouds_' \in [Handles -> Seq(Point)]
  <2>1. points_clouds_[h] \in Seq(Point) /\ InOrder(points_clouds_[h])
    BY <1>2, <1>5 DEF FramesInv, PathInv, OrderInv
  <2>2. AllBefore(Collected(h), Raw(h))
    BY <1>5 DEF FramesInv, PathInv, OrderInv, Path
  <2>3. \A i \in DOMAIN points_clouds_[h] : Before(points_clouds_[h][i], p)
    BY <1>6, <2>2 DEF AllBefore, Collected
  <2>4. points_clouds_'[h] = Append(points_clouds_[h], p)
    BY <1>1, <1>2, <1>5
  <2>5. /\ Append(points_clouds_[h], p) \in Seq(Point) /\ InOrder(Append(points_clouds_[h], p))
        /\ Append(points_clouds_[h], p) # <<>>
        /\ {Append(points_clouds_[h], p)[i] : i \in DOMAIN Append(points_clouds_[h], p)}
               = {points_clouds_[h][i] : i \in DOMAIN points_clouds_[h]} \cup {p}
    BY <1>5, <2>1, <2>3, InOrderAppended
  <2>6. Collected(h)' = Collected(h) \cup {p}
    BY <2>4, <2>5 DEF Collected
  <2>7. \A l \in Handles : l # h => points_clouds_'[l] = points_clouds_[l]
    BY <1>1, <1>2
  <2>8. points_clouds_' \in [Handles -> Seq(Point)]
    BY <1>1, <1>2, <1>5, <2>5
  <2>9. QED
    BY <2>4, <2>5, <2>6, <2>7, <2>8
<1>10. TypesInv'
  <2>1. handlers' \subseteq Handles /\ IsFiniteSet(handlers')
    BY <1>1, <1>5, FS_AddElement DEF FramesInv, TypesInv
  <2>2. thread' \in [pc : {"loop", "check", "store", "push"}, id : Handles \union {0}]
    BY <1>1, <1>5
  <2>3. Len(raw_packet_queue_') <= MaxBacklog
    <3>1. Len(raw_packet_queue_) <= MaxBacklog
      BY DEF FramesInv, TypesInv
    <3>2. QED
      BY <1>1, <1>4, <3>1, FramesAssumption
  <2>4. raw_packet_queue_' \in Seq([lidar : Handles, num : Nat, stamp : Nat, by : Clocks])
    BY <1>1, <1>3 DEF Packet
  <2>5. QED
    BY <1>1, <1>9, <2>1, <2>2, <2>3, <2>4 DEF FramesInv, TypesInv
<1>11. RingsInv'
  BY <1>1, SameRings DEF FramesInv
<1>12. FrameInv'
  BY <1>1, <1>5, <1>9 DEF FramesInv, FrameInv
<1>13. ASSUME NEW l \in Handles PROVE PathInv(l)'
  <2>1. CASE l # h
    BY <1>1, <1>6, <1>7, <1>9, <2>1, OtherLidar DEF FramesInv
  <2>2. CASE l = h
    <3>1. PathInv(h)
      BY <1>5 DEF FramesInv
    <3>2. Path(PointsIn(Out(h)), PointsIn(UnreadFrames(h)), Cutting(h), Collected(h) \cup {p}, Raw(h)')
      BY <1>6, <1>8, <3>1, Taken DEF PathInv, OrderInv
    <3>3. Path(PointsIn(Out(h)), PointsIn(UnreadFrames(h)), Cutting(h), Collected(h), Raw(h))'
      BY <1>6, <1>9, <3>2
    <3>4. OrderInv(h)'
      BY <1>5, <1>6, <1>7, <1>9, <3>1, <3>3 DEF PathInv, OrderInv
    <3>5. OnTheWay(h)' = OnTheWay(h)
      BY <1>6, <1>9 DEF OnTheWay
    <3>6. QED
      BY <1>1, <2>2, <3>1, <3>4, <3>5, MovedAlong
  <2>3. QED
    BY <2>1, <2>2
<1>14. QED
  BY <1>10, <1>11, <1>12, <1>13 DEF FramesInv
-----------------------------------------------------------------------------
(* The points of some lidars leave together: one frame for each.           *)
LEMMA CutMoves ==
    ASSUME FramesInv, thread.pc = "check",
           NEW full \in SUBSET Handles, \A l \in full : points_clouds_[l] # <<>>,
           NEW n \in Nat, NEW order,
           \A i \in 1 .. n : order[i] \in full,
           \A i, j \in 1 .. n : order[i] = order[j] => i = j,
           \A l \in full : \E i \in 1 .. n : order[i] = l,
           NEW entries \in [1 .. n -> {Entry(l) : l \in full}],
           \A i \in 1 .. n : entries[i] = Entry(order[i]),
           Cut(full, entries),
           thread' = [thread EXCEPT !.pc = "store"],
           UNCHANGED <<clock, lidar_time, sent, is_timestamp_sync_, raw_packet_queue_, handlers, rings, dropped,
                       is_quit_>>
    PROVE  FramesInv'
<1>1. /\ points_clouds_' = [l \in Handles |-> IF l \in full THEN <<>> ELSE points_clouds_[l]]
      /\ frame_' = entries
      /\ UNCHANGED <<data, reading, published>>
  BY DEF Cut, rings
<1>2. frame_ = <<>> /\ thread'.pc = "store"
      /\ thread' \in [pc : {"loop", "check", "store", "push"}, id : Handles \union {0}]
  BY DEF FramesInv, FrameInv, TypesInv
<1>3. ASSUME NEW l \in full
      PROVE  Whole(Entry(l)) /\ Entry(l).lidar = l /\ PointsOf(Entry(l)) = Collected(l)
  <2>1. points_clouds_[l] \in Seq(Point) /\ points_clouds_[l] # <<>> /\ InOrder(points_clouds_[l])
    BY DEF FramesInv, TypesInv, PathInv, OrderInv
  <2>2. Head(points_clouds_[l]) \in Point
    BY <2>1
  <2>3. Head(points_clouds_[l]).stamp \in Nat
    BY <2>2 DEF Point
  <2>4. Entry(l) \in Frame
    BY <2>1, <2>3 DEF Entry, Frame
  <2>5. QED
    BY <2>1, <2>4 DEF Entry, Whole, PointsOf, Collected
<1>4. frame_' \in Seq(Frame) /\ DOMAIN frame_' = 1 .. n
      /\ \A i \in 1 .. n : frame_'[i] = Entry(order[i])
  <2>1. \A i \in 1 .. n : Entry(order[i]) \in Frame
    BY <1>3 DEF Whole
  <2>2. QED
    BY <1>1, <2>1
<1>5. \A l \in Handles : /\ l \in full => points_clouds_'[l] = <<>>
                         /\ l \notin full => points_clouds_'[l] = points_clouds_[l]
  BY <1>1
<1>6. ASSUME NEW l PROVE /\ Out(l)' = Out(l) /\ UnreadFrames(l)' = UnreadFrames(l) /\ Raw(l)' = Raw(l)
                         /\ Cutting(l) = {}
  BY <1>1, <1>2 DEF Out, UnreadFrames, Raw, Cutting
<1>7. ASSUME NEW l \in Handles PROVE Cutting(l)' = IF l \in full THEN Collected(l) ELSE {}
  <2>1. Cutting(l)' = UNION {PointsOf(Entry(order[i])) : i \in {i \in 1 .. n : Entry(order[i]).lidar = l}}
    BY <1>4 DEF Cutting
  <2>2. CASE l \in full
    <3>1. PICK i \in 1 .. n : order[i] = l
      BY <2>2
    <3>2. {j \in 1 .. n : Entry(order[j]).lidar = l} = {i}
      BY <1>3, <3>1
    <3>3. {PointsOf(Entry(order[j])) : j \in {i}} = {PointsOf(Entry(l))}
      BY <3>1
    <3>4. PointsOf(Entry(l)) = Collected(l)
      BY <1>3, <2>2
    <3>5. Cutting(l)' = UNION {PointsOf(Entry(l))}
      BY <2>1, <3>2, <3>3
    <3>6. QED
      BY <2>2, <3>4, <3>5
  <2>3. CASE l \notin full
    <3>1. {j \in 1 .. n : Entry(order[j]).lidar = l} = {}
      BY <1>3, <2>3
    <3>2. QED
      BY <2>1, <2>3, <3>1
  <2>4. QED
    BY <2>2, <2>3
<1>8. TypesInv'
  <2>1. points_clouds_' \in [Handles -> Seq(Point)]
    <3>1. points_clouds_ \in [Handles -> Seq(Point)] /\ <<>> \in Seq(Point)
      BY DEF FramesInv, TypesInv
    <3>2. QED
      BY <1>1, <3>1
  <2>2. QED
    BY <1>1, <1>2, <1>4, <2>1 DEF FramesInv, TypesInv
<1>9. RingsInv'
  BY <1>1, <1>2, SameRings DEF FramesInv
<1>10. FrameInv'
  <2>1. \A i \in DOMAIN frame_' : Whole(frame_'[i])
    BY <1>3, <1>4
  <2>2. ASSUME NEW i \in DOMAIN frame_', NEW j \in DOMAIN frame_', frame_'[i].lidar = frame_'[j].lidar
        PROVE  i = j
    <3>1. frame_'[i].lidar = order[i] /\ frame_'[j].lidar = order[j]
      BY <1>3, <1>4
    <3>2. QED
      BY <1>4, <2>2, <3>1
  <2>3. QED
    BY <1>2, <2>1, <2>2 DEF FrameInv
<1>11. ASSUME NEW l \in Handles PROVE RawInOrder(l)'
  BY DEF FramesInv, PathInv, OrderInv, RawInOrder
<1>12. ASSUME NEW l \in Handles PROVE PathInv(l)'
  <2>0. PathInv(l)
    BY DEF FramesInv
  <2>1. CASE l \notin full
    BY <1>1, <1>5, <1>6, <1>7, <1>11, <2>0, <2>1, OtherLidar
  <2>2. CASE l \in full
    <3>1. points_clouds_'[l] = <<>> /\ Collected(l)' = {} /\ Cutting(l)' = Collected(l)
      BY <1>5, <1>7, <2>2 DEF Collected
    <3>2. Path(PointsIn(Out(l)), PointsIn(UnreadFrames(l)), Collected(l), {}, Raw(l))
      BY <1>6, <2>0, CutOff DEF PathInv, OrderInv
    <3>3. Path(PointsIn(Out(l)), PointsIn(UnreadFrames(l)), Cutting(l), Collected(l), Raw(l))'
      BY <1>6, <3>1, <3>2
    <3>4. InOrder(points_clouds_'[l])
      BY <3>1 DEF InOrder
    <3>5. OrderInv(l)'
      BY <1>6, <1>11, <2>0, <3>3, <3>4 DEF PathInv, OrderInv
    <3>6. OnTheWay(l)' = OnTheWay(l)
      BY <1>6, <3>1 DEF OnTheWay
    <3>7. QED
      BY <1>1, <2>0, <3>5, <3>6, MovedAlong
  <2>3. QED
    BY <2>1, <2>2
<1>13. QED
  BY <1>8, <1>9, <1>10, <1>12 DEF FramesInv

(* CheckTimer finds that it is not time for a frame.                       *)
LEMMA NotYetKeeps ==
    ASSUME FramesInv, thread.pc = "check", thread' = [thread EXCEPT !.pc = "loop"],
           UNCHANGED <<clock, lidar_time, sent, is_timestamp_sync_, raw_packet_queue_, points_clouds_, handlers,
                       frame_, rings, dropped, is_quit_>>
    PROVE  FramesInv'
<1>1. UNCHANGED <<data, reading, published>>
  BY DEF rings
<1>2. thread' \in [pc : {"loop", "check", "store", "push"}, id : Handles \union {0}] /\ thread'.pc = "loop"
  BY DEF FramesInv, TypesInv
<1>3. TypesInv'
  BY <1>1, <1>2 DEF FramesInv, TypesInv
<1>4. RingsInv' /\ \A l : UnreadFrames(l)' = UnreadFrames(l)
  BY <1>1, <1>2, SameRings DEF FramesInv
<1>5. FrameInv'
  BY <1>2 DEF FramesInv, FrameInv
<1>6. clock \in Nat
  BY DEF FramesInv, TypesInv
<1>7. \A l \in Handles : PathInv(l)'
  BY <1>1, <1>4, <1>6, SamePath DEF FramesInv
<1>8. QED
  BY <1>3, <1>4, <1>5, <1>7 DEF FramesInv

LEMMA CheckTimerSyncKeeps == ASSUME FramesInv, CheckTimerSync PROVE FramesInv'
<1>1. /\ thread.pc = "check"
      /\ UNCHANGED <<clock, lidar_time, sent, is_timestamp_sync_, raw_packet_queue_, handlers, rings, dropped, is_quit_>>
  BY DEF CheckTimerSync
<1>2. PICK id \in Handles : id = thread.id /\ points_clouds_[id] # <<>>
  BY <1>1 DEF FramesInv, FrameInv
<1>3. CASE Cut({id}, <<Entry(id)>>) /\ thread' = [thread EXCEPT !.pc = "store"]
  <2> DEFINE order == [i \in 1 .. 1 |-> id]
  <2>1. /\ \A i \in 1 .. 1 : order[i] \in {id}
        /\ \A i, j \in 1 .. 1 : order[i] = order[j] => i = j
        /\ \A l \in {id} : \E i \in 1 .. 1 : order[i] = l
    OBVIOUS
  <2>2. PICK entries : entries = <<Entry(id)>>
    OBVIOUS
  <2>4. /\ entries \in [1 .. 1 -> {Entry(l) : l \in {id}}]
        /\ \A i \in 1 .. 1 : entries[i] = Entry(order[i])
        /\ Cut({id}, entries)
    <3> HIDE DEF Entry
    <3>1. entries \in [1 .. 1 -> {Entry(l) : l \in {id}}] /\ entries[1] = Entry(id)
      BY <2>2
    <3>2. Cut({id}, entries)
      BY <1>3, <2>2
    <3>3. QED
      BY <3>1, <3>2
  <2>3. {id} \in SUBSET Handles /\ \A l \in {id} : points_clouds_[l] # <<>>
    BY <1>2
  <2> HIDE DEF order
  <2>5. QED
    BY <1>1, <1>3, <2>1, <2>3, <2>4, CutMoves
<1>4. CASE thread' = [thread EXCEPT !.pc = "loop"] /\ UNCHANGED <<points_clouds_, frame_>>
  BY <1>1, <1>4, NotYetKeeps
<1>5. QED
  BY <1>2, <1>3, <1>4 DEF CheckTimerSync

LEMMA CheckTimerNoSyncKeeps == ASSUME FramesInv, CheckTimerNoSync PROVE FramesInv'
<1>1. /\ thread.pc = "check"
      /\ UNCHANGED <<clock, lidar_time, sent, is_timestamp_sync_, raw_packet_queue_, handlers, rings, dropped, is_quit_>>
  BY DEF CheckTimerNoSync
<1>2. CASE thread' = [thread EXCEPT !.pc = "loop"] /\ UNCHANGED <<points_clouds_, frame_>>
  BY <1>1, <1>2, NotYetKeeps
<1> DEFINE full == {l \in handlers : points_clouds_[l] # <<>>}
<1>3. ASSUME NEW order \in Bijection(1 .. Cardinality(full), full),
             Cut(full, [i \in DOMAIN order |-> Entry(order[i])]),
             thread' = [thread EXCEPT !.pc = "store"]
      PROVE  FramesInv'
  <2>1. handlers \subseteq Handles /\ IsFiniteSet(handlers)
    BY DEF FramesInv, TypesInv
  <2>2. PICK c : c = full
    OBVIOUS
  <2>3. c \in SUBSET Handles /\ (\A l \in c : points_clouds_[l] # <<>>) /\ c \subseteq handlers
    BY <2>1, <2>2
  <2>4. PICK n : n = Cardinality(c)
    OBVIOUS
  <2>5. n \in Nat
    BY <2>1, <2>3, <2>4, FS_Subset, FS_CardinalityType
  <2> HIDE DEF full
  <2>6. /\ order \in [1 .. n -> c]
        /\ \A i, j \in 1 .. n : order[i] = order[j] => i = j
        /\ \A l \in c : \E i \in 1 .. n : order[i] = l
    BY <1>3, <2>2, <2>4 DEF Bijection, Injection, Surjection, IsInjective
  <2>7. DOMAIN order = 1 .. n /\ \A i \in 1 .. n : order[i] \in c
    BY <2>6
  <2> DEFINE entries == [i \in 1 .. n |-> Entry(order[i])]
  <2>8. /\ entries \in [1 .. n -> {Entry(l) : l \in c}]
        /\ \A i \in 1 .. n : entries[i] = Entry(order[i])
        /\ Cut(c, entries)
    BY <1>3, <2>2, <2>7
  <2> HIDE DEF entries
  <2>9. QED
    BY <1>1, <1>3, <2>3, <2>5, <2>6, <2>7, <2>8, CutMoves
<1>4. QED
  BY <1>2, <1>3 DEF CheckTimerNoSync
-----------------------------------------------------------------------------
(* The first frame is stored or refused: the others stay.                  *)
LEMMA FrameLeaves ==
    ASSUME TypesInv, FrameInv, frame_ # <<>>, frame_' = Tail(frame_), UNCHANGED points_clouds_,
           thread'.pc = "store",
           NEW e, e = Head(frame_)
    PROVE  /\ e \in Frame /\ Whole(e) /\ e.lidar \in Handles
           /\ FrameInv' /\ frame_' \in Seq(Frame)
           /\ \A l : l # e.lidar => Cutting(l)' = Cutting(l)
           /\ Cutting(e.lidar) = PointsOf(e) /\ (\A l : l = e.lidar => Cutting(l)' = {})
<1>1. frame_ \in Seq(Frame)
  BY DEF TypesInv
<1>2. /\ Tail(frame_) \in Seq(Frame) /\ 1 \in DOMAIN frame_ /\ e = frame_[1] /\ e \in Frame
      /\ DOMAIN frame_ \subseteq Nat
      /\ \A i \in DOMAIN Tail(frame_) : i \in Nat /\ i + 1 \in DOMAIN frame_ /\ Tail(frame_)[i] = frame_[i + 1]
      /\ \A i \in DOMAIN frame_ :
            i = 1 \/ (i - 1 \in DOMAIN Tail(frame_) /\ frame_[i] = Tail(frame_)[i - 1])
  <2> HIDE DEF Frame
  <2>1. QED
    BY <1>1, Shortened
<1>pos. \A i \in DOMAIN Tail(frame_) : i + 1 # 1
  <2>1. \A i \in DOMAIN Tail(frame_) : i \in 1 .. Len(Tail(frame_))
    BY <1>2
  <2>2. QED
    BY <2>1, <1>2
<1>3. Whole(e) /\ e.lidar \in Handles
  BY <1>2 DEF FrameInv, Frame
<1>4. FrameInv'
  <2>1. \A i \in DOMAIN frame_' : Whole(frame_'[i])
    BY <1>2 DEF FrameInv
  <2>2. ASSUME NEW i \in DOMAIN frame_', NEW j \in DOMAIN frame_', frame_'[i].lidar = frame_'[j].lidar
        PROVE  i = j
    <3>1. i + 1 = j + 1
      BY <1>2, <2>2 DEF FrameInv
    <3>2. QED
      BY <1>2, <2>2, <3>1
  <2>3. QED
    BY <2>1, <2>2 DEF FrameInv
<1>5. \A i \in DOMAIN Tail(frame_) : Tail(frame_)[i].lidar # e.lidar
  BY <1>2, <1>pos DEF FrameInv
<1>6. ASSUME NEW l, l # e.lidar PROVE Cutting(l)' = Cutting(l)
  <2>1. Cutting(l)' \subseteq Cutting(l)
    BY <1>2 DEF Cutting
  <2>2. \A i \in DOMAIN frame_ : frame_[i].lidar = l =>
            i - 1 \in DOMAIN frame_' /\ frame_[i] = frame_'[i - 1]
    BY <1>2, <1>6
  <2>3. Cutting(l) \subseteq Cutting(l)'
    BY <2>2 DEF Cutting
  <2>4. QED
    BY <2>1, <2>3
<1>7. Cutting(e.lidar) = PointsOf(e)
  <2>1. {i \in DOMAIN frame_ : frame_[i].lidar = e.lidar} = {1}
    BY <1>2, <1>5
  <2>2. QED
    BY <1>2, <2>1 DEF Cutting
<1>8. ASSUME NEW l, l = e.lidar PROVE Cutting(l)' = {}
  BY <1>5, <1>8 DEF Cutting
<1>9. QED
  BY <1>2, <1>3, <1>4, <1>6, <1>7, <1>8

(* Points that were before or behind others have other numbers.            *)
LEMMA NumbersApart ==
    ASSUME NEW A, NEW B, NEW C, NEW D, NEW E, Path(A, B, C, D, E),
           \A p \in A \cup B \cup C \cup D \cup E : p.num \in Nat
    PROVE  Nums(A \cup B \cup D \cup E) \cap Nums(C) = {}
<1> SUFFICES ASSUME NEW p \in A \cup B \cup D \cup E, NEW q \in C, p.num = q.num PROVE FALSE
  BY DEF Nums
<1>1. p.num < q.num \/ q.num < p.num
  BY DEF Path, AllBefore, Before
<1>2. p.num \in Nat /\ q.num \in Nat
  OBVIOUS
<1>3. QED
  BY <1>1, <1>2

(* A frame whose lidar is not known, or whose ring is full, is refused.    *)
LEMMA RefuseKeeps == ASSUME FramesInv, Refuse PROVE FramesInv'
<1>0. PICK e, h : e = Head(frame_) /\ h = e.lidar
  OBVIOUS
<1>1. /\ UNCHANGED <<clock, lidar_time, sent, is_timestamp_sync_, raw_packet_queue_, points_clouds_, handlers, thread,
                     data, reading, published, is_quit_>>
      /\ thread.pc = "store" /\ frame_ # <<>> /\ frame_' = Tail(frame_)
      /\ dropped' = [dropped EXCEPT ![h] = @ \cup Numbers(e.points)]
  BY <1>0 DEF Refuse, pub, rings
<1>2. /\ e \in Frame /\ Whole(e) /\ h \in Handles
      /\ FrameInv' /\ frame_' \in Seq(Frame)
      /\ \A l : l # h => Cutting(l)' = Cutting(l)
      /\ Cutting(h) = PointsOf(e) /\ Cutting(h)' = {}
  BY <1>0, <1>1, FrameLeaves DEF FramesInv
<1>3. Numbers(e.points) = Nums(PointsOf(e)) /\ Numbers(e.points) \subseteq Nat
  <2>1. e.points \in Seq(Point)
    BY <1>2 DEF Frame
  <2>2. \A i \in DOMAIN e.points : e.points[i] \in Point
    BY <2>1
  <2>3. \A i \in DOMAIN e.points : e.points[i].num \in Nat
    BY <2>2 DEF Point
  <2>4. QED
    BY <2>3 DEF Numbers, Nums, PointsOf
<1>4. /\ dropped \in [Handles -> SUBSET Nat]
      /\ dropped' \in [Handles -> SUBSET Nat]
      /\ dropped'[h] = dropped[h] \cup Nums(PointsOf(e))
      /\ \A l \in Handles : l # h => dropped'[l] = dropped[l]
  <2>1. dropped \in [Handles -> SUBSET Nat]
    BY DEF FramesInv, TypesInv
  <2>2. QED
    BY <1>1, <1>2, <1>3, <2>1
<1>5. TypesInv'
  BY <1>1, <1>2, <1>4 DEF FramesInv, TypesInv
<1>6. RingsInv' /\ \A l : UnreadFrames(l)' = UnreadFrames(l)
  BY <1>1, SameRings DEF FramesInv
<1>7. ASSUME NEW l PROVE Out(l)' = Out(l) /\ Collected(l)' = Collected(l) /\ Raw(l)' = Raw(l)
  BY <1>1 DEF Out, Collected, Raw
<1>8. ASSUME NEW l \in Handles PROVE RawInOrder(l)'
  BY <1>1 DEF FramesInv, PathInv, OrderInv, RawInOrder
<1>9. ASSUME NEW l \in Handles PROVE PathInv(l)'
  <2>1. CASE l # h
    BY <1>1, <1>2, <1>4, <1>6, <1>7, <1>8, <2>1, OtherLidar DEF FramesInv
  <2>2. CASE l = h
    <3>1. PathInv(h)
      BY <1>2 DEF FramesInv
    <3> DEFINE rest == PointsIn(Out(h)) \cup PointsIn(UnreadFrames(h)) \cup Collected(h) \cup Raw(h)
    <3>2. OnTheWay(h) = rest \cup PointsOf(e) /\ OnTheWay(h)' = rest
      BY <1>2, <1>6, <1>7 DEF OnTheWay
    <3>3. Path(PointsIn(Out(h)), PointsIn(UnreadFrames(h)), Cutting(h), Collected(h), Raw(h))
      BY <3>1 DEF PathInv, OrderInv
    <3>4. OrderInv(h)'
      <4>1. Path(PointsIn(Out(h)), PointsIn(UnreadFrames(h)), {}, Collected(h), Raw(h))
        BY <3>3, Stored
      <4>2. Path(PointsIn(Out(h)), PointsIn(UnreadFrames(h)), Cutting(h), Collected(h), Raw(h))'
        BY <1>2, <1>6, <1>7, <4>1
      <4>3. QED
        BY <1>1, <1>2, <1>6, <1>7, <1>8, <3>1, <4>2 DEF PathInv, OrderInv
    <3>5. \A p \in OnTheWay(h) : p \in Point /\ Stamped(h, p)
      BY <3>1 DEF PathInv, Accounted
    <3>6. Nums(rest) \cap Nums(PointsOf(e)) = {}
      <4>1. \A p \in OnTheWay(h) : p.num \in Nat
        BY <3>5 DEF Point
      <4>2. QED
        BY <1>2, <3>3, <4>1, NumbersApart DEF OnTheWay
    <3> HIDE DEF rest
    <3>7. Nums(OnTheWay(h)) = Nums(rest) \cup Nums(PointsOf(e))
      BY <3>2 DEF Nums
    <3>8. Nums(OnTheWay(h)) \cup dropped[h] = 1 .. sent[h] /\ Nums(OnTheWay(h)) \cap dropped[h] = {}
      BY <3>1 DEF PathInv, Accounted
    <3>9. Nums(rest) \cup dropped'[h] = 1 .. sent'[h] /\ Nums(rest) \cap dropped'[h] = {}
      BY <1>1, <1>4, <3>6, <3>7, <3>8
    <3>10. \A p \in rest : p \in Point /\ Stamped(h, p)'
      BY <1>1, <3>2, <3>5 DEF Stamped
    <3>11. Accounted(h)'
      BY <3>2, <3>9, <3>10 DEF Accounted, Point, Nums
    <3>12. QED
      BY <1>1, <2>2, <3>1, <3>4, <3>11 DEF PathInv, FrameOf
  <2>3. QED
    BY <2>1, <2>2
<1>10. QED
  BY <1>2, <1>5, <1>6, <1>9 DEF FramesInv
-----------------------------------------------------------------------------
(* A ring that is about to be used holds what it held, which may be nothing*)
LEMMA RingInUse ==
    ASSUME NEW h, data[h] = NoQueue \/ Ring(data[h])
    PROVE  /\ Ring(RingOf(h)) /\ Contents(RingOf(h)) = Contents(data[h])
           /\ data[h] # NoQueue => RingOf(h) = data[h]
<1>1. CASE data[h] = NoQueue
  BY <1>1, NewRing DEF RingOf
<1>2. CASE data[h] # NoQueue
  BY <1>2 DEF RingOf
<1>3. QED
  BY <1>1, <1>2

(* The slot is filled; nobody can see it yet.                              *)
(* A filled slot is not in the ring before the write index moves.          *)
LEMMA FillHides ==
    ASSUME FramesInv, FillSlot
    PROVE  \A l \in Handles : UnreadFrames(l)' = UnreadFrames(l)
<1>0. PICK e, h, q : e = Head(frame_) /\ h = e.lidar /\ q = WriteSlot(RingOf(h), e)
  OBVIOUS
<1>1. reading' = reading /\ h \in Known /\ ~QueueIsFull(RingOf(h)) /\ data' = [data EXCEPT ![h] = q]
  BY <1>0 DEF FillSlot
<1>2. h \in Handles /\ data = [l \in Handles |-> data[l]]
  BY <1>1, FramesAssumption DEF FramesInv, TypesInv
<1>3. data'[h] = q /\ \A l \in Handles : l # h => data'[l] = data[l]
  BY <1>1, <1>2
<1>4. Ring(RingOf(h)) /\ Contents(RingOf(h)) = Contents(data[h])
  BY <1>2, RingInUse DEF FramesInv, RingsInv
<1>5. Contents(q) = Contents(data[h])
  BY <1>0, <1>1, <1>4, WriteKeeps
<1>6. QED
  BY <1>1, <1>3, <1>5 DEF UnreadFrames

LEMMA FillKeeps == ASSUME FramesInv, FillSlot PROVE FramesInv'
<1>0. PICK e, h, q : e = Head(frame_) /\ h = e.lidar /\ q = WriteSlot(RingOf(h), e)
  OBVIOUS
<1>1. /\ UNCHANGED <<clock, lidar_time, sent, is_timestamp_sync_, raw_packet_queue_, points_clouds_, handlers, frame_,
                     reading, published, dropped, is_quit_>>
      /\ thread.pc = "store" /\ frame_ # <<>> /\ thread' = [thread EXCEPT !.pc = "push"]
      /\ h \in Known /\ ~QueueIsFull(RingOf(h))
      /\ data' = [data EXCEPT ![h] = q]
  BY <1>0 DEF FillSlot, pub
<1>2. h \in Handles /\ data = [l \in Handles |-> data[l]]
  BY <1>1, FramesAssumption DEF FramesInv, TypesInv
<1>3. data'[h] = q /\ (\A l \in Handles : l # h => data'[l] = data[l]) /\ data' = [l \in Handles |-> data'[l]]
  BY <1>1, <1>2
<1>4. /\ Ring(RingOf(h)) /\ Contents(RingOf(h)) = Contents(data[h])
      /\ data[h] # NoQueue => RingOf(h) = data[h]
  BY <1>2, RingInUse DEF FramesInv, RingsInv
<1>5. /\ Ring(q) /\ ~QueueIsFull(q) /\ Contents(q) = Contents(data[h])
      /\ q.storage_packet[Slot(q, q.wr_idx)] = e
      /\ data[h] # NoQueue => q.rd_idx = data[h].rd_idx /\ q.wr_idx = data[h].wr_idx
  BY <1>0, <1>1, <1>4, WriteKeeps
<1>6. /\ thread'.pc = "push"
      /\ thread' \in [pc : {"loop", "check", "store", "push"}, id : Handles \union {0}]
  BY <1>1 DEF FramesInv, TypesInv
<1>7. TypesInv'
  BY <1>1, <1>3, <1>6 DEF FramesInv, TypesInv
<1>8. RingsInv'
  <2>1. \A l \in Handles : data'[l] = NoQueue \/ Ring(data'[l])
    BY <1>3, <1>5 DEF FramesInv, RingsInv
  <2>2. \A l \in reading : ~QueueIsEmpty(data'[l])
    <3>1. SUFFICES ASSUME NEW l \in reading PROVE ~QueueIsEmpty(data'[l])
      OBVIOUS
    <3>2. ~QueueIsEmpty(data[l]) /\ l \in Handles
      BY FramesAssumption DEF FramesInv, RingsInv
    <3>3. CASE l # h
      BY <1>3, <3>2, <3>3
    <3>4. CASE l = h
      <4>1. data[h] # NoQueue
        BY <3>2, <3>4, NewRing
      <4>2. QED
        BY <1>3, <1>5, <3>2, <3>4, <4>1 DEF QueueIsEmpty
    <3>5. QED
      BY <3>3, <3>4
  <2>3. QED
    BY <1>0, <1>1, <1>3, <1>5, <2>1, <2>2 DEF FramesInv, RingsInv
<1>9. FrameInv'
  BY <1>1, <1>6 DEF FramesInv, FrameInv
<1>10. clock \in Nat
  BY DEF FramesInv, TypesInv
<1>11. \A l \in Handles : PathInv(l)'
  <2>1. \A l \in Handles : UnreadFrames(l)' = UnreadFrames(l)
    BY FillHides
  <2>2. QED
    BY <1>1, <1>10, <2>1, SamePath DEF FramesInv
<1>12. QED
  BY <1>7, <1>8, <1>9, <1>11 DEF FramesInv
-----------------------------------------------------------------------------
LEMMA ContentsInUse ==
    ASSUME NEW q, Ring(q), ~QueueIsEmpty(q)
    PROVE  Contents(q) # <<>>
  BY PopTakes

LEMMA InFrames ==
    ASSUME NEW l, NEW S, NEW s \in Seq(S), Follow(l, s)
    PROVE  s \in Seq(Frame)
<1>1. \A i \in DOMAIN s : s[i] \in Frame
  BY DEF Follow, Whole
<1>2. QED
  BY <1>1

(* What is read by the other thread is the end of what the ring holds.     *)
LEMMA UnreadIs ==
    ASSUME TypesInv, RingsInv, NEW l \in Handles, Follow(l, UnreadFrames(l))
    PROVE  /\ UnreadFrames(l) \in Seq(Frame)
           /\ Contents(data[l]) \in Seq({Contents(data[l])[i] : i \in DOMAIN Contents(data[l])})
           /\ l \in reading => Ring(data[l]) /\ Contents(data[l]) # <<>>
<1>1. Contents(data[l]) \in Seq({Contents(data[l])[i] : i \in DOMAIN Contents(data[l])})
  BY ContentsSequence DEF RingsInv
<1>2. ASSUME l \in reading PROVE Ring(data[l]) /\ Contents(data[l]) # <<>>
  BY <1>2, NewRing, ContentsInUse DEF RingsInv
<1> DEFINE S == {Contents(data[l])[i] : i \in DOMAIN Contents(data[l])}
           c == Contents(data[l])
<1>3. UnreadFrames(l) \in Seq(S)
  <2>1. c \in Seq(S) /\ (l \in reading => c # <<>>)
    BY <1>1, <1>2
  <2>2. UnreadFrames(l) = IF l \in reading THEN Tail(c) ELSE c
    BY DEF UnreadFrames
  <2> HIDE DEF c, S
  <2>3. l \in reading => Tail(c) \in Seq(S)
    BY <2>1
  <2>4. QED
    BY <2>1, <2>2, <2>3
<1> HIDE DEF S
<1>4. QED
  BY <1>1, <1>2, <1>3, InFrames

(* The index moves: the frame is behind those that wait, for which there   *)
(* was a place.                                                            *)
LEMMA FrameEnters ==
    ASSUME FramesInv, MoveWriteIndex, NEW e, e = Head(frame_), NEW h, h = e.lidar
    PROVE  /\ h \in Handles /\ e \in Frame
           /\ UnreadFrames(h) \in Seq(Frame) /\ Len(UnreadFrames(h)) < RingSize
           /\ UnreadFrames(h)' = Append(UnreadFrames(h), e)
           /\ \A l \in Handles : l # h => UnreadFrames(l)' = UnreadFrames(l)
<1>1. /\ thread.pc = "push" /\ data' = [data EXCEPT ![h] = AdvanceWrite(data[h])] /\ reading' = reading
  BY DEF MoveWriteIndex
<1>2. /\ frame_ # <<>> /\ frame_ \in Seq(Frame) /\ h \in Known
      /\ Ring(data[h]) /\ ~QueueIsFull(data[h])
      /\ data[h].storage_packet[Slot(data[h], data[h].wr_idx)] = e
  BY <1>1 DEF FramesInv, TypesInv, RingsInv
<1>3. h \in Handles /\ e \in Frame
  BY <1>2, FramesAssumption
<1>4. data'[h] = AdvanceWrite(data[h]) /\ \A l \in Handles : l # h => data'[l] = data[l]
  BY <1>1, <1>3 DEF FramesInv, TypesInv
<1>5. Contents(data'[h]) = Append(Contents(data[h]), e)
  BY <1>2, <1>4, AdvanceAppends
<1>6. Follow(h, UnreadFrames(h))
  BY <1>3 DEF FramesInv, PathInv, OrderInv
<1> DEFINE c == Contents(data[h])
<1>7. PICK S : S = {c[i] : i \in DOMAIN c} \cup {e}
  OBVIOUS
<1>8. c \in Seq({c[i] : i \in DOMAIN c}) /\ (h \in reading => c # <<>>) /\ UnreadFrames(h) \in Seq(Frame)
  BY <1>3, <1>6, UnreadIs DEF FramesInv
<1>9. /\ UnreadFrames(h) = IF h \in reading THEN Tail(c) ELSE c
      /\ UnreadFrames(h)' = IF h \in reading THEN Tail(Append(c, e)) ELSE Append(c, e)
  <2>1. UnreadFrames(h)' = IF h \in reading THEN Tail(Contents(data'[h])) ELSE Contents(data'[h])
    BY <1>1 DEF UnreadFrames
  <2>2. QED
    BY <1>5, <2>1 DEF UnreadFrames
<1>10. \A l \in Handles : l # h => UnreadFrames(l)' = UnreadFrames(l)
  BY <1>1, <1>4 DEF UnreadFrames
<1>11. Len(c) < RingSize /\ Len(c) \in Nat
  <2>1. QueueUsedSize(data[h]) \in 0 .. RingSize - 1
    BY <1>2, RingHolds, Sizes
  <2>2. DOMAIN c = 1 .. QueueUsedSize(data[h])
    BY <1>2, RingHolds
  <2>3. Len(c) = QueueUsedSize(data[h])
    BY <1>8, <2>1, <2>2
  <2>4. QED
    BY <2>1, <2>3, Sizes
<1> HIDE DEF c
<1>12. c \in Seq(S) /\ e \in S
  BY <1>7, <1>8
<1>13. h \in reading => Tail(Append(c, e)) = Append(Tail(c), e) /\ Len(Tail(c)) = Len(c) - 1
  BY <1>8, <1>12, TailOfAppended
<1>14. Len(UnreadFrames(h)) < RingSize
  <2>1. CASE h \in reading
    <3>1. UnreadFrames(h) = Tail(c) /\ Len(Tail(c)) = Len(c) - 1
      BY <1>9, <1>13, <2>1
    <3>2. QED
      BY <1>11, <3>1, Sizes
  <2>2. CASE h \notin reading
    <3>1. UnreadFrames(h) = c
      BY <1>9, <2>2
    <3>2. QED
      BY <1>11, <3>1
  <2>3. QED
    BY <2>1, <2>2
<1>15. QED
  BY <1>3, <1>8, <1>9, <1>10, <1>13, <1>14

(* The index moves: the frame is the last one of the ring.                 *)
LEMMA StoreKeeps == ASSUME FramesInv, MoveWriteIndex PROVE FramesInv'
<1>0. PICK e, h, q : e = Head(frame_) /\ h = e.lidar /\ q = AdvanceWrite(data[h])
  OBVIOUS
<1>1. /\ UNCHANGED <<clock, lidar_time, sent, is_timestamp_sync_, raw_packet_queue_, points_clouds_, handlers,
                     reading, published, dropped, is_quit_>>
      /\ thread.pc = "push" /\ thread' = [thread EXCEPT !.pc = "store"]
      /\ frame_' = Tail(frame_) /\ data' = [data EXCEPT ![h] = q]
  BY <1>0 DEF MoveWriteIndex, pub
<1>2. /\ thread'.pc = "store"
      /\ thread' \in [pc : {"loop", "check", "store", "push"}, id : Handles \union {0}]
  BY <1>1 DEF FramesInv, TypesInv
<1>3. /\ frame_ # <<>> /\ Ring(data[h]) /\ ~QueueIsFull(data[h])
      /\ data[h].storage_packet[Slot(data[h], data[h].wr_idx)] = e
  BY <1>0, <1>1 DEF FramesInv, RingsInv
<1>4. /\ e \in Frame /\ Whole(e) /\ h \in Handles
      /\ FrameInv' /\ frame_' \in Seq(Frame)
      /\ \A l : l # h => Cutting(l)' = Cutting(l)
      /\ Cutting(h) = PointsOf(e) /\ Cutting(h)' = {}
  BY <1>0, <1>1, <1>2, <1>3, FrameLeaves DEF FramesInv
<1>5. data'[h] = q /\ (\A l \in Handles : l # h => data'[l] = data[l]) /\ data' = [l \in Handles |-> data'[l]]
  BY <1>1, <1>4 DEF FramesInv, TypesInv
<1>6. Ring(q) /\ ~QueueIsEmpty(q) /\ Contents(q) = Append(Contents(data[h]), e)
  BY <1>0, <1>3, AdvanceAppends
<1>7. TypesInv'
  BY <1>1, <1>2, <1>4, <1>5 DEF FramesInv, TypesInv
<1>8. RingsInv'
  <2>1. \A l \in Handles : data'[l] = NoQueue \/ Ring(data'[l])
    BY <1>5, <1>6 DEF FramesInv, RingsInv
  <2>2. reading \subseteq Handles
    BY FramesAssumption DEF FramesInv, RingsInv
  <2>3. \A l \in reading : ~QueueIsEmpty(data'[l])
    BY <1>5, <1>6, <2>2 DEF FramesInv, RingsInv
  <2>4. QED
    BY <1>1, <1>2, <2>1, <2>3 DEF FramesInv, RingsInv
<1>9. ASSUME NEW l PROVE Out(l)' = Out(l) /\ Collected(l)' = Collected(l) /\ Raw(l)' = Raw(l)
  BY <1>1 DEF Out, Collected, Raw
<1>10. ASSUME NEW l \in Handles PROVE RawInOrder(l)'
  BY <1>1 DEF FramesInv, PathInv, OrderInv, RawInOrder
<1>11. ASSUME NEW l \in Handles, l # h PROVE UnreadFrames(l)' = UnreadFrames(l)
  BY <1>0, <1>11, FrameEnters
<1>12. PathInv(h) /\ Follow(h, UnreadFrames(h))
  BY <1>4 DEF FramesInv, PathInv, OrderInv
<1>13. UnreadFrames(h)' = Append(UnreadFrames(h), e)
  BY <1>0, FrameEnters
<1>14. /\ Follow(h, UnreadFrames(h))'
       /\ PointsIn(UnreadFrames(h))' = PointsIn(UnreadFrames(h)) \cup PointsOf(e)
  <2>1. Path(PointsIn(Out(h)), PointsIn(UnreadFrames(h)), Cutting(h), Collected(h), Raw(h))
    BY <1>12 DEF PathInv, OrderInv
  <2>2. AllBefore(PointsIn(UnreadFrames(h)), PointsOf(e))
    BY <1>4, <2>1, Stored
  <2>3. UnreadFrames(h) \in Seq(Frame)
    BY <1>4, <1>12, UnreadIs DEF FramesInv
  <2>4. /\ Follow(h, Append(UnreadFrames(h), e))
        /\ PointsIn(Append(UnreadFrames(h), e)) = PointsIn(UnreadFrames(h)) \cup PointsOf(e)
    BY <1>0, <1>4, <1>12, <2>2, <2>3, FollowAppend
  <2>5. QED
    BY <1>13, <2>4
<1>15. ASSUME NEW l \in Handles PROVE PathInv(l)'
  <2>1. CASE l # h
    BY <1>1, <1>4, <1>9, <1>10, <1>11, <2>1, OtherLidar DEF FramesInv
  <2>2. CASE l = h
    <3>1. Path(PointsIn(Out(h)), PointsIn(UnreadFrames(h)) \cup Cutting(h), {}, Collected(h), Raw(h))
      BY <1>12, Stored DEF PathInv, OrderInv
    <3>2. Path(PointsIn(Out(h)), PointsIn(UnreadFrames(h)), Cutting(h), Collected(h), Raw(h))'
      BY <1>4, <1>9, <1>14, <3>1
    <3>3. OrderInv(h)'
      BY <1>1, <1>4, <1>9, <1>10, <1>12, <1>14, <3>2 DEF PathInv, OrderInv
    <3>4. OnTheWay(h)' = OnTheWay(h)
      BY <1>4, <1>9, <1>14 DEF OnTheWay
    <3>5. QED
      BY <1>1, <1>12, <2>2, <3>3, <3>4, MovedAlong
  <2>3. QED
    BY <2>1, <2>2
<1>16. QED
  BY <1>4, <1>7, <1>8, <1>15 DEF FramesInv

LEMMA EndKeeps == ASSUME FramesInv, EndOfFrame PROVE FramesInv'
<1>1. /\ UNCHANGED <<clock, lidar_time, sent, is_timestamp_sync_, raw_packet_queue_, points_clouds_, handlers, frame_,
                     data, reading, published, dropped, is_quit_>>
      /\ frame_ = <<>> /\ thread' = [thread EXCEPT !.pc = "loop"]
  BY DEF EndOfFrame, pub, rings
<1>2. /\ thread'.pc = "loop"
      /\ thread' \in [pc : {"loop", "check", "store", "push"}, id : Handles \union {0}]
  BY <1>1 DEF FramesInv, TypesInv
<1>3. TypesInv'
  BY <1>1, <1>2 DEF FramesInv, TypesInv
<1>4. RingsInv' /\ \A l : UnreadFrames(l)' = UnreadFrames(l)
  BY <1>1, <1>2, SameRings DEF FramesInv
<1>5. FrameInv'
  BY <1>1, <1>2 DEF FramesInv, FrameInv
<1>6. clock \in Nat
  BY DEF FramesInv, TypesInv
<1>7. \A l \in Handles : PathInv(l)'
  BY <1>1, <1>4, <1>6, SamePath DEF FramesInv
<1>8. QED
  BY <1>3, <1>4, <1>5, <1>7 DEF FramesInv
-----------------------------------------------------------------------------
(* The oldest frame of a ring is published.                                *)
LEMMA CopyKeeps == ASSUME FramesInv, NEW h \in Known, CopySlot(h) PROVE FramesInv'
<1>0. PICK f, m : f = QueuePrePop(data[h]) /\ m = Message(h, f)
  OBVIOUS
<1>1. /\ UNCHANGED <<clock, lidar_time, sent, is_timestamp_sync_, raw_packet_queue_, points_clouds_, handlers, thread,
                     frame_, data, dropped, is_quit_>>
      /\ reading = {} /\ reading' = {h} /\ ~QueueIsEmpty(data[h])
      /\ published' = [published EXCEPT ![h] = Append(@, m)]
  BY <1>0 DEF CopySlot, pub
<1>2. h \in Handles /\ published \in [Handles -> Seq(MessageSet)]
  BY FramesAssumption DEF FramesInv, TypesInv
<1>3. Ring(data[h])
  BY <1>1, <1>2, NewRing DEF FramesInv, RingsInv
<1>4. Contents(data[h]) # <<>> /\ f = Head(Contents(data[h]))
  BY <1>0, <1>1, <1>3, PopTakes
<1>5. PathInv(h) /\ Follow(h, UnreadFrames(h)) /\ UnreadFrames(h) \in Seq(Frame)
  BY <1>2, UnreadIs DEF FramesInv, PathInv, OrderInv
<1>6. UnreadFrames(h) = Contents(data[h]) /\ UnreadFrames(h)' = Tail(Contents(data[h]))
  BY <1>1 DEF UnreadFrames
<1>7. /\ Follow(h, UnreadFrames(h)') /\ Whole(f) /\ f.lidar = h
      /\ PointsIn(UnreadFrames(h)) = PointsOf(f) \cup PointsIn(UnreadFrames(h)')
      /\ AllBefore(PointsOf(f), PointsIn(UnreadFrames(h)'))
  <2> DEFINE c == UnreadFrames(h)
  <2>1. c \in Seq(Frame) /\ c # <<>> /\ Follow(h, c) /\ f = Head(c) /\ UnreadFrames(h)' = Tail(c)
    BY <1>4, <1>5, <1>6
  <2> HIDE DEF c
  <2>2. /\ Follow(h, Tail(c)) /\ Whole(Head(c)) /\ Head(c).lidar = h
        /\ PointsIn(c) = PointsOf(Head(c)) \cup PointsIn(Tail(c))
        /\ AllBefore(PointsOf(Head(c)), PointsIn(Tail(c)))
    BY <2>1, FollowTail
  <2>3. QED
    BY <2>1, <2>2 DEF c
<1>8. m \in MessageSet /\ FrameOf(m) = f
  BY <1>0, <1>2, <1>7, MessageOfFrame
<1>9. /\ published'[h] = Append(published[h], m)
      /\ \A l \in Handles : l # h => published'[l] = published[l]
      /\ published' \in [Handles -> Seq(MessageSet)]
  BY <1>1, <1>2, <1>8
<1>10. /\ Len(published[h]) \in Nat
       /\ DOMAIN published[h] = 1 .. Len(published[h])
       /\ DOMAIN published'[h] = 1 .. Len(published[h]) + 1
       /\ \A i \in DOMAIN published[h] : published'[h][i] = published[h][i]
       /\ published'[h][Len(published[h]) + 1] = m
  <2>1. published[h] \in Seq(MessageSet)
    BY <1>2
  <2> HIDE DEF MessageSet
  <2>2. QED
    BY <1>8, <1>9, <2>1, Appended
<1>11. Out(h) \in Seq(Frame) /\ Out(h)' = Append(Out(h), f)
  <2> DEFINE n == Len(published[h])
             out == [i \in 1 .. n |-> FrameOf(published[h][i])]
  <2>1. Out(h) = out
    BY <1>10 DEF Out
  <2>2. Out(h)' = [i \in 1 .. n + 1 |-> FrameOf(published'[h][i])]
    BY <1>10 DEF Out
  <2>3. n \in Nat
    BY <1>10
  <2>4. \A i \in 1 .. n : FrameOf(published[h][i]) \in Frame
    BY <1>5, <1>10 DEF PathInv, OrderInv, Follow, Whole, Out
  <2>5. \A i \in 1 .. n + 1 : FrameOf(published'[h][i]) = IF i = n + 1 THEN f ELSE FrameOf(published[h][i])
    BY <1>8, <1>10
  <2>6. f \in Frame
    BY <1>7 DEF Whole
  <2> HIDE DEF n
  <2>7. out \in Seq(Frame) /\ Len(out) = n
    BY <2>3, <2>4
  <2>8. Append(out, f) = [i \in 1 .. n + 1 |-> IF i = n + 1 THEN f ELSE FrameOf(published[h][i])]
    <3> DEFINE was(i) == FrameOf(published[h][i])
    <3>1. \A i \in 1 .. n : was(i) \in Frame
      BY <2>4
    <3>2. out = [i \in 1 .. n |-> was(i)]
      OBVIOUS
    <3> HIDE DEF was, out
    <3>3. Append(out, f) = [i \in 1 .. n + 1 |-> IF i = n + 1 THEN f ELSE was(i)]
      BY <2>3, <2>6, <3>1, <3>2
    <3>4. QED
      BY <3>3 DEF was
  <2>9. QED
    BY <2>1, <2>2, <2>5, <2>7, <2>8
<1>12. /\ Follow(h, Out(h)) /\ Path(PointsIn(Out(h)), PointsIn(UnreadFrames(h)), Cutting(h), Collected(h), Raw(h))
  BY <1>5 DEF PathInv, OrderInv
<1>13. Follow(h, Out(h)') /\ PointsIn(Out(h)') = PointsIn(Out(h)) \cup PointsOf(f)
  <2>1. AllBefore(PointsIn(Out(h)), PointsOf(f))
    BY <1>7, <1>12 DEF Path, AllBefore
  <2>2. PICK out : out = Out(h)
    OBVIOUS
  <2>3. /\ Follow(h, Append(out, f))
        /\ PointsIn(Append(out, f)) = PointsIn(out) \cup PointsOf(f)
    BY <1>7, <1>11, <1>12, <2>1, <2>2, FollowAppend
  <2>4. QED
    BY <1>11, <2>2, <2>3
<1>14. Path(PointsIn(Out(h)'), PointsIn(UnreadFrames(h)'), Cutting(h), Collected(h), Raw(h))
  BY <1>7, <1>12, <1>13, Published
<1>15. TypesInv'
  BY <1>1, <1>9 DEF FramesInv, TypesInv
<1>16. RingsInv'
  BY <1>1 DEF FramesInv, RingsInv
<1>17. FrameInv'
  BY <1>1, SameFrame DEF FramesInv
<1>18. ASSUME NEW l PROVE Cutting(l)' = Cutting(l) /\ Collected(l)' = Collected(l) /\ Raw(l)' = Raw(l)
  BY <1>1 DEF Cutting, Collected, Raw
<1>19. ASSUME NEW l \in Handles PROVE RawInOrder(l)'
  BY <1>1 DEF FramesInv, PathInv, OrderInv, RawInOrder
<1>20. ASSUME NEW l \in Handles PROVE PathInv(l)'
  <2>1. CASE l # h
    <3>1. UnreadFrames(l)' = UnreadFrames(l)
      BY <1>1, <2>1 DEF UnreadFrames
    <3>2. QED
      BY <1>1, <1>9, <1>18, <1>19, <2>1, <3>1, OtherLidar DEF FramesInv
  <2>2. CASE l = h
    <3>1. InOrder(points_clouds_'[h])
      BY <1>1, <1>5 DEF PathInv, OrderInv
    <3>2. Path(PointsIn(Out(h)), PointsIn(UnreadFrames(h)), Cutting(h), Collected(h), Raw(h))'
      BY <1>14, <1>18
    <3>3. OrderInv(h)'
      BY <1>2, <1>7, <1>13, <1>19, <3>1, <3>2 DEF OrderInv
    <3>4. OnTheWay(h)' = OnTheWay(h)
      BY <1>7, <1>13, <1>18 DEF OnTheWay
    <3>5. Accounted(h)'
      BY <1>1, <1>5, <3>4, AccountedMoves DEF PathInv
    <3>6. \A i \in DOMAIN published'[h] : published'[h][i] = Message(h, FrameOf(published'[h][i]))
      <4>1. \A i \in DOMAIN published[h] : published[h][i] = Message(h, FrameOf(published[h][i]))
        BY <1>5 DEF PathInv
      <4>2. m = Message(h, FrameOf(m))
        BY <1>0, <1>8
      <4>3. \A i \in DOMAIN published'[h] : i \in DOMAIN published[h] \/ i = Len(published[h]) + 1
        BY <1>10
      <4>4. QED
        BY <1>10, <4>1, <4>2, <4>3
    <3>7. QED
      BY <2>2, <3>3, <3>5, <3>6 DEF PathInv
  <2>3. QED
    BY <2>1, <2>2
<1>21. QED
  BY <1>15, <1>16, <1>17, <1>20 DEF FramesInv

(* The reader gives the slot back.                                         *)
(* What was copied is no longer unread before the read index moves.        *)
LEMMA PopHides ==
    ASSUME FramesInv, NEW h \in Known, MoveReadIndex(h)
    PROVE  \A l \in Handles : UnreadFrames(l)' = UnreadFrames(l)
<1>1. h \in reading /\ reading' = {} /\ data' = [data EXCEPT ![h] = QueuePopUpdate(data[h])]
  BY DEF MoveReadIndex
<1>2. h \in Handles /\ data = [l \in Handles |-> data[l]]
  BY FramesAssumption DEF FramesInv, TypesInv
<1>3. data'[h] = QueuePopUpdate(data[h]) /\ \A l \in Handles : l # h => data'[l] = data[l]
  BY <1>1, <1>2
<1>4. Ring(data[h]) /\ ~QueueIsEmpty(data[h])
  BY <1>1, <1>2, NewRing DEF FramesInv, RingsInv
<1>5. Contents(QueuePopUpdate(data[h])) = Tail(Contents(data[h]))
  BY <1>4, PopTakes
<1>6. ASSUME NEW l \in Handles, l # h PROVE UnreadFrames(l)' = UnreadFrames(l)
  <2>1. l \notin reading
    BY <1>1, <1>6 DEF FramesInv, RingsInv
  <2>2. QED
    BY <1>1, <1>3, <1>6, <2>1 DEF UnreadFrames
<1>7. UnreadFrames(h)' = UnreadFrames(h)
  BY <1>1, <1>3, <1>5 DEF UnreadFrames
<1>8. QED
  BY <1>6, <1>7

LEMMA PopKeeps == ASSUME FramesInv, NEW h \in Known, MoveReadIndex(h) PROVE FramesInv'
<1>0. PICK q : q = QueuePopUpdate(data[h])
  OBVIOUS
<1>1. /\ UNCHANGED <<clock, lidar_time, sent, is_timestamp_sync_, raw_packet_queue_, points_clouds_, handlers, thread,
                     frame_, published, dropped, is_quit_>>
      /\ h \in reading /\ reading' = {} /\ data' = [data EXCEPT ![h] = q]
  BY <1>0 DEF MoveReadIndex, pub
<1>2. h \in Handles /\ data = [l \in Handles |-> data[l]]
  BY FramesAssumption DEF FramesInv, TypesInv
<1>3. data'[h] = q /\ (\A l \in Handles : l # h => data'[l] = data[l]) /\ data' = [l \in Handles |-> data'[l]]
  BY <1>1, <1>2
<1>4. Ring(data[h]) /\ ~QueueIsEmpty(data[h])
  BY <1>1, <1>2, NewRing DEF FramesInv, RingsInv
<1>5. /\ Ring(q) /\ ~QueueIsFull(q) /\ Contents(q) = Tail(Contents(data[h]))
      /\ q.wr_idx = data[h].wr_idx /\ q.storage_packet = data[h].storage_packet
      /\ Slot(q, q.wr_idx) = Slot(data[h], data[h].wr_idx)
  BY <1>0, <1>4, PopTakes
<1>6. TypesInv'
  BY <1>1, <1>3 DEF FramesInv, TypesInv
<1>7. RingsInv'
  <2>1. \A l \in Handles : data'[l] = NoQueue \/ Ring(data'[l])
    BY <1>3, <1>5 DEF FramesInv, RingsInv
  <2>2. ASSUME thread.pc = "push"
        PROVE  LET e == Head(frame_) w == data'[e.lidar] IN
               /\ frame_ # <<>> /\ e.lidar \in Known
               /\ Ring(w) /\ ~QueueIsFull(w)
               /\ w.storage_packet[Slot(w, w.wr_idx)] = e
    <3>1. PICK e : e = Head(frame_)
      OBVIOUS
    <3>2. /\ frame_ # <<>> /\ e.lidar \in Known /\ e.lidar \in Handles
          /\ Ring(data[e.lidar]) /\ ~QueueIsFull(data[e.lidar])
          /\ data[e.lidar].storage_packet[Slot(data[e.lidar], data[e.lidar].wr_idx)] = e
      BY <2>2, <3>1, FramesAssumption DEF FramesInv, RingsInv
    <3>3. CASE e.lidar # h
      BY <1>3, <3>1, <3>2, <3>3
    <3>4. CASE e.lidar = h
      BY <1>3, <1>5, <3>1, <3>2, <3>4
    <3>5. QED
      BY <3>3, <3>4
  <2>3. QED
    BY <1>1, <2>1, <2>2 DEF RingsInv
<1>8. FrameInv'
  BY <1>1, SameFrame DEF FramesInv
<1>9. \A l \in Handles : UnreadFrames(l)' = UnreadFrames(l)
  BY PopHides
<1>10. clock \in Nat
  BY DEF FramesInv, TypesInv
<1>11. \A l \in Handles : PathInv(l)'
  BY <1>1, <1>9, <1>10, SamePath DEF FramesInv
<1>12. QED
  BY <1>6, <1>7, <1>8, <1>11 DEF FramesInv
-----------------------------------------------------------------------------
LEMMA FramesInitially == FramesInit => FramesInv
<1> SUFFICES ASSUME FramesInit PROVE FramesInv
  OBVIOUS
<1>1. TypesInv
  <2>1. MaxClock >= 1 /\ MaxBacklog \in Nat /\ \A l \in Handles : MaxPackets[l] \in Nat
    BY FramesAssumption
  <2>2. thread \in [pc : {"loop", "check", "store", "push"}, id : Handles \union {0}]
    BY DEF FramesInit
  <2>3. handlers \subseteq Handles /\ IsFiniteSet(handlers)
    BY FS_EmptySet DEF FramesInit
  <2>4. /\ raw_packet_queue_ \in Seq([lidar : Handles, num : Nat, stamp : Nat, by : Clocks])
        /\ Len(raw_packet_queue_) = 0
    BY DEF FramesInit
  <2>5. points_clouds_ \in [Handles -> Seq(Point)] /\ published \in [Handles -> Seq(MessageSet)]
    BY DEF FramesInit
  <2>6. /\ sent \in [Handles -> Nat] /\ dropped \in [Handles -> SUBSET Nat]
        /\ data = [l \in Handles |-> data[l]] /\ frame_ \in Seq(Frame)
        /\ \A l \in Handles : sent[l] <= MaxPackets[l]
    BY <2>1 DEF FramesInit
  <2>time. lidar_time \in [Handles -> Nat] /\ \A l \in Handles : lidar_time[l] <= MaxTime + Span
    BY FramesAssumption DEF FramesInit
  <2>7. clock \in 1 .. MaxClock /\ is_timestamp_sync_ \in BOOLEAN
        /\ is_quit_ \in {"no", "requested", "joined"}
    <3>1. MaxClock \in Nat /\ MaxClock # 0
      BY FramesAssumption
    <3>2. clock = 1 /\ is_timestamp_sync_ = FALSE /\ is_quit_ = "no"
      BY DEF FramesInit
    <3>3. clock \in 1 .. MaxClock
      BY <3>1, <3>2
    <3>4. is_timestamp_sync_ \in BOOLEAN /\ is_quit_ \in {"no", "requested", "joined"}
      BY <3>2
    <3>5. QED
      BY <3>3, <3>4
  <2>8. Len(raw_packet_queue_) <= MaxBacklog
    BY <2>1, <2>4
  <2>9. QED
    BY <2>2, <2>3, <2>4, <2>5, <2>6, <2>7, <2>8, <2>time DEF TypesInv
<1>2. RingsInv
  BY DEF FramesInit, RingsInv
<1>3. FrameInv
  BY DEF FramesInit, FrameInv
<1>4. ASSUME NEW l \in Handles PROVE PathInv(l)
  <2>1. Out(l) = <<>> /\ UnreadFrames(l) = <<>>
    BY NewRing DEF FramesInit, Out, UnreadFrames
  <2>2. Cutting(l) = {} /\ Collected(l) = {} /\ Raw(l) = {} /\ PointsIn(<<>>) = {}
    BY DEF FramesInit, Cutting, Collected, Raw, PointsIn
  <2>3. OrderInv(l)
    <3>1. Follow(l, <<>>)
      BY DEF Follow
    <3>2. InOrder(points_clouds_[l]) /\ RawInOrder(l)
      BY DEF FramesInit, InOrder, RawInOrder
    <3>3. Path({}, {}, {}, {}, {})
      BY DEF Path, AllBefore
    <3>4. QED
      BY <2>1, <2>2, <3>1, <3>2, <3>3 DEF OrderInv
  <2>4. OnTheWay(l) = {}
    BY <2>1, <2>2 DEF OnTheWay
  <2>5. Accounted(l)
    BY <2>4 DEF FramesInit, Accounted, Nums
  <2>6. QED
    BY <2>3, <2>5 DEF FramesInit, PathInv
<1>5. QED
  BY <1>1, <1>2, <1>3, <1>4 DEF FramesInv

LEMMA FramesStep == FramesInv /\ [FramesNext]_framing => FramesInv'
<1> SUFFICES ASSUME FramesInv, [FramesNext]_framing PROVE FramesInv'
  OBVIOUS
<1>1. CASE Tick \/ Uninit \/ Joined
  BY <1>1, TickKeeps
<1>2. ASSUME NEW l \in Handles, NEW by \in TimeTypes[l],
             OnImuData(by) \/ \E stamp \in Stamps(l, by) : OnPointCloud(l, by, stamp)
      PROVE  FramesInv'
  <2>1. by \in Clocks
    BY FramesAssumption
  <2>2. CASE OnImuData(by)
    BY <2>1, <2>2, TickKeeps
  <2>3. CASE \E stamp \in Stamps(l, by) : OnPointCloud(l, by, stamp)
    BY <2>1, <2>3, ArrivalKeeps
  <2>4. QED
    BY <1>2, <2>2, <2>3
<1>3. CASE TakePacket
  BY <1>3, TakeKeeps
<1>4. CASE CheckTimerSync
  BY <1>4, CheckTimerSyncKeeps
<1>5. CASE CheckTimerNoSync
  BY <1>5, CheckTimerNoSyncKeeps
<1>6. CASE Refuse
  BY <1>6, RefuseKeeps
<1>7. CASE FillSlot
  BY <1>7, FillKeeps
<1>8. CASE MoveWriteIndex
  BY <1>8, StoreKeeps
<1>9. CASE EndOfFrame
  BY <1>9, EndKeeps
<1>10. ASSUME NEW l \in Known, CopySlot(l) PROVE FramesInv'
  BY <1>10, CopyKeeps
<1>11. ASSUME NEW l \in Known, MoveReadIndex(l) PROVE FramesInv'
  BY <1>11, PopKeeps
<1>12. CASE UNCHANGED framing
  <2>1. UNCHANGED <<clock, lidar_time, sent, is_timestamp_sync_, raw_packet_queue_, points_clouds_, handlers, thread,
                    frame_, data, reading, published, dropped, is_quit_>>
    BY <1>12 DEF framing, pub, rings
  <2>2. TypesInv' /\ FrameInv'
    BY <2>1, SameFrame DEF FramesInv, TypesInv
  <2>3. RingsInv' /\ \A l : UnreadFrames(l)' = UnreadFrames(l)
    BY <2>1, SameRings DEF FramesInv
  <2>4. clock \in Nat
    BY DEF FramesInv, TypesInv
  <2>5. \A l \in Handles : PathInv(l)'
    BY <2>1, <2>3, <2>4, SamePath DEF FramesInv
  <2>6. QED
    BY <2>2, <2>3, <2>5 DEF FramesInv
<1>13. QED
  BY <1>1, <1>2, <1>3, <1>4, <1>5, <1>6, <1>7, <1>8, <1>9, <1>10, <1>11, <1>12
     DEF FramesNext, RawDataProcess, PointCloudThread

(* The inductive invariant: where the points of every lidar are and in what*)
(* order, and what the two threads may rely on at the rings.               *)
THEOREM FramesAreSound == FramesSpec => []FramesInv
<1>1. QED
  BY FramesInitially, FramesStep, PTL DEF FramesSpec

(* The types of the state.                                                 *)
THEOREM TypeCorrect == FramesSpec => []FramesTypeOK
<1>1. FramesInv => FramesTypeOK
  <2> SUFFICES ASSUME FramesInv PROVE FramesTypeOK
    OBVIOUS
  <2>1. ASSUME NEW l \in Handles
        PROVE  /\ {data[l].rd_idx, data[l].wr_idx} \subseteq 0 .. IndexWrap - 1
               /\ data[l] # NoQueue => QueueUsedSize(data[l]) <= data[l].mask + 1
    <3>1. CASE data[l] = NoQueue
      <4>1. data[l].rd_idx = 0 /\ data[l].wr_idx = 0
        BY <3>1 DEF NoQueue
      <4>2. 0 \in 0 .. IndexWrap - 1
        BY Sizes
      <4>3. QED
        BY <3>1, <4>1, <4>2
    <3>2. CASE Ring(data[l])
      <4>1. QueueUsedSize(data[l]) \in 0 .. RingSize /\ data[l].mask = RingSize - 1
        BY <3>2, RingHolds
      <4>2. RingSize - 1 + 1 = RingSize
        BY Sizes
      <4>3. QED
        BY <3>2, <4>1, <4>2, Sizes, RingHolds
    <3>3. QED
      BY <3>1, <3>2 DEF FramesInv, RingsInv
  <2>2. \A l \in Handles : sent[l] \in 0 .. MaxPackets[l]
    <3>1. SUFFICES ASSUME NEW l \in Handles PROVE sent[l] \in 0 .. MaxPackets[l]
      OBVIOUS
    <3>2. sent[l] \in Nat /\ sent[l] <= MaxPackets[l] /\ MaxPackets[l] \in Nat
      BY FramesAssumption DEF FramesInv, TypesInv
    <3>3. QED
      BY <3>2
  <2>3. \A l \in Handles : lidar_time[l] \in 0 .. MaxTime + Span
    <3>1. SUFFICES ASSUME NEW l \in Handles PROVE lidar_time[l] \in 0 .. MaxTime + Span
      OBVIOUS
    <3>2. lidar_time[l] \in Nat /\ lidar_time[l] <= MaxTime + Span
      BY DEF FramesInv, TypesInv
    <3>3. QED
      BY <3>2, TimeBounds
  <2>4. QED
    BY <2>1, <2>2, <2>3 DEF FramesInv, TypesInv, RingsInv, FramesTypeOK
<1>2. QED
  BY <1>1, FramesAreSound, PTL

(* The thread that fills a slot never fills the one that is being copied.  *)
THEOREM SlotsAreApart == FramesSpec => []NoTornSlot
<1>1. FramesInv => NoTornSlot
  <2> SUFFICES ASSUME FramesInv, NEW l \in reading, thread.pc = "push", Head(frame_).lidar = l
               PROVE  Slot(data[l], data[l].wr_idx) # Slot(data[l], data[l].rd_idx)
    BY DEF NoTornSlot
  <2> DEFINE q == data[l]
             n == QueueUsedSize(q)
  <2>1. Ring(q) /\ ~QueueIsFull(q) /\ ~QueueIsEmpty(q)
    BY DEF FramesInv, RingsInv
  <2>2. n \in 1 .. RingSize - 1 /\ q.rd_idx \in Int
    <3> HIDE DEF q
    <3>1. n \in 0 .. RingSize /\ n # RingSize /\ n # 0 /\ q.rd_idx \in 0 .. IndexWrap - 1
      BY <2>1, RingHolds
    <3> HIDE DEF n
    <3>2. QED
      BY <3>1, Sizes
  <2>3. Slot(q, q.wr_idx) = (q.rd_idx + n) % RingSize /\ Slot(q, q.rd_idx) = q.rd_idx % RingSize
    <3> HIDE DEF q
    <3>1. QED
      BY <2>1, RingHolds
  <2> HIDE DEF q, n
  <2>4. (q.rd_idx + n) % RingSize # q.rd_idx % RingSize
    BY <2>2, ModApart, Sizes
  <2>5. QED
    BY <2>3, <2>4 DEF q
<1>2. QED
  BY <1>1, FramesAreSound, PTL

(* What is published of a lidar: whole frames of its own.                  *)
OffsetIn(f, j) == (f.points[j].stamp - f.base_time) % OffsetWrap
LastIn(f, j) == (f.points[j].stamp + Span - f.base_time) % OffsetWrap
PointByPoint(m, f) ==
    \A j \in DOMAIN m.points :
        /\ m.points[j].timestamp = f.points[j].stamp /\ m.points[j].by = f.points[j].by
        /\ m.points[j].offset_time = OffsetIn(f, j)
        /\ m.points[j].last_offset = LastIn(f, j)

LEMMA WhatIsPublished ==
    ASSUME FramesInv, NEW l \in Handles, NEW i \in DOMAIN published[l],
           NEW m, m = published[l][i], NEW f, f = FrameOf(m)
    PROVE  /\ Whole(f) /\ f.lidar = l /\ m = Message(l, f)
           /\ m.lidar_id = l /\ m.of = l /\ m.timebase = f.base_time
           /\ DOMAIN m.points = DOMAIN f.points /\ Len(m.points) = Len(f.points)
           /\ PointByPoint(m, f)
           /\ Out(l)[i] = f
<1>1. Out(l)[i] = f /\ i \in DOMAIN Out(l)
  BY DEF Out
<1>2. Whole(f) /\ f.lidar = l
  BY <1>1 DEF FramesInv, PathInv, OrderInv, Follow
<1>3. m = Message(l, f)
  BY DEF FramesInv, PathInv
<1>4. /\ m.lidar_id = l /\ m.of = l /\ m.timebase = f.base_time
      /\ m.points = [j \in DOMAIN f.points |->
            [num |-> f.points[j].num, by |-> f.points[j].by, timestamp |-> f.points[j].stamp,
             offset_time |-> (f.points[j].stamp - f.base_time) % OffsetWrap,
             last_offset |-> (f.points[j].stamp + Span - f.base_time) % OffsetWrap]]
  <2>1. /\ Message(l, f).lidar_id = l /\ Message(l, f).of = l /\ Message(l, f).timebase = f.base_time
        /\ Message(l, f).points = [j \in DOMAIN f.points |->
              [num |-> f.points[j].num, by |-> f.points[j].by, timestamp |-> f.points[j].stamp,
               offset_time |-> (f.points[j].stamp - f.base_time) % OffsetWrap,
               last_offset |-> (f.points[j].stamp + Span - f.base_time) % OffsetWrap]]
    BY <1>2 DEF Message
  <2>2. QED
    BY <1>3, <2>1
<1>5. f.points \in Seq(Point)
  BY <1>2 DEF Whole, Frame
<1>6. DOMAIN m.points = 1 .. Len(f.points) /\ Len(f.points) \in Nat
  <2>1. DOMAIN m.points = DOMAIN f.points
    BY <1>4
  <2>2. DOMAIN f.points = 1 .. Len(f.points) /\ Len(f.points) \in Nat
    BY <1>5
  <2>3. QED
    BY <2>1, <2>2
<1>7. Len(m.points) = Len(f.points)
  <2>1. \A s, n : n \in Nat /\ s = [j \in 1 .. n |-> s[j]] => Len(s) = n
    OBVIOUS
  <2>2. m.points = [j \in 1 .. Len(f.points) |-> m.points[j]]
    BY <1>4, <1>6
  <2>3. QED
    BY <1>6, <2>1, <2>2
<1>8. /\ DOMAIN m.points = DOMAIN f.points
      /\ PointByPoint(m, f)
  <2> DEFINE off(j) == (f.points[j].stamp - f.base_time) % OffsetWrap
             end(j) == (f.points[j].stamp + Span - f.base_time) % OffsetWrap
             made == [j \in DOMAIN f.points |->
                        [num |-> f.points[j].num, by |-> f.points[j].by, timestamp |-> f.points[j].stamp,
                         offset_time |-> off(j), last_offset |-> end(j)]]
  <2>1. m.points = made
    BY <1>4
  <2> HIDE DEF off, end
  <2>2. /\ DOMAIN made = DOMAIN f.points
        /\ \A j \in DOMAIN made :
              /\ made[j].timestamp = f.points[j].stamp /\ made[j].by = f.points[j].by
              /\ made[j].offset_time = off(j) /\ made[j].last_offset = end(j)
    OBVIOUS
  <2> HIDE DEF made
  <2>3. /\ DOMAIN m.points = DOMAIN f.points
        /\ \A j \in DOMAIN m.points :
              /\ m.points[j].timestamp = f.points[j].stamp /\ m.points[j].by = f.points[j].by
              /\ m.points[j].offset_time = off(j) /\ m.points[j].last_offset = end(j)
    BY <2>1, <2>2
  <2>4. QED
    BY <2>3 DEF off, end, OffsetIn, LastIn, PointByPoint
<1>9. QED
  BY <1>1, <1>2, <1>3, <1>4, <1>7, <1>8

(* In a whole frame that one clock has stamped, the stamps lie between the *)
(* first and the last.                                                     *)
LEMMA PointsNumbered ==
    ASSUME NEW f, Whole(f)
    PROVE  LET n == Len(f.points) IN
           /\ n \in Nat /\ n >= 1 /\ DOMAIN f.points = 1 .. n
           /\ f.base_time = f.points[1].stamp
           /\ \A j \in 1 .. n : f.points[j] \in Point /\ f.points[j].stamp \in Nat
<1> DEFINE n == Len(f.points)
<1>1. f.points \in Seq(Point) /\ f.points # <<>> /\ f.base_time = Head(f.points).stamp
  BY DEF Whole, Frame
<1>2. n \in Nat /\ n >= 1 /\ DOMAIN f.points = 1 .. n /\ Head(f.points) = f.points[1]
  BY <1>1
<1>3. \A j \in 1 .. n : f.points[j] \in Point
  BY <1>1, <1>2
<1>4. \A j \in 1 .. n : f.points[j].stamp \in Nat
  BY <1>3 DEF Point
<1>5. QED
  BY <1>1, <1>2, <1>3, <1>4

LEMMA StampsBetween ==
    ASSUME NEW f, Whole(f), NEW n, n = Len(f.points),
           \A j \in 1 .. n : f.points[j].by = f.points[1].by
    PROVE  \A j \in 1 .. n : f.base_time <= f.points[j].stamp /\ f.points[j].stamp <= f.points[n].stamp
<1>1. InOrder(f.points) /\ Span \in Nat
  BY FramesAssumption DEF Whole
<1>2. n \in Nat /\ n >= 1 /\ DOMAIN f.points = 1 .. n /\ f.base_time = f.points[1].stamp
  BY PointsNumbered
<1>3. \A j \in 1 .. n : f.points[j].stamp \in Nat
  BY PointsNumbered
<1>4. ASSUME NEW i \in 1 .. n, NEW j \in 1 .. n, i < j PROVE f.points[i].stamp <= f.points[j].stamp
  <2>1. Until(f.points[i]) <= f.points[j].stamp
    BY <1>1, <1>2, <1>4 DEF InOrder, Before
  <2>2. QED
    BY <1>1, <1>3, <2>1 DEF Until
<1>5. ASSUME NEW j \in 1 .. n
      PROVE  f.points[1].stamp <= f.points[j].stamp /\ f.points[j].stamp <= f.points[n].stamp
  <2>1. (j = 1 \/ 1 < j) /\ (j = n \/ j < n)
    BY <1>2
  <2>2. 1 \in 1 .. n /\ n \in 1 .. n
    BY <1>2
  <2>3. QED
    BY <1>3, <1>4, <2>1, <2>2
<1>6. QED
  BY <1>2, <1>5

(* Offsets added to the timebase give the points' own times, of the lidar  *)
(* the message names, and no message reaches back into the one before it,  *)
(* wherever one clock has stamped what is compared.                        *)
THEOREM OffsetsAreRight == FramesSpec => []OffsetsFit
<1>1. FramesInv => OffsetsFit
  <2> SUFFICES ASSUME FramesInv PROVE OffsetsFit
    OBVIOUS
  <2>1. ASSUME NEW l \in Handles, NEW i \in DOMAIN published[l], NEW m, m = published[l][i]
        PROVE  /\ m.lidar_id = m.of
               /\ m.timebase = Head(m.points).timestamp
               /\ OneClock(m) /\ Fits(m) =>
                     \A j \in DOMAIN m.points :
                         /\ m.timebase + m.points[j].offset_time = m.points[j].timestamp
                         /\ m.timebase + m.points[j].last_offset = m.points[j].timestamp + Span
    <3>1. PICK f : f = FrameOf(m)
      OBVIOUS
    <3>fields.
          /\ Whole(f) /\ m.lidar_id = l /\ m.of = l /\ m.timebase = f.base_time
          /\ DOMAIN m.points = DOMAIN f.points /\ Len(m.points) = Len(f.points)
      BY <2>1, <3>1, WhatIsPublished
    <3>points. PointByPoint(m, f)
      BY <2>1, <3>1, WhatIsPublished
    <3>2. PICK n : n = Len(f.points)
      OBVIOUS
    <3>3. /\ n \in Nat /\ n >= 1 /\ DOMAIN f.points = 1 .. n
          /\ f.base_time = f.points[1].stamp
          /\ \A j \in 1 .. n : f.points[j].stamp \in Nat
      BY <3>fields, <3>2, PointsNumbered
    <3>4. 1 \in 1 .. n /\ n \in 1 .. n
      BY <3>3
    <3>5. \A j \in 1 .. n : /\ m.points[j].timestamp = f.points[j].stamp
                            /\ m.points[j].by = f.points[j].by
                            /\ m.points[j].offset_time = OffsetIn(f, j)
                            /\ m.points[j].last_offset = LastIn(f, j)
      BY <3>fields, <3>points, <3>3 DEF PointByPoint
    <3>6. Head(m.points) = m.points[1] /\ Last(m.points) = m.points[n]
      BY <3>fields, <3>2 DEF Last
    <3>7. m.timebase = Head(m.points).timestamp
      BY <3>fields, <3>3, <3>4, <3>5, <3>6
    <3>8. ASSUME OneClock(m), Fits(m), NEW j \in 1 .. n
          PROVE  /\ m.timebase + m.points[j].offset_time = m.points[j].timestamp
                 /\ m.timebase + m.points[j].last_offset = m.points[j].timestamp + Span
      <4>1. PICK b, s, e : b = f.base_time /\ s = f.points[j].stamp /\ e = f.points[n].stamp
        OBVIOUS
      <4>2. \A k \in 1 .. n : f.points[k].by = f.points[1].by
        BY <3>fields, <3>3, <3>4, <3>5, <3>6, <3>8 DEF OneClock
      <4>3. b <= s /\ s <= e
        BY <3>fields, <3>2, <4>1, <4>2, StampsBetween
      <4>4. e + Span - b < OffsetWrap
        BY <3>3, <3>4, <3>5, <3>6, <3>8, <4>1 DEF Fits
      <4>5. b \in Nat /\ s \in Nat /\ e \in Nat /\ Span \in Nat /\ OffsetWrap \in Nat \ {0}
        BY <3>3, <3>4, <4>1, FramesAssumption
      <4>6. (s - b) % OffsetWrap = s - b /\ (s + Span - b) % OffsetWrap = s + Span - b
        <5>1. s - b \in 0 .. OffsetWrap - 1 /\ s + Span - b \in 0 .. OffsetWrap - 1
          BY <4>3, <4>4, <4>5
        <5>2. \A w \in Nat \ {0} : \A x \in 0 .. w - 1 : x % w = x
          OBVIOUS
        <5>3. QED
          BY <4>5, <5>1, <5>2
      <4>7. OffsetIn(f, j) = s - b /\ LastIn(f, j) = s + Span - b
        BY <4>1, <4>6 DEF OffsetIn, LastIn
      <4>8. /\ m.points[j].offset_time = s - b /\ m.points[j].last_offset = s + Span - b
            /\ m.points[j].timestamp = s /\ m.timebase = b
        BY <3>fields, <3>5, <4>1, <4>7
      <4>9. QED
        BY <4>5, <4>8
    <3>9. QED
      BY <3>fields, <3>3, <3>7, <3>8
  <2>2. ASSUME NEW l \in Handles, NEW i \in 2 .. Len(published[l]),
               NEW w, w = published[l][i - 1], NEW m, m = published[l][i],
               Last(w.points).by = Head(m.points).by
        PROVE  m.timebase >= EndsAt(Last(w.points))
    <3>1. published[l] \in Seq(MessageSet)
      BY DEF FramesInv, TypesInv
    <3>2. i \in DOMAIN published[l] /\ i - 1 \in DOMAIN published[l] /\ i - 1 < i
      <4> HIDE DEF MessageSet
      <4>1. Len(published[l]) \in Nat /\ DOMAIN published[l] = 1 .. Len(published[l])
        BY <3>1
      <4>2. QED
        BY <4>1
    <3>3. PICK f, g : f = FrameOf(m) /\ g = FrameOf(w)
      OBVIOUS
    <3>4. Whole(f) /\ m.timebase = f.base_time /\ Out(l)[i] = f
          /\ DOMAIN m.points = DOMAIN f.points /\ Len(m.points) = Len(f.points)
      BY <2>2, <3>2, <3>3, WhatIsPublished
    <3>5. PointByPoint(m, f)
      BY <2>2, <3>2, <3>3, WhatIsPublished
    <3>6. PICK k \in DOMAIN published[l] : k = i - 1
      BY <3>2
    <3>7. w = published[l][k]
      BY <2>2, <3>6
    <3>8. Whole(g) /\ Out(l)[k] = g /\ Len(w.points) = Len(g.points) /\ DOMAIN w.points = DOMAIN g.points
      BY <3>3, <3>7, WhatIsPublished
    <3>9. PointByPoint(w, g)
      BY <3>3, <3>7, WhatIsPublished
    <3>10. AllBefore(PointsOf(g), PointsOf(f))
      <4>1. Follow(l, Out(l)) /\ i \in DOMAIN Out(l) /\ k \in DOMAIN Out(l)
        BY <3>2 DEF FramesInv, PathInv, OrderInv, Out
      <4>2. QED
        BY <3>2, <3>4, <3>6, <3>8, <4>1 DEF Follow
    <3>11. PICK n : n = Len(g.points)
      OBVIOUS
    <3>12. /\ 1 \in DOMAIN f.points /\ f.base_time = f.points[1].stamp /\ f.points[1].stamp \in Nat
           /\ f.points[1] \in PointsOf(f)
      BY <3>4, PointsNumbered DEF PointsOf
    <3>13. n \in DOMAIN g.points /\ g.points[n].stamp \in Nat /\ g.points[n] \in PointsOf(g)
      BY <3>8, <3>11, PointsNumbered DEF PointsOf
    <3>14. Last(w.points) = w.points[n] /\ Head(m.points) = m.points[1]
      BY <3>8, <3>11 DEF Last
    <3>15. /\ w.points[n].timestamp = g.points[n].stamp /\ w.points[n].by = g.points[n].by
           /\ m.points[1].by = f.points[1].by
      BY <3>4, <3>5, <3>8, <3>9, <3>12, <3>13 DEF PointByPoint
    <3>16. EndsAt(Last(w.points)) = Until(g.points[n])
      BY <3>14, <3>15 DEF EndsAt, Until
    <3>17. Before(g.points[n], f.points[1])
      BY <3>10, <3>12, <3>13 DEF AllBefore
    <3>18. Until(g.points[n]) <= f.points[1].stamp /\ Until(g.points[n]) \in Nat
      BY <2>2, <3>13, <3>14, <3>15, <3>17, FramesAssumption DEF Before, Until
    <3>19. QED
      BY <3>4, <3>12, <3>16, <3>18
  <2>3. ASSUME NEW l \in Handles, NEW i \in DOMAIN published[l]
        PROVE  LET m == published[l][i] IN
               /\ m.lidar_id = m.of
               /\ m.timebase = Head(m.points).timestamp
               /\ OneClock(m) /\ Fits(m) =>
                     \A j \in DOMAIN m.points :
                         LET p == m.points[j] IN
                         /\ m.timebase + p.offset_time = p.timestamp
                         /\ m.timebase + p.last_offset = p.timestamp + Span
    BY <2>1
  <2>4. ASSUME NEW l \in Handles, NEW i \in 2 .. Len(published[l])
        PROVE  LET last == Last(published[l][i - 1].points) IN
               last.by = Head(published[l][i].points).by => published[l][i].timebase >= EndsAt(last)
    BY <2>2
  <2>5. QED
    BY <2>3, <2>4 DEF OffsetsFit
<1>2. QED
  BY <1>1, FramesAreSound, PTL

-----------------------------------------------------------------------------
(* The numbers of points that are in order.                                *)
LEMMA NumbersIncrease ==
    ASSUME NEW points \in Seq(Point), InOrder(points)
    PROVE  /\ NumbersInOrder(points) \in Seq(Nat) /\ Increasing(NumbersInOrder(points))
           /\ ToSet(NumbersInOrder(points)) = Nums({points[i] : i \in DOMAIN points})
<1>1. /\ DOMAIN points = 1 .. Len(points) /\ Len(points) \in Nat
      /\ \A i \in DOMAIN points : points[i] \in Point /\ points[i].num \in Nat
  <2>1. \A i \in DOMAIN points : points[i] \in Point
    OBVIOUS
  <2>2. \A p \in Point : p.num \in Nat
    BY DEF Point
  <2>3. QED
    BY <2>1, <2>2
<1>2. NumbersInOrder(points) \in Seq(Nat)
  BY <1>1 DEF NumbersInOrder
<1>3. Increasing(NumbersInOrder(points))
  BY <1>1 DEF NumbersInOrder, Increasing, InOrder, Before
<1>4. ToSet(NumbersInOrder(points)) = Nums({points[i] : i \in DOMAIN points})
  BY <1>1 DEF NumbersInOrder, ToSet, Nums
<1>5. QED
  BY <1>2, <1>3, <1>4

LEMMA NumbersBelow ==
    ASSUME NEW P, NEW Q, AllBefore(P, Q), NEW s, NEW t, ToSet(s) = Nums(P), ToSet(t) = Nums(Q)
    PROVE  Below(s, t)
  BY DEF Below, AllBefore, Before, Nums

(* The numbers of frames that follow each other.                           *)
LEMMA FramesIncrease ==
    ASSUME NEW l, NEW frames, NEW n \in Nat, DOMAIN frames = 1 .. n, Follow(l, frames)
    PROVE  /\ Flat(frames) \in Seq(Nat) /\ Increasing(Flat(frames))
           /\ ToSet(Flat(frames)) = Nums(PointsIn(frames))
<1> DEFINE s == [i \in DOMAIN frames |-> NumbersInOrder(frames[i].points)]
<1>1. \A i \in DOMAIN frames :
          /\ s[i] \in Seq(Nat) /\ Increasing(s[i])
          /\ ToSet(s[i]) = Nums(PointsOf(frames[i]))
  BY NumbersIncrease DEF Follow, Whole, Frame, PointsOf
<1>2. DOMAIN s = 1 .. n /\ s = [i \in 1 .. n |-> s[i]]
  OBVIOUS
<1>3. \A i, j \in DOMAIN s : i < j => Below(s[i], s[j])
  BY <1>1, NumbersBelow DEF Follow
<1> HIDE DEF s
<1>4. s \in Seq(Seq(Nat)) /\ Len(s) = n
  <2>1. \A i \in 1 .. n : s[i] \in Seq(Nat)
    BY <1>1, <1>2
  <2>2. QED
    BY <1>2, <2>1
<1>5. FlattenSeq(s) \in Seq(Nat) /\ ToSet(FlattenSeq(s)) = Elements(s, n)
  BY <1>4, FlattenElements
<1>6. Increasing(FlattenSeq(s))
  BY <1>1, <1>2, <1>3, <1>4, FlattenIncreases
<1>7. Elements(s, n) = Nums(PointsIn(frames))
  BY <1>1, <1>2 DEF Elements, Nums, PointsIn
<1>8. QED
  BY <1>5, <1>6, <1>7 DEF Flat, s

(* The numbers of the frame that is about to be stored, of which a lidar   *)
(* has at most one.                                                        *)
LEMMA CutIncreases ==
    ASSUME FramesInv, NEW l \in Handles
    PROVE  /\ CutNumbers(l) \in Seq(Nat) /\ Increasing(CutNumbers(l))
           /\ ToSet(CutNumbers(l)) = Nums(Cutting(l))
<1> DEFINE s == [i \in DOMAIN frame_ |->
                    IF frame_[i].lidar = l THEN NumbersInOrder(frame_[i].points) ELSE <<>>]
           n == Len(frame_)
<1>1. n \in Nat /\ DOMAIN frame_ = 1 .. n
  BY DEF FramesInv, TypesInv
<1>2. \A i \in DOMAIN frame_ : frame_[i].lidar = l =>
          s[i] \in Seq(Nat) /\ Increasing(s[i]) /\ ToSet(s[i]) = Nums(PointsOf(frame_[i]))
  BY NumbersIncrease DEF FramesInv, FrameInv, Whole, Frame, PointsOf
<1>3. \A i \in DOMAIN frame_ : frame_[i].lidar # l =>
          s[i] \in Seq(Nat) /\ Increasing(s[i]) /\ ToSet(s[i]) = {}
  BY ToSetOne DEF Increasing
<1>4. DOMAIN s = 1 .. n /\ s = [i \in 1 .. n |-> s[i]]
  BY <1>1
<1> HIDE DEF s, n
<1>5. \A i, j \in DOMAIN s : i < j => Below(s[i], s[j])
  BY <1>1, <1>3, <1>4 DEF Below, FramesInv, FrameInv
<1>6. s \in Seq(Seq(Nat)) /\ Len(s) = n
  <2>1. \A i \in 1 .. n : s[i] \in Seq(Nat)
    BY <1>1, <1>2, <1>3
  <2>2. QED
    BY <1>1, <1>4, <2>1
<1>7. FlattenSeq(s) \in Seq(Nat) /\ ToSet(FlattenSeq(s)) = Elements(s, n)
  BY <1>6, FlattenElements
<1>8. Increasing(FlattenSeq(s))
  BY <1>1, <1>2, <1>3, <1>4, <1>5, <1>6, FlattenIncreases
<1>9. Elements(s, n) = Nums(Cutting(l))
  <2>1. ASSUME NEW x \in Elements(s, n) PROVE x \in Nums(Cutting(l))
    <3>1. PICK i \in 1 .. n : x \in ToSet(s[i])
      BY DEF Elements
    <3>2. frame_[i].lidar = l /\ x \in Nums(PointsOf(frame_[i]))
      BY <1>1, <1>2, <1>3, <3>1
    <3>3. QED
      BY <1>1, <3>2 DEF Nums, Cutting
  <2>2. ASSUME NEW x \in Nums(Cutting(l)) PROVE x \in Elements(s, n)
    <3>1. PICK i \in 1 .. n : frame_[i].lidar = l /\ x \in Nums(PointsOf(frame_[i]))
      BY <1>1 DEF Nums, Cutting
    <3>2. x \in ToSet(s[i])
      BY <1>1, <1>2, <3>1
    <3>3. QED
      BY <3>2 DEF Elements
  <2>3. QED
    BY <2>1, <2>2
<1>10. QED
  BY <1>7, <1>8, <1>9 DEF CutNumbers, s

(* The numbers of the packets that are queued.                             *)
LEMMA QueuedIncrease ==
    ASSUME FramesInv, NEW l \in Handles
    PROVE  /\ QueuedNumbers(l) \in Seq(Nat) /\ Increasing(QueuedNumbers(l))
           /\ ToSet(QueuedNumbers(l)) = Nums(Raw(l))
<1> DEFINE q == raw_packet_queue_
           s == [i \in DOMAIN q |-> IF q[i].lidar = l THEN <<q[i].num>> ELSE <<>>]
           n == Len(q)
<1>1. /\ n \in Nat /\ DOMAIN q = 1 .. n /\ RawInOrder(l)
      /\ \A i \in DOMAIN q : q[i].num \in Nat
  <2>1. q \in Seq([lidar : Handles, num : Nat, stamp : Nat, by : Clocks]) /\ RawInOrder(l)
    BY DEF FramesInv, TypesInv, PathInv, OrderInv
  <2>2. \A p \in [lidar : Handles, num : Nat, stamp : Nat, by : Clocks] : p.num \in Nat
    OBVIOUS
  <2>3. \A R : \A z \in Seq(R) :
            Len(z) \in Nat /\ DOMAIN z = 1 .. Len(z) /\ \A i \in DOMAIN z : z[i] \in R
    OBVIOUS
  <2>4. /\ Len(q) \in Nat /\ DOMAIN q = 1 .. Len(q)
        /\ \A i \in DOMAIN q : q[i] \in [lidar : Handles, num : Nat, stamp : Nat, by : Clocks]
    BY <2>1, <2>3
  <2>5. QED
    BY <2>1, <2>2, <2>4
<1>2. \A i \in DOMAIN q : q[i].lidar = l =>
          s[i] \in Seq(Nat) /\ Increasing(s[i]) /\ ToSet(s[i]) = {q[i].num}
  BY <1>1, ToSetOne DEF Increasing
<1>3. \A i \in DOMAIN q : q[i].lidar # l =>
          s[i] \in Seq(Nat) /\ Increasing(s[i]) /\ ToSet(s[i]) = {}
  BY ToSetOne DEF Increasing
<1>4. DOMAIN s = 1 .. n /\ s = [i \in 1 .. n |-> s[i]]
  BY <1>1
<1> HIDE DEF s, n
<1>5. \A i, j \in DOMAIN s : i < j => Below(s[i], s[j])
  BY <1>1, <1>2, <1>3, <1>4 DEF Below, RawInOrder, Before
<1>6. s \in Seq(Seq(Nat)) /\ Len(s) = n
  <2>1. \A i \in 1 .. n : s[i] \in Seq(Nat)
    BY <1>1, <1>2, <1>3
  <2>2. QED
    BY <1>1, <1>4, <2>1
<1>7. FlattenSeq(s) \in Seq(Nat) /\ ToSet(FlattenSeq(s)) = Elements(s, n)
  BY <1>6, FlattenElements
<1>8. Increasing(FlattenSeq(s))
  BY <1>1, <1>2, <1>3, <1>4, <1>5, <1>6, FlattenIncreases
<1>9. Elements(s, n) = Nums(Raw(l))
  <2>1. \A i : PointOf(q[i]).num = q[i].num
    BY DEF PointOf
  <2>2. ASSUME NEW x \in Elements(s, n) PROVE x \in Nums(Raw(l))
    <3>1. PICK i \in 1 .. n : x \in ToSet(s[i])
      BY DEF Elements
    <3>2. q[i].lidar = l /\ x = PointOf(q[i]).num
      BY <1>1, <1>2, <1>3, <2>1, <3>1
    <3>3. PointOf(q[i]) \in Raw(l)
      BY <1>1, <3>2 DEF Raw
    <3>4. QED
      BY <3>2, <3>3 DEF Nums
  <2>3. ASSUME NEW x \in Nums(Raw(l)) PROVE x \in Elements(s, n)
    <3>1. PICK i \in 1 .. n : q[i].lidar = l /\ x = PointOf(q[i]).num
      BY <1>1 DEF Nums, Raw
    <3>2. x \in ToSet(s[i])
      BY <1>1, <1>2, <2>1, <3>1
    <3>3. QED
      BY <3>2 DEF Elements
  <2>4. QED
    BY <2>2, <2>3
<1>10. QED
  BY <1>7, <1>8, <1>9 DEF QueuedNumbers, s

(* The numbers of the points a lidar's handler has collected.              *)
LEMMA CollectedIncrease ==
    ASSUME FramesInv, NEW l \in Handles
    PROVE  LET s == NumbersInOrder(points_clouds_[l]) IN
           s \in Seq(Nat) /\ Increasing(s) /\ ToSet(s) = Nums(Collected(l))
<1>1. points_clouds_[l] \in Seq(Point) /\ InOrder(points_clouds_[l])
  BY DEF FramesInv, TypesInv, PathInv, OrderInv
<1>2. QED
  BY <1>1, NumbersIncrease DEF Collected

(* Those that are published, and those that are in the ring.               *)
LEMMA OutIncrease ==
    ASSUME FramesInv, NEW l \in Handles
    PROVE  LET s == Flat(published[l]) IN
           s \in Seq(Nat) /\ Increasing(s) /\ ToSet(s) = Nums(PointsIn(Out(l)))
<1>1. /\ published[l] \in Seq(MessageSet) /\ Len(published[l]) \in Nat
      /\ DOMAIN Out(l) = 1 .. Len(published[l]) /\ Follow(l, Out(l))
  BY DEF FramesInv, TypesInv, PathInv, OrderInv, Out
<1>2. \A i \in DOMAIN published[l] :
          NumbersInOrder(Out(l)[i].points) = NumbersInOrder(published[l][i].points)
  BY DEF Out, FrameOf, NumbersInOrder
<1>3. Flat(published[l]) = Flat(Out(l))
  <2>1. DOMAIN Out(l) = DOMAIN published[l]
    BY DEF Out
  <2>2. [i \in DOMAIN published[l] |-> NumbersInOrder(published[l][i].points)]
            = [i \in DOMAIN Out(l) |-> NumbersInOrder(Out(l)[i].points)]
    BY <1>2, <2>1
  <2>3. QED
    BY <2>2 DEF Flat
<1>4. QED
  BY <1>1, <1>3, FramesIncrease

LEMMA UnreadIncrease ==
    ASSUME FramesInv, NEW l \in Handles
    PROVE  LET s == Flat(UnreadFrames(l)) IN
           s \in Seq(Nat) /\ Increasing(s) /\ ToSet(s) = Nums(PointsIn(UnreadFrames(l)))
<1>1. UnreadFrames(l) \in Seq(Frame) /\ Follow(l, UnreadFrames(l))
  BY UnreadIs DEF FramesInv, PathInv, OrderInv
<1>2. Len(UnreadFrames(l)) \in Nat /\ DOMAIN UnreadFrames(l) = 1 .. Len(UnreadFrames(l))
  BY <1>1
<1>3. QED
  BY <1>1, <1>2, FramesIncrease

(* Every packet that has arrived is at one place of the way to the topic,  *)
(* or was in a frame that was refused; and the places, the frames in them  *)
(* and the points in those are in the order of arrival.                    *)
THEOREM PacketsKeepTheirOrder == FramesSpec => []EachPacketOnce
<1>1. FramesInv => EachPacketOnce
  <2> SUFFICES ASSUME FramesInv, NEW l \in Handles
               PROVE  /\ ToSet(Along(l)) = (1 .. sent[l]) \ dropped[l]
                      /\ Increasing(Along(l))
    BY DEF EachPacketOnce, Increasing
  <2> DEFINE a == Flat(published[l])
             b == Flat(UnreadFrames(l))
             c == CutNumbers(l)
             d == NumbersInOrder(points_clouds_[l])
             e == QueuedNumbers(l)
             s == <<a, b, c, d, e>>
  <2>1. /\ a \in Seq(Nat) /\ Increasing(a) /\ ToSet(a) = Nums(PointsIn(Out(l)))
        /\ b \in Seq(Nat) /\ Increasing(b) /\ ToSet(b) = Nums(PointsIn(UnreadFrames(l)))
        /\ c \in Seq(Nat) /\ Increasing(c) /\ ToSet(c) = Nums(Cutting(l))
        /\ d \in Seq(Nat) /\ Increasing(d) /\ ToSet(d) = Nums(Collected(l))
        /\ e \in Seq(Nat) /\ Increasing(e) /\ ToSet(e) = Nums(Raw(l))
    BY OutIncrease, UnreadIncrease, CutIncreases, CollectedIncrease, QueuedIncrease
  <2>2. Path(PointsIn(Out(l)), PointsIn(UnreadFrames(l)), Cutting(l), Collected(l), Raw(l))
    BY DEF FramesInv, PathInv, OrderInv
  <2>3. /\ Below(a, b) /\ Below(a, c) /\ Below(a, d) /\ Below(a, e)
        /\ Below(b, c) /\ Below(b, d) /\ Below(b, e)
        /\ Below(c, d) /\ Below(c, e) /\ Below(d, e)
    <3> HIDE DEF a, b, c, d, e
    <3>1. \A P, Q, R : AllBefore(P, Q) /\ R \subseteq Q => AllBefore(P, R)
      BY DEF AllBefore
    <3>2. QED
      BY <2>1, <2>2, <3>1, NumbersBelow DEF Path
  <2>4. ToSet(a) \cup ToSet(b) \cup ToSet(c) \cup ToSet(d) \cup ToSet(e) = Nums(OnTheWay(l))
    BY <2>1 DEF OnTheWay, Nums
  <2>5. Nums(OnTheWay(l)) = (1 .. sent[l]) \ dropped[l]
    BY DEF FramesInv, PathInv, Accounted
  <2>6. Along(l) = FlattenSeq(s)
    BY DEF Along
  <2> HIDE DEF a, b, c, d, e
  <2>7. s \in Seq(Seq(Nat)) /\ Len(s) = 5 /\ DOMAIN s = 1 .. 5
    BY <2>1
  <2>8. s[1] = a /\ s[2] = b /\ s[3] = c /\ s[4] = d /\ s[5] = e
    OBVIOUS
  <2> HIDE DEF s
  <2>9. \A i \in 1 .. 5 : i = 1 \/ i = 2 \/ i = 3 \/ i = 4 \/ i = 5
    OBVIOUS
  <2>10. \A i \in DOMAIN s : Increasing(s[i])
    BY <2>1, <2>7, <2>8, <2>9
  <2>11. \A i, j \in DOMAIN s : i < j => Below(s[i], s[j])
    BY <2>3, <2>7, <2>8, <2>9
  <2>12. Increasing(Along(l))
    BY <2>6, <2>7, <2>10, <2>11, FlattenIncreases
  <2>13. Elements(s, 5) = ToSet(a) \cup ToSet(b) \cup ToSet(c) \cup ToSet(d) \cup ToSet(e)
    BY <2>8, <2>9 DEF Elements
  <2>14. ToSet(Along(l)) = (1 .. sent[l]) \ dropped[l]
    BY <2>4, <2>5, <2>6, <2>7, <2>13, FlattenElements
  <2>15. QED
    BY <2>12, <2>14
<1>2. QED
  BY <1>1, FramesAreSound, PTL
-----------------------------------------------------------------------------
(* The rings implement FrameQueues.                                        *)
MessagesOf(l, s) == [i \in DOMAIN s |-> Message(l, s[i])]
MessagesFrom(l) == {Message(l, f) : f \in Frame}

LEMMA MessagesFollow ==
    ASSUME NEW l, NEW s \in Seq(Frame)
    PROVE  /\ MessagesOf(l, s) \in Seq(MessagesFrom(l)) /\ Len(MessagesOf(l, s)) = Len(s)
           /\ \A e \in Frame :
                 /\ Message(l, e) \in MessagesFrom(l)
                 /\ MessagesOf(l, Append(s, e)) = Append(MessagesOf(l, s), Message(l, e))
           /\ s # <<>> => /\ MessagesOf(l, s) # <<>>
                          /\ Head(MessagesOf(l, s)) = Message(l, Head(s))
                          /\ MessagesOf(l, Tail(s)) = Tail(MessagesOf(l, s))
<1> DEFINE m == MessagesOf(l, s)
<1>1. Len(s) \in Nat /\ DOMAIN s = 1 .. Len(s) /\ \A i \in DOMAIN s : s[i] \in Frame
  OBVIOUS
<1>2. m = [i \in 1 .. Len(s) |-> Message(l, s[i])]
  BY <1>1 DEF MessagesOf
<1>3. \A e \in Frame : Message(l, e) \in MessagesFrom(l)
  BY DEF MessagesFrom
<1>4. m \in Seq(MessagesFrom(l)) /\ Len(m) = Len(s)
  <2>1. \A i \in 1 .. Len(s) : Message(l, s[i]) \in MessagesFrom(l)
    BY <1>1, <1>3
  <2>2. QED
    BY <1>1, <1>2, <2>1
<1> HIDE DEF m
<1>5. ASSUME NEW e \in Frame PROVE MessagesOf(l, Append(s, e)) = Append(m, Message(l, e))
  <2>1. MessagesOf(l, Append(s, e)) = [i \in 1 .. Len(s) + 1 |-> Message(l, Append(s, e)[i])]
    BY DEF MessagesOf
  <2>2. Append(m, Message(l, e)) = [i \in 1 .. Len(s) + 1 |-> IF i <= Len(s) THEN m[i] ELSE Message(l, e)]
    BY <1>3, <1>4, SequencesAsFunctions
  <2>3. ASSUME NEW i \in 1 .. Len(s) + 1
        PROVE  Message(l, Append(s, e)[i]) = IF i <= Len(s) THEN m[i] ELSE Message(l, e)
    <3>1. CASE i <= Len(s)
      <4>1. i \in 1 .. Len(s) /\ Append(s, e)[i] = s[i]
        BY <1>1, <3>1
      <4>2. QED
        BY <1>2, <3>1, <4>1
    <3>2. CASE i = Len(s) + 1
      <4>1. Append(s, e)[i] = e /\ ~(i <= Len(s))
        BY <1>1, <3>2
      <4>2. QED
        BY <4>1
    <3>3. QED
      BY <1>1, <3>1, <3>2
  <2>4. QED
    BY <2>1, <2>2, <2>3
<1>6. ASSUME s # <<>>
      PROVE  m # <<>> /\ Head(m) = Message(l, Head(s)) /\ MessagesOf(l, Tail(s)) = Tail(m)
  <2>1. Len(s) >= 1 /\ 1 \in 1 .. Len(s) /\ Head(s) = s[1] /\ Tail(s) \in Seq(Frame)
    BY <1>1, <1>6
  <2>2. m # <<>> /\ Head(m) = m[1]
    BY <1>4, <2>1
  <2>3. MessagesOf(l, Tail(s)) = [i \in 1 .. Len(s) - 1 |-> Message(l, Tail(s)[i])]
    BY <1>1, <2>1 DEF MessagesOf
  <2>4. Tail(m) = [i \in 1 .. Len(s) - 1 |-> m[i + 1]]
    BY <1>4, <2>2, SequencesAsFunctions
  <2>5. \A i \in 1 .. Len(s) - 1 : Tail(s)[i] = s[i + 1] /\ i + 1 \in 1 .. Len(s)
    BY <1>1, <2>1
  <2>6. \A i \in 1 .. Len(s) - 1 : Message(l, Tail(s)[i]) = m[i + 1]
    BY <1>2, <2>5
  <2>7. QED
    BY <1>2, <2>1, <2>2, <2>3, <2>4, <2>6
<1>7. QED
  BY <1>3, <1>4, <1>5, <1>6 DEF m

LEMMA PublishesUnread == \A l : ToPublish(l) = MessagesOf(l, UnreadFrames(l))
  BY DEF ToPublish, MessagesOf

(* The frame enters with the write index.                                  *)
LEMMA EnterStep == ASSUME FramesInv, MoveWriteIndex PROVE FQ!Next
<1>1. PICK e, h : e = Head(frame_) /\ h = e.lidar
  OBVIOUS
<1>2. /\ h \in Handles /\ e \in Frame
      /\ UnreadFrames(h) \in Seq(Frame) /\ Len(UnreadFrames(h)) < RingSize
      /\ UnreadFrames(h)' = Append(UnreadFrames(h), e)
      /\ \A l \in Handles : l # h => UnreadFrames(l)' = UnreadFrames(l)
  BY <1>1, FrameEnters
<1>3. published' = published
  BY DEF MoveWriteIndex
<1>4. /\ ToPublish(h) = MessagesOf(h, UnreadFrames(h)) /\ Len(ToPublish(h)) < RingSize
      /\ ToPublish(h) \in Seq(MessagesFrom(h)) /\ Message(h, e) \in MessagesFrom(h)
  BY <1>2, MessagesFollow, PublishesUnread
<1>5. ToPublish(h)' = Append(ToPublish(h), Message(h, e))
  <2>1. ToPublish(h)' = MessagesOf(h, UnreadFrames(h)')
    BY DEF ToPublish, MessagesOf, Message
  <2>2. QED
    BY <1>2, <1>4, <2>1, MessagesFollow
<1>6. \A l \in Handles : l # h => ToPublish(l)' = ToPublish(l)
  <2>1. \A l : ToPublish(l)' = MessagesOf(l, UnreadFrames(l)')
    BY DEF ToPublish, MessagesOf, Message
  <2>2. \A l : ToPublish(l) = MessagesOf(l, UnreadFrames(l))
    BY DEF ToPublish, MessagesOf
  <2>3. QED
    BY <1>2, <2>1, <2>2
<1>7. Append(ToPublish(h), Message(h, e)) # <<>>
      /\ Append(ToPublish(h), Message(h, e))[Len(Append(ToPublish(h), Message(h, e)))] = Message(h, e)
  BY <1>4
<1>8. FQ!Enter(h)
  BY <1>2, <1>3, <1>4, <1>5, <1>6, <1>7 DEF FQ!Enter
<1>9. QED
  BY <1>2, <1>8 DEF FQ!Next

(* It leaves when its slot is copied; the index moves later.               *)
LEMMA LeaveStep == ASSUME FramesInv, NEW h \in Known, CopySlot(h) PROVE FQ!Next
<1>1. /\ data' = data /\ reading = {} /\ reading' = {h} /\ ~QueueIsEmpty(data[h])
      /\ published' = [published EXCEPT ![h] = Append(@, Message(h, QueuePrePop(data[h])))]
  BY DEF CopySlot
<1>2. h \in Handles
  BY FramesAssumption
<1>3. Ring(data[h])
  BY <1>1, <1>2, NewRing DEF FramesInv, RingsInv
<1>4. Contents(data[h]) # <<>> /\ QueuePrePop(data[h]) = Head(Contents(data[h]))
  BY <1>1, <1>3, PopTakes
<1>5. UnreadFrames(h) \in Seq(Frame)
  BY <1>2, UnreadIs DEF FramesInv, PathInv, OrderInv
<1>6. UnreadFrames(h) = Contents(data[h]) /\ UnreadFrames(h)' = Tail(UnreadFrames(h))
  BY <1>1 DEF UnreadFrames
<1>7. \A l \in Handles : l # h => UnreadFrames(l)' = UnreadFrames(l)
  BY <1>1 DEF UnreadFrames
<1>8. ToPublish(h) = MessagesOf(h, UnreadFrames(h)) /\ ToPublish(h)' = MessagesOf(h, UnreadFrames(h)')
  BY DEF ToPublish, MessagesOf, Message
<1>9. /\ ToPublish(h) # <<>> /\ ToPublish(h)' = Tail(ToPublish(h))
      /\ Head(ToPublish(h)) = Message(h, QueuePrePop(data[h]))
  BY <1>4, <1>5, <1>6, <1>8, MessagesFollow
<1>10. \A l \in Handles : l # h => ToPublish(l)' = ToPublish(l)
  BY <1>7 DEF ToPublish, Message
<1>11. published' = [published EXCEPT ![h] = Append(@, Head(ToPublish(h)))]
  BY <1>1, <1>9
<1>12. FQ!Leave(h)
  BY <1>2, <1>9, <1>10, <1>11 DEF FQ!Leave
<1>13. QED
  BY <1>2, <1>12 DEF FQ!Next

(* Nothing else shows at the queues.                                       *)
LEMMA QuietStep ==
    ASSUME published' = published, \A l \in Handles : UnreadFrames(l)' = UnreadFrames(l)
    PROVE  UNCHANGED FQ!queues
<1>1. \A l \in Handles : ToPublish(l)' = ToPublish(l)
  BY DEF ToPublish, Message
<1>2. QED
  BY <1>1 DEF FQ!queues

LEMMA QueuesInitially == FramesInit => FQ!Init
<1> SUFFICES ASSUME FramesInit PROVE FQ!Init
  OBVIOUS
<1>1. ASSUME NEW l \in Handles PROVE ToPublish(l) = <<>>
  <2>1. UnreadFrames(l) = <<>>
    BY NewRing DEF FramesInit, UnreadFrames
  <2>2. QED
    BY <2>1 DEF ToPublish
<1>2. published = [l \in Handles |-> <<>>]
  BY DEF FramesInit
<1>3. QED
  BY <1>1, <1>2 DEF FQ!Init

LEMMA QueuesStep == FramesInv /\ [FramesNext]_framing => [FQ!Next]_(FQ!queues)
<1> SUFFICES ASSUME FramesInv, [FramesNext]_framing PROVE FQ!Next \/ UNCHANGED FQ!queues
  OBVIOUS
<1>1. ASSUME published' = published, data' = data, reading' = reading
      PROVE  UNCHANGED FQ!queues
  BY <1>1, QuietStep DEF UnreadFrames
<1>2. CASE Tick \/ Uninit \/ Joined
  BY <1>1, <1>2 DEF Tick, Uninit, Joined, rings
<1>3. ASSUME NEW l \in Handles, NEW by \in TimeTypes[l],
             OnImuData(by) \/ \E stamp \in Stamps(l, by) : OnPointCloud(l, by, stamp)
      PROVE  UNCHANGED FQ!queues
  BY <1>1, <1>3 DEF OnImuData, OnPointCloud, rings
<1>4. CASE TakePacket \/ CheckTimerSync \/ CheckTimerNoSync \/ Refuse \/ EndOfFrame
  BY <1>1, <1>4 DEF TakePacket, CheckTimerSync, CheckTimerNoSync, Refuse, EndOfFrame, rings
<1>5. CASE FillSlot
  <2>1. published' = published
    BY <1>5 DEF FillSlot
  <2>2. QED
    BY <1>5, <2>1, FillHides, QuietStep
<1>6. CASE MoveWriteIndex
  BY <1>6, EnterStep
<1>7. ASSUME NEW l \in Known, CopySlot(l) PROVE FQ!Next
  BY <1>7, LeaveStep
<1>8. ASSUME NEW l \in Known, MoveReadIndex(l) PROVE UNCHANGED FQ!queues
  <2>1. published' = published
    BY <1>8 DEF MoveReadIndex
  <2>2. QED
    BY <1>8, <2>1, PopHides, QuietStep
<1>9. CASE UNCHANGED framing
  BY <1>1, <1>9 DEF framing, rings
<1>10. QED
  BY <1>2, <1>3, <1>4, <1>5, <1>6, <1>7, <1>8, <1>9
     DEF FramesNext, RawDataProcess, PointCloudThread

(* What the rings promise: slots filled before the index that shows them,  *)
(* indices that wrap and slots given back after they were copied are, to   *)
(* whoever looks at the messages only, one queue per lidar (ldq.cpp).      *)
THEOREM RingsAreQueues == FramesSpec => FrameQueuesSpec
<1>1. FramesInit => FQ!Init
  BY QueuesInitially
<1>2. FramesInv /\ [FramesNext]_framing => [FQ!Next]_(FQ!queues)
  BY QueuesStep
<1>3. FramesSpec => []FramesInv
  BY FramesAreSound
<1>4. QED
  BY <1>1, <1>2, <1>3, PTL DEF FramesSpec, FrameQueuesSpec, FQ!Spec
=============================================================================
