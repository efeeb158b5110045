------------------------ MODULE ThrustMapping_proofs ------------------------
(***************************************************************************)
(* Theorems about ThrustMapping for every window, queue limit, period, and *)
(* every set of limits and yaw angles.                                     *)
(***************************************************************************)
EXTENDS ThrustMapping, SequenceTheorems, TLAPS

Ordered(q) == \A i, j \in DOMAIN q : i < j => q[i] >= q[j]

Fine(q) == q \in Seq(Age) /\ Len(q) <= QueueLimit /\ Ordered(q)

LEMMA AgeIsNat == Age \subseteq Nat /\ 0 \in Age
BY QueueAssumption DEF Age

(* A queue stays ordered and bounded when samples are popped, ...         *)
LEMMA PopFine ==
  ASSUME NEW q, Fine(q), NEW k \in 0..Len(q)
  PROVE  /\ Fine(SubSeq(q, k + 1, Len(q)))
         /\ Len(SubSeq(q, k + 1, Len(q))) = Len(q) - k
         /\ \A i \in 1..Len(q) - k : SubSeq(q, k + 1, Len(q))[i] = q[k + i]
<1> DEFINE r == SubSeq(q, k + 1, Len(q))
<1>1. q \in Seq(Age) /\ Len(q) \in Nat /\ Len(q) <= QueueLimit /\ DOMAIN q = 1..Len(q)
      /\ k \in Nat /\ k <= Len(q)
  BY LenProperties DEF Fine
<1>2. \A i \in k + 1 .. Len(q) : q[i] \in Age
  BY <1>1, ElementOfSeq
<1>3. r \in Seq(Age) /\ Len(r) = Len(q) - k
      /\ \A i \in 1 .. Len(q) - k : r[i] = q[k + i]
  <2>1. k + 1 \in Int /\ Len(q) \in Int
    BY <1>1
  <2>2. /\ r \in Seq(Age)
        /\ Len(r) = IF k + 1 <= Len(q) THEN Len(q) - (k + 1) + 1 ELSE 0
        /\ \A i \in 1 .. Len(q) - (k + 1) + 1 : r[i] = q[(k + 1) + i - 1]
    BY <2>1, <1>2, SubSeqProperties
  <2> HIDE DEF r
  <2>3. Len(r) = Len(q) - k
    <3>1. Len(r) = IF k + 1 <= Len(q) THEN Len(q) - (k + 1) + 1 ELSE 0
      BY <2>2
    <3>2. Len(q) \in Nat /\ k \in Nat /\ k <= Len(q)
      BY <1>1
    <3>3. CASE k + 1 <= Len(q)
      BY <3>1, <3>2, <3>3
    <3>4. CASE ~(k + 1 <= Len(q))
      BY <3>1, <3>2, <3>4
    <3> QED BY <3>3, <3>4
  <2>4. \A i \in 1 .. Len(q) - k : r[i] = q[k + i]
    <3> SUFFICES ASSUME NEW i \in 1 .. Len(q) - k PROVE r[i] = q[k + i]
      OBVIOUS
    <3>1. i \in 1 .. Len(q) - (k + 1) + 1 /\ (k + 1) + i - 1 = k + i
      BY <1>1
    <3>2. r[i] = q[(k + 1) + i - 1]
      BY <3>1, <2>2
    <3> QED BY <3>1, <3>2
  <2> QED BY <2>2, <2>3, <2>4
<1> HIDE DEF r
<1>4. Ordered(r)
  <2> SUFFICES ASSUME NEW i \in DOMAIN r, NEW j \in DOMAIN r, i < j PROVE r[i] >= r[j]
    BY DEF Ordered
  <2>1. DOMAIN r = 1 .. Len(q) - k
    BY <1>3, LenProperties
  <2>2. k + i \in DOMAIN q /\ k + j \in DOMAIN q /\ k + i < k + j
    BY <2>1, <1>1
  <2>3. q[k + i] >= q[k + j]
    BY <2>2 DEF Fine, Ordered
  <2>4. r[i] = q[k + i] /\ r[j] = q[k + j]
    BY <2>1, <1>3
  <2> QED BY <2>3, <2>4
<1>5. Len(r) <= QueueLimit
  BY <1>1, <1>3, QueueAssumption
<1>6. Fine(r)
  BY <1>3, <1>4, <1>5 DEF Fine
<1> QED BY <1>3, <1>6 DEF r

(* ... when the sample that was used is removed, ...                      *)
LEMMA UnusedFine ==
  ASSUME NEW q, Fine(q)
  PROVE  /\ Fine(Unused(q))
         /\ \A i \in DOMAIN Unused(q) : \E j \in DOMAIN q : Unused(q)[i] = q[j]
<1>1. CASE ~Usable(q)
  BY <1>1 DEF Unused
<1>2. CASE Usable(q)
  <2>1. q \in Seq(Age) /\ q # <<>> /\ Len(q) \in Nat /\ DOMAIN q = 1..Len(q)
    BY <1>2, LenProperties DEF Usable, Fine
  <2>2. Len(q) # 0
    BY <2>1, EmptySeq
  <2>3. Tail(q) = SubSeq(q, 2, Len(q))
    BY <2>1, TailIsSubSeq
  <2>4. 1 \in 0..Len(q) /\ 1 + 1 = 2
    BY <2>1, <2>2
  <2>5. /\ Fine(Tail(q)) /\ Len(Tail(q)) = Len(q) - 1
        /\ \A i \in 1..Len(q) - 1 : Tail(q)[i] = q[1 + i]
    <3>1. /\ Fine(SubSeq(q, 1 + 1, Len(q)))
          /\ Len(SubSeq(q, 1 + 1, Len(q))) = Len(q) - 1
          /\ \A i \in 1..Len(q) - 1 : SubSeq(q, 1 + 1, Len(q))[i] = q[1 + i]
      BY <2>4, PopFine
    <3> QED BY <3>1, <2>3, <2>4
  <2>6. DOMAIN Tail(q) = 1..Len(q) - 1
    BY <2>5, LenProperties DEF Fine
  <2>7. \A i \in DOMAIN Tail(q) : 1 + i \in DOMAIN q
    BY <2>6, <2>1
  <2> QED BY <1>2, <2>5, <2>6, <2>7 DEF Unused
<1> QED BY <1>1, <1>2

(* ... and when the thrust just commanded is pushed and the queue is cut. *)
LEMMA PushFine ==
  ASSUME NEW q, Fine(q)
  PROVE  /\ Fine(Cut(Append(q, 0)))
         /\ \A i \in DOMAIN Cut(Append(q, 0)) :
              \/ Cut(Append(q, 0))[i] = 0
              \/ \E j \in DOMAIN q : Cut(Append(q, 0))[i] = q[j]
<1> DEFINE a == Append(q, 0)
<1>1. q \in Seq(Age) /\ Len(q) \in Nat /\ Len(q) <= QueueLimit /\ DOMAIN q = 1..Len(q)
  BY LenProperties DEF Fine
<1>2. /\ a \in Seq(Age) /\ Len(a) = Len(q) + 1
      /\ \A i \in 1..Len(q) : a[i] = q[i]
      /\ a[Len(q) + 1] = 0
  BY <1>1, AgeIsNat, AppendProperties
<1>3. DOMAIN a = 1..Len(q) + 1
  BY <1>2, LenProperties
<1> HIDE DEF a
<1>4. \A i \in DOMAIN a : a[i] = 0 \/ \E j \in DOMAIN q : a[i] = q[j]
  <2> SUFFICES ASSUME NEW i \in DOMAIN a PROVE a[i] = 0 \/ \E j \in DOMAIN q : a[i] = q[j]
    OBVIOUS
  <2>1. i \in 1..Len(q) \/ i = Len(q) + 1
    BY <1>1, <1>3
  <2> QED BY <2>1, <1>1, <1>2
<1>5. \A i, j \in DOMAIN a : i < j => a[i] >= a[j]
  <2> SUFFICES ASSUME NEW i \in DOMAIN a, NEW j \in DOMAIN a, i < j PROVE a[i] >= a[j]
    OBVIOUS
  <2>1. i \in 1..Len(q)
    BY <1>1, <1>3
  <2>2. a[i] = q[i] /\ q[i] \in Age
    BY <2>1, <1>1, <1>2, ElementOfSeq
  <2>3. CASE j = Len(q) + 1
    BY <2>2, <2>3, <1>2, QueueAssumption DEF Age
  <2>4. CASE j \in 1..Len(q)
    BY <2>1, <2>2, <2>4, <1>1, <1>2 DEF Fine, Ordered
  <2> QED BY <1>1, <1>3, <2>3, <2>4
<1>6. CASE Len(a) <= QueueLimit
  <2>1. Cut(a) = a
    BY <1>6, <1>1, <1>2, QueueAssumption DEF Cut
  <2> QED BY <2>1, <1>2, <1>4, <1>5, <1>6 DEF Fine, Ordered, a
<1>7. CASE ~(Len(a) <= QueueLimit)
  <2>1. Len(q) = QueueLimit /\ QueueLimit \in Nat /\ QueueLimit >= 1
    <3>1. ~(Len(q) + 1 <= QueueLimit)
      BY <1>7, <1>2
    <3>2. Len(q) \in Nat /\ Len(q) <= QueueLimit
      BY <1>1
    <3> QED BY <3>1, <3>2, QueueAssumption
  <2>2. Cut(a) = SubSeq(a, 2, Len(q) + 1)
    BY <1>7, <1>1, <1>2, <2>1 DEF Cut
  <2> DEFINE r == SubSeq(a, 2, Len(q) + 1)
  <2>3. \A i \in 2 .. Len(q) + 1 : a[i] \in Age
    BY <1>1, <1>2, ElementOfSeq
  <2>4. /\ r \in Seq(Age)
        /\ Len(r) = IF 2 <= Len(q) + 1 THEN (Len(q) + 1) - 2 + 1 ELSE 0
        /\ \A i \in 1 .. (Len(q) + 1) - 2 + 1 : r[i] = a[2 + i - 1]
    BY <2>3, <1>1, SubSeqProperties
  <2> HIDE DEF r
  <2>5. Len(r) = Len(q) /\ DOMAIN r = 1..Len(q)
    BY <2>1, <2>4, <1>1, LenProperties
  <2>6. \A i \in DOMAIN r : i + 1 \in DOMAIN a /\ r[i] = a[i + 1]
    <3>1. (Len(q) + 1) - 2 + 1 = Len(q) /\ \A i \in 1..Len(q) : 2 + i - 1 = i + 1
      BY <1>1
    <3>2. \A i \in 1..Len(q) : i + 1 \in 1..Len(q) + 1
      BY <1>1
    <3> QED BY <3>1, <3>2, <2>4, <2>5, <1>3
  <2>7. Ordered(r)
    <3> SUFFICES ASSUME NEW i \in DOMAIN r, NEW j \in DOMAIN r, i < j PROVE r[i] >= r[j]
      BY DEF Ordered
    <3>1. i + 1 < j + 1
      BY <2>5, <1>1
    <3> QED BY <3>1, <2>6, <1>5
  <2>8. Fine(r)
    BY <2>4, <2>5, <2>7, <1>1 DEF Fine
  <2>9. \A i \in DOMAIN r : r[i] = 0 \/ \E j \in DOMAIN q : r[i] = q[j]
    BY <2>6, <1>4
  <2> QED BY <2>2, <2>8, <2>9 DEF r, a
<1> QED BY <1>6, <1>7

(* A cycle that learns leaves the queue fine, and nothing expired in it.  *)
LEMMA LearnFine ==
  ASSUME NEW q, Fine(q), NEW new, NEW learnt, Learn(q, new, learnt)
  PROVE  Fine(new) /\ learnt \in BOOLEAN /\ \A i \in DOMAIN new : new[i] <= OldAge
<1>1. PICK k \in 0..Len(q) :
        /\ Popped(q, k)
        /\ learnt = Usable(SubSeq(q, k + 1, Len(q)))
        /\ new = Cut(Append(Unused(SubSeq(q, k + 1, Len(q))), 0))
  BY DEF Learn
<1> DEFINE r == SubSeq(q, k + 1, Len(q))
<1>2. /\ Fine(r) /\ Len(r) = Len(q) - k
      /\ \A i \in 1..Len(q) - k : r[i] = q[k + i]
  BY PopFine
<1>3. q \in Seq(Age) /\ Len(q) \in Nat /\ DOMAIN q = 1..Len(q)
  BY LenProperties DEF Fine
<1>4. \A i \in DOMAIN r : r[i] <= OldAge
  <2> SUFFICES ASSUME NEW i \in DOMAIN r PROVE r[i] <= OldAge
    OBVIOUS
  <2>1. DOMAIN r = 1..Len(q) - k
    BY <1>2, LenProperties DEF Fine
  <2>2. k < Len(q) /\ k + 1 \in DOMAIN q /\ k + i \in DOMAIN q /\ k + 1 <= k + i
    BY <2>1, <1>3
  <2>3. q[k + 1] <= OldAge
    BY <2>2, <1>1 DEF Popped
  <2>4. q[k + 1] \in Age /\ q[k + i] \in Age
    BY <2>2, <1>3, ElementOfSeq
  <2>5. q[k + 1] >= q[k + i]
    <3>1. CASE i = 1
      BY <3>1, <2>4, QueueAssumption DEF Age
    <3>2. CASE i # 1
      <4>1. k + 1 < k + i
        BY <3>2, <2>1, <1>3
      <4> QED BY <4>1, <2>2 DEF Fine, Ordered
    <3> QED BY <3>1, <3>2
  <2>6. r[i] = q[k + i]
    BY <2>1, <1>2
  <2> QED BY <2>3, <2>4, <2>5, <2>6, QueueAssumption DEF Age
<1> HIDE DEF r
<1>5. Fine(Unused(r)) /\ \A i \in DOMAIN Unused(r) : \E j \in DOMAIN r : Unused(r)[i] = r[j]
  BY <1>2, UnusedFine
<1>6. new = Cut(Append(Unused(r), 0)) /\ learnt = Usable(r)
  BY <1>1 DEF r
<1>7. /\ Fine(new)
      /\ \A i \in DOMAIN new : new[i] = 0 \/ \E j \in DOMAIN Unused(r) : new[i] = Unused(r)[j]
  BY <1>5, <1>6, PushFine
<1>8. \A i \in DOMAIN new : new[i] <= OldAge
  BY <1>4, <1>5, <1>7, QueueAssumption
<1>9. Usable(r) \in BOOLEAN
  BY DEF Usable
<1> QED BY <1>6, <1>7, <1>8, <1>9

(* Time makes no sample overtake another.                                 *)
LEMMA TickFine ==
  ASSUME NEW q, Fine(q)
  PROVE  Fine([i \in DOMAIN q |-> Older(q[i], OldAge + 1)])
<1> DEFINE r == [i \in DOMAIN q |-> Older(q[i], OldAge + 1)]
<1>1. q \in Seq(Age) /\ Len(q) \in Nat /\ Len(q) <= QueueLimit /\ DOMAIN q = 1..Len(q)
  BY LenProperties DEF Fine
<1>2. \A i \in DOMAIN q : q[i] \in Age
  BY <1>1, ElementOfSeq
<1>3. \A a \in Age : Older(a, OldAge + 1) \in Age
  BY QueueAssumption DEF Age, Older
<1>4. \A a, b \in Age : a >= b => Older(a, OldAge + 1) >= Older(b, OldAge + 1)
  BY QueueAssumption DEF Age, Older
<1>5. r \in [1..Len(q) -> Age]
  BY <1>1, <1>2, <1>3
<1>6. r \in Seq(Age) /\ Len(r) = Len(q) /\ DOMAIN r = 1..Len(q)
  <2> HIDE DEF r
  <2>1. r \in Seq(Age)
    BY <1>1, <1>5, SeqDef
  <2>2. DOMAIN r = 1..Len(q) /\ DOMAIN r = 1..Len(r) /\ Len(r) \in Nat
    BY <1>5, <2>1, LenProperties
  <2> QED BY <1>1, <2>1, <2>2
<1>7. Ordered(r)
  <2> SUFFICES ASSUME NEW i \in DOMAIN q, NEW j \in DOMAIN q, i < j PROVE r[i] >= r[j]
    BY <1>1, <1>6 DEF Ordered
  <2>1. q[i] >= q[j]
    BY DEF Fine, Ordered
  <2> QED BY <2>1, <1>2, <1>4
<1> QED BY <1>1, <1>6, <1>7 DEF Fine

-----------------------------------------------------------------------------
(* What a solve does.                                                     *)

LEMMA SafeHover == \A h \in Hover : Safe(h) \in Hover
BY HoverAssumption DEF Safe, Hover

LEMMA SolveEffect ==
  ASSUME NEW h \in Hover, NEW last \in Control, NEW has \in BOOLEAN,
         limits \in Limits, Solve(h, last, has)
  PROVE  /\ u_last' \in Control /\ u_last'.hover = h
         /\ has_last_control' = TRUE
         /\ solved' \in [limits : Limits, yaw : Yaws, ok : BOOLEAN]
         /\ solved'.limits = limits
         /\ solved'.ok <=> Feasible(h, solved'.yaw,
                                    LastControl(last, has, solved'.yaw), limits)
         /\ solved'.ok => /\ limits.min <= u_last'.signal
                          /\ u_last'.signal <= limits.max
                          /\ u_last'.yaw = solved'.yaw
<1>1. PICK yaw \in Yaws, n \in 0..Full, y \in Yaws :
        /\ Feasible(h, yaw, LastControl(last, has, yaw), limits)
             => Solution(n, h, yaw, LastControl(last, has, yaw), limits) /\ y = yaw
        /\ u_last' = [signal |-> n, hover |-> h, yaw |-> y]
        /\ has_last_control' = TRUE
        /\ solved' = [limits |-> limits, yaw |-> yaw,
                      ok |-> Feasible(h, yaw, LastControl(last, has, yaw), limits)]
  BY DEF Solve
<1> DEFINE ok == Feasible(h, yaw, LastControl(last, has, yaw), limits)
<1>2. ok \in BOOLEAN
  BY DEF Feasible
<1> HIDE DEF ok
<1>3. solved' = [limits |-> limits, yaw |-> yaw, ok |-> ok]
  BY <1>1 DEF ok
<1>4. ok => limits.min <= n /\ n <= limits.max /\ y = yaw
  BY <1>1 DEF ok, Solution
<1>5. u_last' \in Control /\ u_last'.hover = h /\ u_last'.signal = n /\ u_last'.yaw = y
  BY <1>1 DEF Control
<1>6. solved'.limits = limits /\ solved'.yaw = yaw /\ solved'.ok = ok
  BY <1>3
<1>7. solved' \in [limits : Limits, yaw : Yaws, ok : BOOLEAN]
  BY <1>2, <1>3
<1>8. solved'.ok <=> Feasible(h, solved'.yaw, LastControl(last, has, solved'.yaw), limits)
  BY <1>6 DEF ok
<1> QED BY <1>1, <1>4, <1>5, <1>6, <1>7, <1>8

LEMMA WeightType == \A y \in Yaws : Weight(y) \in Control
BY HoverAssumption DEF Weight, Control, Hover

(* One cycle, whatever it starts from.                                    *)
LEMMA CycleEffect ==
  ASSUME QueueInv, NEW h \in Hover, NEW last \in Control, NEW has \in BOOLEAN,
         has => last.hover = Safe(h) /\
                (solved.ok => /\ solved.limits.min <= last.signal
                              /\ last.signal <= solved.limits.max
                              /\ last.yaw = solved.yaw),
         Cycle(h, last, has)
  PROVE  /\ QueueInv' /\ SolveInv'
         /\ phase' # "manual" /\ since' = 0 /\ limits' = limits
         /\ phase' = "learn" => \A i \in DOMAIN timed_thrust' : timed_thrust'[i] <= OldAge
         /\ phase' \in {"fly", "learn"} =>
              solved'.ok <=> Feasible(Safe(hover'), solved'.yaw,
                                      LastControl(last, has, solved'.yaw), limits)
<1>1. /\ Fine(timed_thrust) /\ limits \in Limits
      /\ solved \in [limits : Limits, yaw : Yaws, ok : BOOLEAN]
  BY DEF QueueInv, MapTypeOK, Fine, Ordered
<1>2. since' = 0 /\ limits' = limits /\ 0 \in 0..MaxPeriod + 1
  BY QueueAssumption DEF Cycle
<1>3. CASE Idle(h, last, has)
  <2>1. /\ phase' = "idle" /\ hover' = h /\ u_last' = last
        /\ has_last_control' = has /\ estimated' = FALSE
        /\ timed_thrust' = timed_thrust /\ solved' = solved
    BY <1>3 DEF Idle
  <2>2. QueueInv'
    BY <2>1, <1>1, <1>2 DEF QueueInv, MapTypeOK, Fine, Ordered, Phase
  <2>3. SolveInv'
    BY <2>1 DEF SolveInv
  <2> QED BY <2>1, <2>2, <2>3, <1>2
<1>4. CASE Fly(h, last, has)
  <2>1. /\ phase' = "fly" /\ hover' = h /\ Solve(Safe(h), last, has)
        /\ estimated' = FALSE /\ timed_thrust' = Cut(Append(timed_thrust, 0))
    BY <1>4 DEF Fly
  <2>2. Fine(timed_thrust')
    BY <2>1, <1>1, PushFine
  <2>3. /\ u_last' \in Control /\ u_last'.hover = Safe(h)
        /\ has_last_control' = TRUE
        /\ solved' \in [limits : Limits, yaw : Yaws, ok : BOOLEAN]
        /\ solved'.limits = limits
        /\ solved'.ok <=> Feasible(Safe(h), solved'.yaw,
                                   LastControl(last, has, solved'.yaw), limits)
        /\ solved'.ok => /\ limits.min <= u_last'.signal
                         /\ u_last'.signal <= limits.max
                         /\ u_last'.yaw = solved'.yaw
    BY <2>1, <1>1, SafeHover, SolveEffect
  <2>4. QueueInv'
    BY <2>1, <2>2, <2>3, <1>1, <1>2 DEF QueueInv, MapTypeOK, Fine, Ordered, Phase
  <2>5. SolveInv'
    BY <2>1, <2>3 DEF SolveInv
  <2> QED BY <2>1, <2>3, <2>4, <2>5, <1>2
<1>5. CASE LearnAndFly(h, last, has)
  <2>1. /\ phase' = "learn" /\ Learn(timed_thrust, timed_thrust', estimated')
        /\ hover' \in IF estimated' THEN LeastHover..MostHover ELSE {h}
        /\ Solve(Safe(hover'), last, has)
    BY <1>5 DEF LearnAndFly
  <2>2. /\ Fine(timed_thrust') /\ estimated' \in BOOLEAN
        /\ \A i \in DOMAIN timed_thrust' : timed_thrust'[i] <= OldAge
    BY <2>1, <1>1, LearnFine
  <2>3. hover' \in Hover
    BY <2>1, HoverAssumption DEF Hover
  <2>4. /\ u_last' \in Control /\ u_last'.hover = Safe(hover')
        /\ has_last_control' = TRUE
        /\ solved' \in [limits : Limits, yaw : Yaws, ok : BOOLEAN]
        /\ solved'.limits = limits
        /\ solved'.ok <=> Feasible(Safe(hover'), solved'.yaw,
                                   LastControl(last, has, solved'.yaw), limits)
        /\ solved'.ok => /\ limits.min <= u_last'.signal
                         /\ u_last'.signal <= limits.max
                         /\ u_last'.yaw = solved'.yaw
    BY <2>1, <2>3, <1>1, SafeHover, SolveEffect
  <2>5. QueueInv'
    BY <2>1, <2>2, <2>3, <2>4, <1>1, <1>2 DEF QueueInv, MapTypeOK, Fine, Ordered, Phase
  <2>6. SolveInv'
    BY <2>4 DEF SolveInv
  <2> QED BY <2>1, <2>2, <2>4, <2>5, <2>6, <1>2
<1> QED BY <1>3, <1>4, <1>5 DEF Cycle

-----------------------------------------------------------------------------
(* The invariants.                                                        *)

LEMMA InitInv == MapInit => QueueInv /\ SolveInv
<1> SUFFICES ASSUME MapInit PROVE QueueInv /\ SolveInv
  OBVIOUS
<1>1. timed_thrust = <<>> /\ timed_thrust \in Seq(Age) /\ Len(timed_thrust) = 0
      /\ DOMAIN timed_thrust = {}
  <2>1. timed_thrust = <<>>
    BY DEF MapInit
  <2> QED BY <2>1, EmptySeq
<1>2. hover \in Hover /\ u_last \in Control /\ limits \in Limits
  BY HoverAssumption, WeightType DEF MapInit, Hover
<1>3. QueueInv
  <2>1. since \in 0..MaxPeriod + 1
    BY QueueAssumption DEF MapInit
  <2>2. solved \in [limits : Limits, yaw : Yaws, ok : BOOLEAN]
    <3>1. solved = [limits |-> limits, yaw |-> 0, ok |-> FALSE]
      BY DEF MapInit
    <3> QED BY <3>1, <1>2, HoverAssumption
  <2>3. estimated \in BOOLEAN /\ has_last_control \in BOOLEAN /\ phase \in Phase
    BY DEF MapInit, Phase
  <2>4. MapTypeOK
    BY <1>1, <1>2, <2>1, <2>2, <2>3 DEF MapTypeOK
  <2>5. Len(timed_thrust) <= QueueLimit
    BY <1>1, QueueAssumption
  <2> QED BY <1>1, <2>4, <2>5 DEF QueueInv
<1>4. SolveInv
  BY DEF MapInit, SolveInv
<1> QED BY <1>3, <1>4

(* Engage and Continue are cycles that start from a sound control.        *)
LEMMA EngageCycle ==
  ASSUME QueueInv, SolveInv, Engage
  PROVE  /\ HoverPercentage \in Hover /\ Weight(0) \in Control
         /\ Cycle(HoverPercentage, Weight(0), FALSE)
BY HoverAssumption, WeightType DEF Engage, Hover

LEMMA NextInv == QueueInv /\ SolveInv /\ [MapNext]_mapVars => QueueInv' /\ SolveInv'
<1> SUFFICES ASSUME QueueInv, SolveInv, [MapNext]_mapVars PROVE QueueInv' /\ SolveInv'
  OBVIOUS
<1> USE DEF solveVars, queueVars, mapVars
<1>1. CASE Engage
  BY <1>1, EngageCycle, CycleEffect
<1>2. CASE Continue
  BY <1>2, CycleEffect DEF Continue, SolveInv, QueueInv, MapTypeOK
<1>3. CASE Release
  BY <1>3 DEF Release, QueueInv, SolveInv, MapTypeOK, Phase
<1>4. CASE MapTick
  <2>1. Fine(timed_thrust')
    BY <1>4, TickFine DEF MapTick, QueueInv, MapTypeOK, Fine, Ordered
  <2>2. since' \in 0..MaxPeriod + 1
    BY <1>4, QueueAssumption DEF MapTick, Older, QueueInv, MapTypeOK
  <2>3. QueueInv'
    BY <1>4, <2>1, <2>2 DEF MapTick, QueueInv, MapTypeOK, Fine, Ordered
  <2>4. SolveInv'
    BY <1>4 DEF MapTick, SolveInv
  <2> QED BY <2>3, <2>4
<1>5. CASE \E l \in Limits : reconfigureCallback(l)
  BY <1>5 DEF reconfigureCallback, QueueInv, SolveInv, MapTypeOK
<1>6. CASE UNCHANGED mapVars
  BY <1>6 DEF QueueInv, SolveInv, MapTypeOK
<1> QED BY <1>1, <1>2, <1>3, <1>4, <1>5, <1>6 DEF MapNext

LEMMA MapInvariant == MapSpec => [](QueueInv /\ SolveInv)
<1>1. MapInit => QueueInv /\ SolveInv
  BY InitInv
<1>2. (QueueInv /\ SolveInv) /\ [MapNext]_mapVars => (QueueInv /\ SolveInv)'
  BY NextInv
<1> QED BY <1>1, <1>2, PTL DEF MapSpec

(* The queue of timed thrusts is ordered and bounded in every flight.     *)
THEOREM QueueIsSound == MapSpec => []QueueInv
BY MapInvariant, PTL

(* The last control belongs to the model and the limits it was solved with.*)
THEOREM LastControlIsSound == MapSpec => []SolveInv
BY MapInvariant, PTL

(* A step that Cycled describes is Engage or Continue.                    *)
LEMMA CycledIsCycle ==
  ASSUME QueueInv, [MapNext]_mapVars, Cycled
  PROVE  Engage \/ Continue
<1>1. since \in 0..MaxPeriod + 1 /\ MinPeriod \in Nat \ {0} /\ MaxPeriod \in Nat
  BY QueueAssumption DEF QueueInv, MapTypeOK
<1>2. ~Release
  BY DEF Cycled, Release
<1>3. ~MapTick
  BY <1>1 DEF Cycled, MapTick, Older
<1>4. ~(\E l \in Limits : reconfigureCallback(l)) /\ ~(UNCHANGED mapVars)
  BY <1>1 DEF Cycled, reconfigureCallback, mapVars
<1> QED BY <1>2, <1>3, <1>4 DEF MapNext

(* A cycle that learns leaves no expired sample in the queue.             *)
THEOREM NothingExpiredIsKept == MapSpec => NoBacklog
<1>1. /\ QueueInv /\ SolveInv /\ [MapNext]_mapVars
      => [Cycled /\ phase' = "learn"
            => \A i \in DOMAIN timed_thrust' : timed_thrust'[i] <= OldAge]_mapVars
  <2> SUFFICES ASSUME QueueInv, SolveInv, [MapNext]_mapVars, Cycled, phase' = "learn"
               PROVE  \A i \in DOMAIN timed_thrust' : timed_thrust'[i] <= OldAge
    OBVIOUS
  <2>1. CASE Engage
    BY <2>1, EngageCycle, CycleEffect
  <2>2. CASE Continue
    BY <2>2, CycleEffect DEF Continue, SolveInv, QueueInv, MapTypeOK
  <2> QED BY <2>1, <2>2, CycledIsCycle
<1> QED BY <1>1, MapInvariant, PTL DEF MapSpec, NoBacklog

-----------------------------------------------------------------------------
(* When a solve has a solution.                                           *)

LEMMA Products ==
  \A a, b \in Nat : a * b \in Nat /\ a * b - a * b = 0
OBVIOUS

(* After a reset: the weight of the vehicle is a solution.                *)
LEMMA WeightSolves ==
  ASSUME NEW h \in Hover, NEW yaw \in Yaws, limits \in Limits,
         limits.min <= h, h <= limits.max
  PROVE  Feasible(h, yaw, Weight(yaw), limits)
<1>1. /\ h \in Nat /\ yaw \in Int
      /\ limits \in [min : 0..Full, max : 0..Full, rate : Nat, yaw_rate : Nat]
  BY HoverAssumption, LimitsAssumption DEF Hover
<1>2. h \in 0..Full
  BY <1>1, HoverAssumption
<1>3. ThrustInReach(h, h, Weight(yaw), limits)
  BY <1>1 DEF ThrustInReach, Weight
<1>4. YawInReach(yaw, Weight(yaw), limits)
  BY <1>1 DEF YawInReach, Weight
<1> QED BY <1>2, <1>3, <1>4 DEF Feasible, Solution

(* Later: the last control, with the yaw that is desired now, is one.     *)
LEMMA LastSolves ==
  ASSUME NEW last \in Control, NEW yaw \in Yaws, limits \in Limits,
         limits.min <= last.signal, last.signal <= limits.max,
         YawInReach(yaw, last, limits)
  PROVE  Feasible(last.hover, yaw, last, limits)
<1>1. /\ last.hover \in Nat /\ last.signal \in 0..Full /\ last.signal \in Nat
      /\ limits.rate \in Nat
  BY HoverAssumption, LimitsAssumption DEF Control, Hover
<1> DEFINE p == last.signal * last.hover
           r == limits.rate * last.hover
<1>2. p \in Nat /\ r \in Nat /\ p - p = 0
  BY <1>1, Products
<1> HIDE DEF p, r
<1>3. p - p <= r
  BY <1>2
<1>4. ThrustInReach(last.signal, last.hover, last, limits)
  BY <1>3 DEF ThrustInReach, p, r
<1> QED BY <1>1, <1>4 DEF Feasible, Solution

(* A solve without solution has one of the causes of InfeasibleHasCause.  *)
THEOREM InfeasibleIsExplained == MapSpec => InfeasibleHasCause
<1>1. /\ QueueInv /\ SolveInv /\ [MapNext]_mapVars
      => [Cycled /\ phase' \in {"fly", "learn"} /\ ~solved'.ok
            => IF phase = "manual" \/ ~has_last_control
               THEN ~(limits.min <= Safe(hover') /\ Safe(hover') <= limits.max)
               ELSE \/ ~solved.ok \/ limits # solved.limits \/ hover' # hover
                    \/ ~YawInReach(solved'.yaw, u_last, limits)]_mapVars
  <2> SUFFICES ASSUME QueueInv, SolveInv, [MapNext]_mapVars,
                      Cycled, phase' \in {"fly", "learn"}, ~solved'.ok
               PROVE  IF phase = "manual" \/ ~has_last_control
                      THEN ~(limits.min <= Safe(hover') /\ Safe(hover') <= limits.max)
                      ELSE \/ ~solved.ok \/ limits # solved.limits \/ hover' # hover
                           \/ ~YawInReach(solved'.yaw, u_last, limits)
    OBVIOUS
  <2>1. Engage \/ Continue
    BY CycledIsCycle
  <2>2. /\ limits \in Limits /\ u_last \in Control /\ hover \in Hover
        /\ has_last_control \in BOOLEAN
    BY DEF QueueInv, MapTypeOK
  <2>3. QueueInv'
    BY NextInv
  <2>4. Safe(hover') \in Hover /\ solved'.yaw \in Yaws
    BY <2>3, SafeHover DEF QueueInv, MapTypeOK
  <2>5. CASE Engage
    <3>1. phase = "manual"
      BY <2>5 DEF Engage
    <3>2. ~Feasible(Safe(hover'), solved'.yaw,
                    LastControl(Weight(0), FALSE, solved'.yaw), limits)
      BY <2>5, EngageCycle, CycleEffect
    <3>3. ~Feasible(Safe(hover'), solved'.yaw, Weight(solved'.yaw), limits)
      BY <3>2 DEF LastControl
    <3> QED BY <3>1, <3>3, <2>2, <2>4, WeightSolves
  <2>6. CASE Continue
    <3>1. phase # "manual"
      BY <2>6 DEF Continue
    <3>2. ~Feasible(Safe(hover'), solved'.yaw,
                    LastControl(u_last, has_last_control, solved'.yaw), limits)
      BY <2>6, CycleEffect DEF Continue, SolveInv, QueueInv, MapTypeOK
    <3>3. CASE ~has_last_control
      <4>1. ~Feasible(Safe(hover'), solved'.yaw, Weight(solved'.yaw), limits)
        BY <3>2, <3>3 DEF LastControl
      <4> QED BY <3>3, <4>1, <2>2, <2>4, WeightSolves
    <3>4. CASE has_last_control
      <4>1. ~Feasible(Safe(hover'), solved'.yaw, u_last, limits)
        BY <3>2, <3>4 DEF LastControl
      <4>2. SUFFICES ASSUME solved.ok, limits = solved.limits, hover' = hover,
                            YawInReach(solved'.yaw, u_last, limits)
                     PROVE  FALSE
        BY <3>1, <3>4
      <4>3. /\ u_last.hover = Safe(hover)
            /\ limits.min <= u_last.signal /\ u_last.signal <= limits.max
        BY <4>2, <3>4 DEF SolveInv
      <4>4. Feasible(u_last.hover, solved'.yaw, u_last, limits)
        BY <4>2, <4>3, <2>2, <2>4, LastSolves
      <4> QED BY <4>1, <4>2, <4>3, <4>4
    <3> QED BY <3>3, <3>4, <2>2
  <2> QED BY <2>1, <2>5, <2>6
<1> QED BY <1>1, MapInvariant, PTL DEF MapSpec, InfeasibleHasCause
=============================================================================
