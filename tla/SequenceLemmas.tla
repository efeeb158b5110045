--------------------------- MODULE SequenceLemmas ---------------------------
(***************************************************************************)
(* Facts about sequences that the proofs about the SDK and the lidar       *)
(* driver share.  What a recursive function computes is found with a least *)
(* counterexample: LeastNumber is the induction that is used here.         *)
(***************************************************************************)
EXTENDS Integers, Sequences, FiniteSets, SequencesExt, FiniteSetTheorems, TLAPS

(* A set of natural numbers that is not empty has a least element.         *)
LEMMA LeastNumber ==
    ASSUME NEW S \in SUBSET Nat, S # {}
    PROVE  \E n \in S : \A m \in S : n <= m
<1> DEFINE Segments == {1 .. m : m \in S}
<1>1. Segments \subseteq FiniteSubsetsOf(Nat) /\ Segments # {}
  <2>1. \A m \in S : 1 .. m \subseteq Nat /\ IsFiniteSet(1 .. m)
    BY FS_Interval
  <2>2. QED
    BY <2>1 DEF FiniteSubsetsOf
<1>2. PICK s \in Segments : \A t \in Segments : <<t, s>> \notin StrictSubsetOrdering(Nat)
  BY <1>1, FS_StrictSubsetOrderingWellFounded, WFMin
<1>3. PICK n \in S : s = 1 .. n
  OBVIOUS
<1>4. ASSUME NEW m \in S, m < n
      PROVE  FALSE
  <2>1. 1 .. m \subseteq 1 .. n /\ 1 .. m # 1 .. n
    BY <1>4
  <2>2. <<1 .. m, s>> \in StrictSubsetOrdering(Nat)
    BY <2>1, <1>3 DEF StrictSubsetOrdering
  <2>3. QED
    BY <2>2, <1>2
<1>5. QED
  BY <1>4

-----------------------------------------------------------------------------
(* The elements of a sequence.                                             *)
LEMMA ToSetConcat ==
    ASSUME NEW R, NEW s \in Seq(R), NEW t \in Seq(R)
    PROVE  ToSet(s \o t) = ToSet(s) \cup ToSet(t)
<1>1. ASSUME NEW x \in ToSet(s \o t) PROVE x \in ToSet(s) \cup ToSet(t)
  <2>1. PICK i \in 1 .. Len(s) + Len(t) : x = (s \o t)[i]
    BY DEF ToSet
  <2>2. CASE i <= Len(s)
    BY <2>1, <2>2 DEF ToSet
  <2>3. CASE i > Len(s)
    <3>1. i - Len(s) \in DOMAIN t /\ x = t[i - Len(s)]
      BY <2>1, <2>3
    <3>2. QED
      BY <3>1 DEF ToSet
  <2>4. QED
    BY <2>2, <2>3
<1>2. ASSUME NEW x \in ToSet(s) PROVE x \in ToSet(s \o t)
  <2>1. PICK i \in DOMAIN s : x = s[i]
    BY DEF ToSet
  <2>2. i \in DOMAIN (s \o t) /\ (s \o t)[i] = x
    BY <2>1
  <2>3. QED
    BY <2>2 DEF ToSet
<1>3. ASSUME NEW x \in ToSet(t) PROVE x \in ToSet(s \o t)
  <2>1. PICK i \in DOMAIN t : x = t[i]
    BY DEF ToSet
  <2>2. i + Len(s) \in DOMAIN (s \o t) /\ (s \o t)[i + Len(s)] = x
    BY <2>1
  <2>3. QED
    BY <2>2 DEF ToSet
<1>4. QED
  BY <1>1, <1>2, <1>3

LEMMA ToSetOne == \A x : ToSet(<<x>>) = {x} /\ ToSet(<<>>) = {}
  BY DEF ToSet

LEMMA ToSetHead ==
    ASSUME NEW R, NEW s \in Seq(R), s # <<>>
    PROVE  /\ Head(s) \in R /\ Tail(s) \in Seq(R)
           /\ ToSet(s) = {Head(s)} \cup ToSet(Tail(s))
<1>1. Len(s) \in Nat \ {0} /\ Tail(s) \in Seq(R) /\ Len(Tail(s)) = Len(s) - 1
  OBVIOUS
<1>2. ASSUME NEW x \in ToSet(s) PROVE x \in {Head(s)} \cup ToSet(Tail(s))
  <2>1. PICK i \in 1 .. Len(s) : x = s[i]
    BY DEF ToSet
  <2>2. CASE i = 1
    BY <2>1, <2>2
  <2>3. CASE i # 1
    <3>1. i - 1 \in DOMAIN Tail(s) /\ Tail(s)[i - 1] = x
      BY <1>1, <2>1, <2>3
    <3>2. QED
      BY <3>1 DEF ToSet
  <2>4. QED
    BY <2>2, <2>3
<1>3. ASSUME NEW x \in ToSet(Tail(s)) PROVE x \in ToSet(s)
  <2>1. PICK i \in 1 .. Len(Tail(s)) : x = Tail(s)[i]
    BY <1>1 DEF ToSet
  <2>2. i + 1 \in 1 .. Len(s) /\ s[i + 1] = x
    BY <1>1, <2>1
  <2>3. QED
    BY <2>2 DEF ToSet
<1>4. Head(s) \in ToSet(s) /\ Head(s) \in R
  BY <1>1 DEF ToSet
<1>5. QED
  BY <1>1, <1>2, <1>3, <1>4

LEMMA ToSetType ==
    ASSUME NEW R, NEW s \in Seq(R)
    PROVE  ToSet(s) \subseteq R /\ IsFiniteSet(ToSet(s))
<1>1. ToSet(s) \subseteq R
  BY DEF ToSet
<1>2. s \in Surjection(1 .. Len(s), ToSet(s))
  BY DEF ToSet, Surjection
<1>3. IsFiniteSet(1 .. Len(s))
  BY FS_Interval
<1>4. QED
  BY <1>1, <1>2, <1>3, FS_Surjection

(* SetToSeq lists all of a finite set, each element once.                  *)
LEMMA SeqOfSet ==
    ASSUME NEW S, IsFiniteSet(S)
    PROVE  /\ SetToSeq(S) \in Seq(S) /\ ToSet(SetToSeq(S)) = S
           /\ \A i, j \in DOMAIN SetToSeq(S) : SetToSeq(S)[i] = SetToSeq(S)[j] => i = j
<1> DEFINE n == Cardinality(S)
           f == SetToSeq(S)
<1>1. n \in Nat /\ IsFiniteSet(1 .. n) /\ Cardinality(1 .. n) = n
  BY FS_CardinalityType, FS_Interval
<1>2. \E g \in [1 .. n -> S] : IsInjective(g)
  BY FS_CardinalityType DEF ExistsBijection, Bijection, Injection
<1>3. f \in Injection(1 .. n, S)
  BY <1>2 DEF SetToSeq, Injection
<1>4. f \in Surjection(1 .. n, S)
  <2> HIDE DEF f
  <2>1. Cardinality(1 .. n) = Cardinality(S)
    BY <1>1
  <2>2. QED
    BY <1>3, <2>1, FS_Injection
<1>5. f \in [1 .. n -> S] /\ \A x \in S : \E i \in 1 .. n : f[i] = x
  BY <1>4 DEF Surjection
<1>6. \A i, j \in DOMAIN f : f[i] = f[j] => i = j
  <2> HIDE DEF f
  <2>1. QED
    BY <1>3 DEF Injection, IsInjective
<1>7. QED
  <2> HIDE DEF f, n
  <2>1. f \in Seq(S) /\ DOMAIN f = 1 .. n
    BY <1>5, <1>1
  <2>2. ToSet(f) = S
    BY <1>5, <2>1 DEF ToSet
  <2>3. QED
    BY <1>6, <2>1, <2>2 DEF f
-----------------------------------------------------------------------------
(* FlattenSeq is a recursive function of the number of sequences that have *)
(* been joined: JoinedUpTo(s, n, f) says that f computes it up to n.           *)
JoinedUpTo(s, n, f) == f = [i \in 1 .. n |-> IF i = 1 THEN s[i] ELSE f[i - 1] \o s[i]]

LEMMA JoinedExists ==
    ASSUME NEW s, NEW n \in Nat
    PROVE  \E f : JoinedUpTo(s, n, f)
<1> DEFINE Bad == {k \in Nat : ~\E f : JoinedUpTo(s, k, f)}
<1>1. SUFFICES ASSUME Bad # {} PROVE FALSE
  OBVIOUS
<1>2. PICK k \in Bad : \A m \in Bad : k <= m
  BY <1>1, LeastNumber
<1>3. k # 0
  <2>1. JoinedUpTo(s, 0, <<>>)
    BY DEF JoinedUpTo
  <2>2. QED
    BY <2>1
<1>4. PICK f : JoinedUpTo(s, k - 1, f)
  BY <1>2, <1>3
<1> DEFINE g == [i \in 1 .. k |-> IF i < k THEN f[i] ELSE IF i = 1 THEN s[i] ELSE f[i - 1] \o s[i]]
<1>5. \A i \in 1 .. k : g[i] = IF i = 1 THEN s[i] ELSE g[i - 1] \o s[i]
  <2>1. ASSUME NEW i \in 1 .. k PROVE g[i] = IF i = 1 THEN s[i] ELSE g[i - 1] \o s[i]
    <3>1. CASE i < k
      <4>1. f[i] = IF i = 1 THEN s[i] ELSE f[i - 1] \o s[i]
        <5>1. \A j \in 1 .. k - 1 : f[j] = IF j = 1 THEN s[j] ELSE f[j - 1] \o s[j]
          BY <1>4 DEF JoinedUpTo
        <5>2. i \in 1 .. k - 1
          BY <1>2, <3>1
        <5>3. QED
          BY <5>1, <5>2
      <4>2. g[i] = f[i] /\ (i # 1 => g[i - 1] = f[i - 1])
        BY <1>2, <3>1
      <4>3. QED
        BY <4>1, <4>2
    <3>2. CASE i = k
      <4>1. i # 1 => g[i - 1] = f[i - 1]
        BY <1>2, <3>2
      <4>2. QED
        BY <3>2, <4>1
    <3>3. QED
      BY <3>1, <3>2
  <2>2. QED
    BY <2>1
<1>6. JoinedUpTo(s, k, g)
  <2> HIDE DEF g
  <2>1. DOMAIN g = 1 .. k /\ g = [i \in 1 .. k |-> g[i]]
    BY DEF g
  <2>2. QED
    BY <1>5, <2>1 DEF JoinedUpTo
<1>7. QED
  BY <1>2, <1>6

LEMMA FlattenJoins ==
    ASSUME NEW s, Len(s) \in Nat \ {0}
    PROVE  \E f : JoinedUpTo(s, Len(s), f) /\ FlattenSeq(s) = f[Len(s)]
<1> DEFINE P(g) == g = [i \in 1 .. Len(s) |-> IF i = 1 THEN s[i] ELSE g[i - 1] \o s[i]]
           h == CHOOSE g : P(g)
<1>1. PICK f : P(f)
  BY JoinedExists DEF JoinedUpTo
<1>2. P(h)
  BY <1>1, Zenon
<1>3. FlattenSeq(s) = h[Len(s)]
  BY DEF FlattenSeq
<1>4. QED
  BY <1>2, <1>3 DEF JoinedUpTo

(* Joining sequences joins their elements.                                 *)
Elements(s, n) == UNION {ToSet(s[i]) : i \in 1 .. n}

LEMMA ElementsMore ==
    ASSUME NEW s, NEW n \in Nat
    PROVE  Elements(s, n + 1) = Elements(s, n) \cup ToSet(s[n + 1])
  BY DEF Elements

LEMMA JoinedElements ==
    ASSUME NEW R, NEW s \in Seq(Seq(R)), NEW f, JoinedUpTo(s, Len(s), f), NEW n \in 1 .. Len(s)
    PROVE  f[n] \in Seq(R) /\ ToSet(f[n]) = Elements(s, n)
<1> DEFINE Good(i) == f[i] \in Seq(R) /\ ToSet(f[i]) = Elements(s, i)
           Bad == {i \in 1 .. Len(s) : ~Good(i)}
<1>1. ASSUME NEW k \in 1 .. Len(s), \A m \in Bad : k <= m PROVE Good(k)
  <2>1. s[k] \in Seq(R)
    OBVIOUS
  <2>2. CASE k = 1
    <3>1. f[k] = s[k]
      BY <2>2 DEF JoinedUpTo
    <3>2. Elements(s, k) = ToSet(s[k])
      BY <2>2 DEF Elements
    <3>3. QED
      BY <2>1, <3>1, <3>2
  <2>3. CASE k # 1
    <3>1. f[k] = f[k - 1] \o s[k]
      BY <2>3 DEF JoinedUpTo
    <3>2. k - 1 \in 1 .. Len(s) /\ k - 1 \in Nat /\ k - 1 + 1 = k
      BY <2>3
    <3>3. f[k - 1] \in Seq(R) /\ ToSet(f[k - 1]) = Elements(s, k - 1)
      BY <1>1, <3>2
    <3>4. Elements(s, k) = Elements(s, k - 1) \cup ToSet(s[k])
      BY <3>2, ElementsMore
    <3>5. f[k - 1] \o s[k] \in Seq(R)
      BY <2>1, <3>3
    <3>6. ToSet(f[k - 1] \o s[k]) = ToSet(f[k - 1]) \cup ToSet(s[k])
      BY <2>1, <3>3, ToSetConcat
    <3>7. QED
      BY <3>1, <3>3, <3>4, <3>5, <3>6
  <2>4. QED
    BY <2>2, <2>3
<1>2. Bad \subseteq Nat
  OBVIOUS
<1> HIDE DEF Good
<1>3. Bad = {}
  <2>1. SUFFICES ASSUME Bad # {} PROVE FALSE
    OBVIOUS
  <2>2. PICK k \in Bad : \A m \in Bad : k <= m
    BY <1>2, <2>1, LeastNumber
  <2>3. QED
    BY <1>1, <2>2
<1>4. Good(n)
  BY <1>3
<1>5. QED
  BY <1>4 DEF Good

LEMMA FlattenElements ==
    ASSUME NEW R, NEW s \in Seq(Seq(R))
    PROVE  FlattenSeq(s) \in Seq(R) /\ ToSet(FlattenSeq(s)) = Elements(s, Len(s))
<1>1. CASE Len(s) = 0
  <2>1. FlattenSeq(s) = <<>>
    BY <1>1 DEF FlattenSeq
  <2>2. QED
    BY <1>1, <2>1, ToSetOne DEF Elements
<1>2. CASE Len(s) # 0
  <2>1. PICK f : JoinedUpTo(s, Len(s), f) /\ FlattenSeq(s) = f[Len(s)]
    BY <1>2, FlattenJoins
  <2>2. Len(s) \in 1 .. Len(s)
    BY <1>2
  <2>3. QED
    BY <2>1, <2>2, JoinedElements
<1>3. QED
  BY <1>1, <1>2

(* Sequences of numbers that increase.                                     *)
Increasing(s) == \A i, j \in DOMAIN s : i < j => s[i] < s[j]
Below(s, t) == \A m \in ToSet(s), n \in ToSet(t) : m < n

LEMMA ConcatIncreases ==
    ASSUME NEW s \in Seq(Nat), NEW t \in Seq(Nat), Increasing(s), Increasing(t), Below(s, t)
    PROVE  Increasing(s \o t)
<1>1. SUFFICES ASSUME NEW i \in DOMAIN (s \o t), NEW j \in DOMAIN (s \o t), i < j
               PROVE  (s \o t)[i] < (s \o t)[j]
  BY DEF Increasing
<1>2. /\ Len(s) \in Nat /\ Len(t) \in Nat /\ i \in 1 .. Len(s) + Len(t) /\ j \in 1 .. Len(s) + Len(t)
      /\ (s \o t)[i] = IF i <= Len(s) THEN s[i] ELSE t[i - Len(s)]
      /\ (s \o t)[j] = IF j <= Len(s) THEN s[j] ELSE t[j - Len(s)]
  OBVIOUS
<1>3. CASE j <= Len(s)
  BY <1>1, <1>2, <1>3 DEF Increasing
<1>4. CASE i > Len(s)
  BY <1>1, <1>2, <1>4 DEF Increasing
<1>5. CASE i <= Len(s) /\ j > Len(s)
  <2>1. s[i] \in ToSet(s) /\ t[j - Len(s)] \in ToSet(t)
    BY <1>2, <1>5 DEF ToSet
  <2>2. QED
    BY <1>2, <1>5, <2>1 DEF Below
<1>6. QED
  BY <1>1, <1>2, <1>3, <1>4, <1>5

LEMMA JoinedIncreases ==
    ASSUME NEW s \in Seq(Seq(Nat)), \A i \in DOMAIN s : Increasing(s[i]),
           \A i, j \in DOMAIN s : i < j => Below(s[i], s[j]),
           NEW f, JoinedUpTo(s, Len(s), f), NEW n \in 1 .. Len(s)
    PROVE  Increasing(f[n])
<1> DEFINE Bad == {i \in 1 .. Len(s) : ~Increasing(f[i])}
<1>1. ASSUME NEW k \in 1 .. Len(s), \A m \in Bad : k <= m PROVE Increasing(f[k])
  <2>1. s[k] \in Seq(Nat) /\ Increasing(s[k])
    OBVIOUS
  <2>2. CASE k = 1
    <3>1. f[k] = s[k]
      BY <2>2 DEF JoinedUpTo
    <3>2. QED
      BY <2>1, <3>1
  <2>3. CASE k # 1
    <3>1. f[k] = f[k - 1] \o s[k]
      BY <2>3 DEF JoinedUpTo
    <3>2. k - 1 \in 1 .. Len(s)
      BY <2>3
    <3>3. f[k - 1] \in Seq(Nat) /\ ToSet(f[k - 1]) = Elements(s, k - 1)
      BY <3>2, JoinedElements
    <3>4. Increasing(f[k - 1])
      BY <1>1, <3>2
    <3>5. \A i \in 1 .. k - 1 : Below(s[i], s[k])
      OBVIOUS
    <3>6. Below(f[k - 1], s[k])
      BY <3>3, <3>5 DEF Below, Elements
    <3>7. QED
      BY <2>1, <3>1, <3>3, <3>4, <3>6, ConcatIncreases
  <2>4. QED
    BY <2>2, <2>3
<1>2. Bad \subseteq Nat
  OBVIOUS
<1>3. Bad = {}
  <2>1. SUFFICES ASSUME Bad # {} PROVE FALSE
    OBVIOUS
  <2>2. PICK k \in Bad : \A m \in Bad : k <= m
    BY <1>2, <2>1, LeastNumber
  <2>3. QED
    BY <1>1, <2>2
<1>4. QED
  BY <1>3

LEMMA FlattenIncreases ==
    ASSUME NEW s \in Seq(Seq(Nat)), \A i \in DOMAIN s : Increasing(s[i]),
           \A i, j \in DOMAIN s : i < j => Below(s[i], s[j])
    PROVE  Increasing(FlattenSeq(s))
<1>1. CASE Len(s) = 0
  <2>1. FlattenSeq(s) = <<>>
    BY <1>1 DEF FlattenSeq
  <2>2. QED
    BY <2>1 DEF Increasing
<1>2. CASE Len(s) # 0
  <2>1. PICK f : JoinedUpTo(s, Len(s), f) /\ FlattenSeq(s) = f[Len(s)]
    BY <1>2, FlattenJoins
  <2>2. Len(s) \in 1 .. Len(s)
    BY <1>2
  <2>3. QED
    BY <2>1, <2>2, JoinedIncreases
<1>3. QED
  BY <1>1, <1>2
=============================================================================
