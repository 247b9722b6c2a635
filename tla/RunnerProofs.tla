---------------------------- MODULE RunnerProofs ----------------------------
(***************************************************************************)
(* What one realtime paper run never does, for every set of tokens,        *)
(* quotes and signals, every starting cash and every limits.               *)
(*                                                                         *)
(* That cash and positions stay within bounds is not inductive by itself:  *)
(* between the submission of an order and its last fill the runner still   *)
(* owes the remaining fills.  RunInv says what is owed (Owed: at most n    *)
(* lots, and the portfolio bears n lots) and that the limits of the next   *)
(* order are computed from the portfolio the last one left (Synced).       *)
(*                                                                         *)
(* Aimed says of the fills owed that they end at the target of the signal  *)
(* at the latest, BooksWork that what is shown as open is working.         *)
(*                                                                         *)
(* The first part is about the fill engine alone: simulate_fills does for  *)
(* every order and book what MatchingContract owes, so the answers the     *)
(* runner and the exchange assume are the answers the engine gives.        *)
(***************************************************************************)
EXTENDS RealtimeRunner, OrderMatching, CollectionTheorems, TLAPS

\* What is left before level k, from what was left before the level before.
Remains(g, levels, size) ==
  g = [k \in 1 .. Len(levels) + 1 |->
         IF k = 1 THEN size
         ELSE g[k - 1] - (IF g[k - 1] <= 0 THEN 0
                          ELSE MinOf(g[k - 1], levels[k - 1].size))]

\* RemainingBefore is the function its recursion describes, for any levels.
LEMMA RemainingBeforeIs ==
  ASSUME NEW levels \in Seq(Level), NEW size \in Nat
  PROVE  /\ Remains(RemainingBefore(levels, size), levels, size)
         /\ RemainingBefore(levels, size) \in [1 .. Len(levels) + 1 -> Int]
<1> DEFINE n == Len(levels)
           Step(g, k) == IF k = 1 THEN size
                         ELSE g[k - 1] - (IF g[k - 1] <= 0 THEN 0
                                          ELSE MinOf(g[k - 1], levels[k - 1].size))
           N == {m \in Nat : m <= n => \E g \in [1 .. m + 1 -> Int] :
                                \A k \in 1 .. m + 1 : g[k] = Step(g, k)}
<1>0. n \in Nat /\ \A k \in 1 .. n : levels[k].size \in Int
  <2>1. n \in Nat /\ \A k \in 1 .. n : levels[k] \in Level
    OBVIOUS
  <2> QED BY <2>1 DEF Level
<1>1. 0 \in N
  <2> DEFINE g == [k \in 1 .. 0 + 1 |-> size]
  <2>1. g \in [1 .. 0 + 1 -> Int] /\ \A k \in 1 .. 0 + 1 : g[k] = Step(g, k)
    OBVIOUS
  <2> QED BY <2>1
<1>2. ASSUME NEW m \in Nat, m \in N PROVE m + 1 \in N
  <2> SUFFICES ASSUME m + 1 <= n
               PROVE  \E g \in [1 .. (m + 1) + 1 -> Int] :
                        \A k \in 1 .. (m + 1) + 1 : g[k] = Step(g, k)
    OBVIOUS
  <2>1. PICK g \in [1 .. m + 1 -> Int] : \A k \in 1 .. m + 1 : g[k] = Step(g, k)
    BY <1>0, <1>2
  <2> DEFINE last == g[m + 1] - (IF g[m + 1] <= 0 THEN 0
                                 ELSE MinOf(g[m + 1], levels[m + 1].size))
             h == [k \in 1 .. (m + 1) + 1 |-> IF k = (m + 1) + 1 THEN last ELSE g[k]]
  <2>2. last \in Int
    <3>1. g[m + 1] \in Int /\ levels[m + 1].size \in Int
      BY <1>0
    <3> QED BY <3>1 DEF MinOf
  <2>3. h \in [1 .. (m + 1) + 1 -> Int]
    BY <2>2
  <2>4. ASSUME NEW k \in 1 .. (m + 1) + 1 PROVE h[k] = Step(h, k)
    <3>1. CASE k = (m + 1) + 1
      BY <3>1
    <3>2. CASE k # (m + 1) + 1
      <4>1. k \in 1 .. m + 1 /\ (k # 1 => k - 1 \in 1 .. m + 1 /\ k - 1 # (m + 1) + 1)
        BY <3>2
      <4>2. h[k] = g[k] /\ (k # 1 => h[k - 1] = g[k - 1])
        BY <4>1, <3>2
      <4> HIDE DEF h
      <4> QED BY <2>1, <4>1, <4>2
    <3> QED BY <3>1, <3>2
  <2> QED BY <2>3, <2>4
<1>3. n \in N
  <2> HIDE DEF N, n
  <2> QED BY <1>0, <1>1, <1>2, NatSetInduction
<1>4. PICK g \in [1 .. n + 1 -> Int] : \A k \in 1 .. n + 1 : g[k] = Step(g, k)
  BY <1>0, <1>3
<1>5. Remains(g, levels, size)
  BY <1>4 DEF Remains
<1>6. Remains(RemainingBefore(levels, size), levels, size)
  BY <1>5 DEF Remains, RemainingBefore
<1>7. ASSUME NEW h, Remains(h, levels, size) PROVE h \in [1 .. n + 1 -> Int]
  <2> DEFINE M == {m \in Nat : m <= n => h[m + 1] \in Int}
  <2>1. \A k \in 1 .. n + 1 : h[k] = Step(h, k)
    BY <1>7 DEF Remains
  <2>2. 0 \in M
    BY <1>0, <2>1
  <2>3. ASSUME NEW m \in Nat, m \in M PROVE m + 1 \in M
    <3> SUFFICES ASSUME m + 1 <= n PROVE h[m + 1 + 1] \in Int
      OBVIOUS
    <3>1. h[m + 1] \in Int /\ levels[m + 1].size \in Int
      BY <1>0, <2>3
    <3>2. h[m + 1 + 1] = h[m + 1] - (IF h[m + 1] <= 0 THEN 0
                                     ELSE MinOf(h[m + 1], levels[m + 1].size))
      BY <1>0, <2>1
    <3> QED BY <3>1, <3>2 DEF MinOf
  <2> HIDE DEF M
  <2>4. Nat \subseteq M
    BY <2>2, <2>3, NatSetInduction
  <2>5. \A k \in 1 .. n + 1 : h[k] \in Int
    <3> SUFFICES ASSUME NEW k \in 1 .. n + 1 PROVE h[k] \in Int
      OBVIOUS
    <3>1. k - 1 \in Nat /\ k - 1 <= n /\ (k - 1) + 1 = k
      BY <1>0
    <3> QED BY <2>4, <3>1 DEF M
  <2> QED BY <1>7, <2>5 DEF Remains
<1> QED BY <1>6, <1>7

\* What the levels offer, one by one and the first k together.
Offers(levels) ==
  [k \in 1 .. Len(levels) |-> IF levels[k].size > 0 THEN levels[k].size ELSE 0]
Upto(levels, k) == SumFunctionOnSet(Offers(levels), 1 .. k)

\* The offers of the first levels add up, one level after another.
LEMMA OffersAddUp ==
  ASSUME NEW levels \in Seq(Level)
  PROVE  /\ Len(levels) \in Nat
         /\ \A k \in 1 .. Len(levels) : levels[k].size \in Int /\ Offers(levels)[k] \in Nat
         /\ \A k \in 0 .. Len(levels) : Upto(levels, k) \in Nat
         /\ Upto(levels, 0) = 0
         /\ \A k \in 0 .. Len(levels) - 1 :
              Upto(levels, k + 1) = Upto(levels, k) + Offers(levels)[k + 1]
         /\ \A k \in 0 .. Len(levels), l \in 0 .. Len(levels) :
              k <= l => Upto(levels, k) <= Upto(levels, l)
<1> DEFINE n == Len(levels)
<1>1. n \in Nat /\ \A k \in 1 .. n : levels[k] \in Level
  OBVIOUS
<1>2. \A k \in 1 .. n : levels[k].size \in Int /\ Offers(levels)[k] \in Nat
  BY <1>1 DEF Level, Offers
<1> HIDE DEF n
<1>3. \A k \in 0 .. n : Upto(levels, k) \in Nat
  <2> SUFFICES ASSUME NEW k \in 0 .. n PROVE Upto(levels, k) \in Nat
    OBVIOUS
  <2>1. IsFiniteSet(1 .. k) /\ \A j \in 1 .. k : Offers(levels)[j] \in Nat
    BY <1>1, <1>2, FS_Interval, SMTT(30)
  <2> QED BY <2>1, SumPositive DEF Upto
<1>4. Upto(levels, 0) = 0
  <2>1. 1 .. 0 = {}
    OBVIOUS
  <2> QED BY <2>1, SumEmpty DEF Upto
<1>5. ASSUME NEW k \in 0 .. n - 1
      PROVE  Upto(levels, k + 1) = Upto(levels, k) + Offers(levels)[k + 1]
  <2>1. k \in Nat /\ \A j \in 1 .. k + 1 : Offers(levels)[j] \in Int
    BY <1>1, <1>2
  <2> QED BY <2>1, SumUpto DEF Upto
<1>6. ASSUME NEW k \in 0 .. n, NEW l \in 0 .. n, k <= l
      PROVE  Upto(levels, k) <= Upto(levels, l)
  <2>1. IsFiniteSet(1 .. l) /\ 1 .. k \subseteq 1 .. l
    BY <1>6, FS_Interval
  <2>2. \A j \in 1 .. l : Offers(levels)[j] \in Nat
    BY <1>1, <1>2
  <2> QED BY <2>1, <2>2, SumPart DEF Upto
<1> QED BY <1>1, <1>2, <1>3, <1>4, <1>5, <1>6 DEF n

\* What is left of a after b is taken.
Rest(a, b) == IF a <= b THEN 0 ELSE a - b

\* As long as every level reached offers something, what is left before a level
\* is what the levels before it do not offer.
LEMMA RemainingIsRest ==
  ASSUME NEW levels \in Seq(Level), NEW size \in Nat, NEW k \in 1 .. Len(levels) + 1,
         \A j \in 1 .. k - 1 : RemainingBefore(levels, size)[j] > 0 => levels[j].size > 0
  PROVE  RemainingBefore(levels, size)[k] = Rest(size, Upto(levels, k - 1))
<1> DEFINE n == Len(levels)
           before == RemainingBefore(levels, size)
           P(m) == before[m + 1] = Rest(size, Upto(levels, m))
           N == {m \in Nat : m <= k - 1 => P(m)}
<1>1. /\ \A j \in 1 .. n + 1 :
           before[j] = IF j = 1 THEN size
                       ELSE before[j - 1] - (IF before[j - 1] <= 0 THEN 0
                              ELSE MinOf(before[j - 1], levels[j - 1].size))
      /\ before \in [1 .. n + 1 -> Int]
  BY RemainingBeforeIs DEF Remains
<1>2. /\ n \in Nat
      /\ \A j \in 1 .. n : levels[j].size \in Int /\ Offers(levels)[j] \in Nat
      /\ \A j \in 0 .. n : Upto(levels, j) \in Nat
      /\ Upto(levels, 0) = 0
      /\ \A j \in 0 .. n - 1 : Upto(levels, j + 1) = Upto(levels, j) + Offers(levels)[j + 1]
  BY OffersAddUp
<1>3. \A j \in 1 .. n : levels[j].size > 0 => Offers(levels)[j] = levels[j].size
  BY DEF Offers
<1> HIDE DEF n, before
<1>4. 0 \in N
  BY <1>1, <1>2 DEF Rest
<1>5. ASSUME NEW m \in Nat, m \in N PROVE m + 1 \in N
  <2> SUFFICES ASSUME m + 1 <= k - 1 PROVE P(m + 1)
    OBVIOUS
  <2>1. /\ before[m + 1] = Rest(size, Upto(levels, m)) /\ m + 1 \in 1 .. n
        /\ m + 1 \in 1 .. k - 1 /\ m \in 0 .. n - 1 /\ (m + 1) + 1 \in 1 .. n + 1
    BY <1>2, <1>5 DEF n
  <2> DEFINE a == Upto(levels, m)
             o == Offers(levels)[m + 1]
             b == before[m + 1]
             s == levels[m + 1].size
  <2>2. /\ before[(m + 1) + 1] = b - (IF b <= 0 THEN 0 ELSE MinOf(b, s))
    BY <1>1, <2>1
  <2>3. Upto(levels, m + 1) = a + o /\ a \in Nat /\ o \in Nat /\ s \in Int
    BY <1>2, <2>1
  <2>4. b > 0 => s > 0 /\ o = s
    BY <1>3, <2>1 DEF before
  <2>5. b = Rest(size, a)
    BY <2>1
  <2> HIDE DEF a, o, b, s
  <2>6. b - (IF b <= 0 THEN 0 ELSE MinOf(b, s)) = Rest(size, a + o)
    BY <2>3, <2>4, <2>5 DEF Rest, MinOf
  <2> QED BY <2>2, <2>3, <2>6
<1> HIDE DEF N
<1>6. k - 1 \in Nat /\ (k - 1) + 1 = k
  BY <1>2 DEF n
<1>7. k - 1 \in N
  BY <1>4, <1>5, <1>6, NatSetInduction
<1> QED BY <1>6, <1>7 DEF N, before

\* A set of indices that holds all smaller ones is the first so many.
LEMMA InitialSegment ==
  ASSUME NEW n \in Nat, NEW R \in SUBSET (1 .. n), \A k \in R : \A j \in 1 .. k : j \in R
  PROVE  R = 1 .. Cardinality(R) /\ Cardinality(R) \in 0 .. n
<1> DEFINE T == {x \in Nat : R \subseteq 1 .. x}
<1>1. n \in T
  OBVIOUS
<1>2. PICK x \in T : \A y \in T : x <= y
  BY <1>1, NatMin
<1>3. R = 1 .. x
  <2>1. CASE x = 0
    BY <2>1
  <2>2. CASE x # 0
    <3>1. x - 1 \in Nat /\ x - 1 \notin T
      BY <1>2, <2>2
    <3>2. PICK k \in R : k \notin 1 .. x - 1
      BY <3>1
    <3>3. k = x
      BY <3>1, <3>2
    <3> QED BY <3>2, <3>3
  <2> QED BY <2>1, <2>2
<1>4. x <= n /\ x \in Nat
  BY <1>1, <1>2
<1>5. Cardinality(1 .. x) = x
  <2>1. 1 \in Int /\ x \in Int /\ (IF 1 > x THEN 0 ELSE x - 1 + 1) = x
    BY <1>4
  <2> QED BY <2>1, FS_Interval
<1> QED BY <1>3, <1>4, <1>5

\* The levels the loop comes to with something left.
ReachedOf(levels, size) ==
  {k \in 1 .. Len(levels) : LoopReaches(RemainingBefore(levels, size), k)}

\* Unless it raises, the loop takes the first levels, as many as the size
\* needs, and leaves what they do not offer.
LEMMA LoopTakesAPrefix ==
  ASSUME NEW levels \in Seq(Level), NEW size \in Nat \ {0},
         \A k \in ReachedOf(levels, size) : levels[k].size > 0
  PROVE  LET m == Cardinality(ReachedOf(levels, size))
             before == RemainingBefore(levels, size) IN
         /\ m \in 0 .. Len(levels) /\ ReachedOf(levels, size) = 1 .. m
         /\ \A k \in 1 .. Len(levels) + 1 :
              before[k] = Rest(size, Upto(levels, k - 1))
         /\ \A k \in 1 .. m : Upto(levels, k - 1) < size
         /\ m < Len(levels) => size <= Upto(levels, m)
<1> DEFINE n == Len(levels)
           before == RemainingBefore(levels, size)
           R == ReachedOf(levels, size)
<1>1. /\ n \in Nat
      /\ \A k \in 0 .. n : Upto(levels, k) \in Nat
      /\ \A k \in 0 .. n, l \in 0 .. n : k <= l => Upto(levels, k) <= Upto(levels, l)
  BY OffersAddUp
<1>2. ASSUME NEW k \in 1 .. n + 1 PROVE before[k] = Rest(size, Upto(levels, k - 1))
  <2>1. ASSUME NEW j \in 1 .. k - 1, before[j] > 0 PROVE levels[j].size > 0
    <3>1. j \in R
      BY <1>1, <2>1 DEF ReachedOf, LoopReaches
    <3> QED BY <3>1
  <2> QED BY <2>1, RemainingIsRest
<1>3. R = {k \in 1 .. n : Upto(levels, k - 1) < size}
  <2>1. ASSUME NEW k \in 1 .. n PROVE before[k] > 0 <=> Upto(levels, k - 1) < size
    <3>1. k \in 1 .. n + 1 /\ k - 1 \in 0 .. n
      BY <1>1
    <3> QED BY <1>1, <1>2, <3>1 DEF Rest
  <2> QED BY <2>1 DEF ReachedOf, LoopReaches
<1>4. \A k \in R : \A j \in 1 .. k : j \in R
  <2> SUFFICES ASSUME NEW k \in R, NEW j \in 1 .. k PROVE j \in R
    OBVIOUS
  <2>1. k \in 1 .. n /\ Upto(levels, k - 1) < size
    BY <1>3
  <2> HIDE DEF R, n
  <2>2. j \in 1 .. n /\ j - 1 \in 0 .. n /\ k - 1 \in 0 .. n /\ j - 1 <= k - 1
    BY <1>1, <2>1
  <2>3. Upto(levels, j - 1) < size
    BY <1>1, <2>1, <2>2
  <2> QED BY <1>3, <2>2, <2>3
<1> DEFINE m == Cardinality(R)
<1>5. R = 1 .. m /\ m \in 0 .. n
  <2>1. R \in SUBSET (1 .. n)
    BY <1>3
  <2> HIDE DEF R, n
  <2> QED BY <1>1, <1>4, <2>1, InitialSegment
<1> HIDE DEF m, n
<1>6. m < n => size <= Upto(levels, m)
  <2> SUFFICES ASSUME m < n PROVE size <= Upto(levels, m)
    OBVIOUS
  <2>1. m + 1 \in 1 .. n /\ m + 1 \notin 1 .. m /\ (m + 1) - 1 = m /\ m \in 0 .. n
    BY <1>1, <1>5
  <2>2. ~(Upto(levels, (m + 1) - 1) < size)
    BY <1>3, <1>5, <2>1
  <2> QED BY <1>1, <2>1, <2>2
<1>7. \A k \in 1 .. m : Upto(levels, k - 1) < size
  BY <1>3, <1>5
<1> QED BY <1>2, <1>5, <1>6, <1>7 DEF m, n

\* The fills of the levels reached.
FillsOf(levels, size) ==
  [k \in 1 .. Cardinality(ReachedOf(levels, size)) |->
     [price |-> levels[k].price,
      size |-> MinOf(RemainingBefore(levels, size)[k], levels[k].size)]]

\* The fills are what the levels offer, the last one what is still needed, and
\* add up to what the loop has taken off the size.
LEMMA FillsAddUp ==
  ASSUME NEW levels \in Seq(Level), NEW size \in Nat \ {0},
         \A k \in ReachedOf(levels, size) : levels[k].size > 0
  PROVE  LET fills == FillsOf(levels, size)
             m == Cardinality(ReachedOf(levels, size))
             left == RemainingBefore(levels, size)[Len(levels) + 1] IN
         /\ fills \in Seq(FillTerms) /\ Len(fills) = m
         /\ \A k \in 1 .. m :
              /\ fills[k].price = levels[k].price
              /\ fills[k].size <= Offers(levels)[k]
              /\ k < m => fills[k].size = Offers(levels)[k]
         /\ left = Rest(size, Upto(levels, Len(levels)))
         /\ Filled(fills) = size - left
         /\ Filled(fills) \in Nat
<1> DEFINE n == Len(levels)
           m == Cardinality(ReachedOf(levels, size))
           before == RemainingBefore(levels, size)
           fills == FillsOf(levels, size)
           U(k) == Upto(levels, k)
           O(k) == Offers(levels)[k]
<1>1. /\ n \in Nat
      /\ \A k \in 1 .. n : levels[k].size \in Int /\ O(k) \in Nat
      /\ \A k \in 0 .. n : U(k) \in Nat
      /\ U(0) = 0
      /\ \A k \in 0 .. n - 1 : U(k + 1) = U(k) + O(k + 1)
      /\ \A k \in 0 .. n, l \in 0 .. n : k <= l => U(k) <= U(l)
  BY OffersAddUp
<1>2. /\ m \in 0 .. n /\ ReachedOf(levels, size) = 1 .. m
      /\ \A k \in 1 .. n + 1 : before[k] = Rest(size, U(k - 1))
      /\ \A k \in 1 .. m : U(k - 1) < size
      /\ m < n => size <= U(m)
  BY LoopTakesAPrefix
<1>3. \A k \in 1 .. m : levels[k].size > 0 /\ O(k) = levels[k].size
  BY <1>1, <1>2 DEF Offers
<1>4. fills = [k \in 1 .. m |-> [price |-> levels[k].price,
                                 size |-> MinOf(before[k], levels[k].size)]]
  BY DEF FillsOf
<1>p. \A k \in 1 .. n : levels[k].price \in Nat
  <2>1. \A k \in 1 .. n : levels[k] \in Level
    OBVIOUS
  <2> QED BY <2>1 DEF Level
<1> HIDE DEF n, m, before, fills, U, O
<1>5. ASSUME NEW k \in 1 .. m
      PROVE  /\ before[k] = size - U(k - 1) /\ before[k] \in Nat \ {0}
             /\ fills[k].price = levels[k].price /\ levels[k].price \in Nat
             /\ fills[k] = [price |-> levels[k].price, size |-> MinOf(before[k], O(k))]
             /\ U(k) = U(k - 1) + O(k)
             /\ U(k - 1) \in Nat /\ U(k) \in Nat /\ O(k) \in Nat \ {0}
             /\ k < m => U(k) < size
  <2>1. k \in 1 .. n /\ k \in 1 .. n + 1 /\ k - 1 \in 0 .. n /\ (k - 1) + 1 = k
        /\ k - 1 \in 0 .. n - 1 /\ k \in 0 .. n
    BY <1>1, <1>2, SMTT(30)
  <2>2. before[k] = Rest(size, U(k - 1)) /\ U(k - 1) < size
    BY <1>2, <2>1
  <2>3. U((k - 1) + 1) = U(k - 1) + O((k - 1) + 1)
    BY <1>1, <2>1
  <2>4. U(k - 1) \in Nat /\ U(k) \in Nat
    BY <1>1, <2>1
  <2>5. O(k) \in Nat /\ levels[k].price \in Nat /\ O(k) = levels[k].size
        /\ levels[k].size > 0
    BY <1>1, <1>3, <1>p, <2>1
  <2>6. ASSUME k < m PROVE U(k) < size
    <3>1. k + 1 \in 1 .. m /\ (k + 1) - 1 = k
      BY <1>2, <2>6
    <3> QED BY <1>2, <3>1
  <2>7. before[k] = size - U(k - 1) /\ before[k] \in Nat \ {0} /\ O(k) \in Nat \ {0}
    BY <2>2, <2>4, <2>5 DEF Rest
  <2>8. fills[k] = [price |-> levels[k].price, size |-> MinOf(before[k], O(k))]
    BY <1>4, <2>5
  <2> QED BY <2>1, <2>3, <2>4, <2>5, <2>6, <2>7, <2>8
<1>6. ASSUME NEW k \in 1 .. m
      PROVE  /\ fills[k] \in FillTerms
             /\ fills[k].size = MinOf(before[k], O(k))
             /\ fills[k].size <= O(k)
             /\ k < m => fills[k].size = O(k)
  <2> DEFINE b == before[k]
             o == O(k)
             u == U(k - 1)
             p == levels[k].price
  <2>1. /\ b = size - u /\ b \in Nat \ {0} /\ o \in Nat \ {0} /\ u \in Nat /\ p \in Nat
        /\ fills[k] = [price |-> p, size |-> MinOf(b, o)]
        /\ k < m => u + o < size
    BY <1>5
  <2> HIDE DEF b, o, u, p
  <2>2. fills[k] \in FillTerms /\ fills[k].size = MinOf(b, o) /\ fills[k].size <= o
    BY <2>1 DEF FillTerms, MinOf
  <2>3. k < m => MinOf(b, o) = o
    BY <2>1 DEF MinOf
  <2> QED BY <2>2, <2>3 DEF b, o
<1>7. fills \in Seq(FillTerms) /\ Len(fills) = m /\ DOMAIN fills = 1 .. m
  <2>1. m \in Nat
    BY <1>1, <1>2
  <2>2. fills \in [1 .. m -> FillTerms]
    BY <1>4, <1>6
  <2> QED BY <2>1, <2>2
<1> DEFINE S(k) == SumFunctionOnSet(Sizes(fills), 1 .. k)
           N == {k \in Nat : k <= m => S(k) = size - before[k + 1]}
<1>8. \A k \in 1 .. m : Sizes(fills)[k] = fills[k].size /\ Sizes(fills)[k] \in Int
  BY <1>6, <1>7 DEF Sizes, FillTerms
<1>9. 0 \in N
  <2>1. 1 .. 0 = {} /\ 1 \in 1 .. n + 1 /\ before[0 + 1] = Rest(size, U(0))
    BY <1>1, <1>2
  <2>2. S(0) = 0
    BY <2>1, SumEmpty
  <2> QED BY <1>1, <2>1, <2>2 DEF Rest
<1>10. ASSUME NEW k \in Nat, k \in N PROVE k + 1 \in N
  <2> SUFFICES ASSUME k + 1 <= m PROVE S(k + 1) = size - before[(k + 1) + 1]
    OBVIOUS
  <2> DEFINE j == k + 1
  <2>1. j \in 1 .. m /\ j + 1 \in 1 .. n + 1 /\ (j + 1) - 1 = j
        /\ j - 1 = k /\ k <= m /\ m \in Nat
    BY <1>1, <1>2
  <2>2. S(j) = S(k) + Sizes(fills)[j]
    <3>1. \A i \in 1 .. j : i \in 1 .. m
      BY <2>1
    <3>2. \A i \in 1 .. k + 1 : Sizes(fills)[i] \in Int
      BY <1>8, <3>1
    <3> QED BY <3>2, SumUpto
  <2>3. S(k) = size - before[j]
    BY <1>10, <2>1
  <2> HIDE DEF j, S
  <2>4. /\ before[j] = size - U(k) /\ U(j) = U(k) + O(j)
        /\ U(k) \in Nat /\ O(j) \in Nat \ {0} /\ before[j] \in Nat \ {0}
    BY <1>5, <2>1
  <2>5. Sizes(fills)[j] = MinOf(before[j], O(j))
    BY <1>6, <1>8, <2>1
  <2>6. before[j + 1] = Rest(size, U(j))
    BY <1>2, <2>1
  <2>7. S(j) = size - before[j + 1]
    BY <2>2, <2>3, <2>4, <2>5, <2>6 DEF Rest, MinOf
  <2> QED BY <2>7 DEF j
<1>11. m \in N
  <2>1. m \in Nat
    BY <1>1, <1>2
  <2> HIDE DEF N
  <2> QED BY <1>9, <1>10, <2>1, NatSetInduction
<1>12. Filled(fills) = S(m)
  BY <1>7 DEF Filled, SumFunction, Sizes
<1>13. n + 1 \in 1 .. n + 1 /\ (n + 1) - 1 = n /\ m + 1 \in 1 .. n + 1 /\ (m + 1) - 1 = m
       /\ m \in 0 .. n /\ n \in 0 .. n
  BY <1>1, <1>2
<1>14. before[n + 1] = Rest(size, U(n)) /\ before[m + 1] = Rest(size, U(m))
  BY <1>2, <1>13
<1>15. before[n + 1] = before[m + 1] /\ before[n + 1] \in Nat /\ before[n + 1] <= size
  <2>1. U(m) <= U(n) /\ U(m) \in Nat /\ U(n) \in Nat
    BY <1>1, <1>13
  <2>2. CASE m = n
    BY <1>14, <2>1, <2>2 DEF Rest
  <2>3. CASE m < n
    BY <1>2, <1>14, <2>1, <2>3 DEF Rest
  <2> QED BY <1>13, <2>2, <2>3
<1>16. Filled(fills) = size - before[n + 1] /\ Filled(fills) \in Nat
  <2>1. S(m) = size - before[m + 1]
    BY <1>11, <1>13
  <2> QED BY <1>12, <1>15, <2>1
<1>17. \A k \in 1 .. m : fills[k].price = levels[k].price
  BY <1>5
<1> QED BY <1>2, <1>6, <1>7, <1>14, <1>16, <1>17 DEF n, m, before, fills, U, O

-----------------------------------------------------------------------------
\* A book of any levels; the places an order reaches in it, the best first.
BookType == [asks : Seq(Level), bids : Seq(Level)]
PlacesOf(order, book) == SortedPlaces(Reachable(order, book), PriceKey(order, book))
Key(order, book) == PriceKey(order, book)

\* The eligible levels are the reachable ones, each once, the best price first.
LEMMA EligibleLevelsAre ==
  ASSUME NEW order \in SimulatedOrder, NEW book \in BookType
  PROVE  LET side == Opposite(order, book)
             R == Reachable(order, book)
             n == Cardinality(R)
             at == PlacesOf(order, book)
             levels == EligibleLevels(order, book) IN
         /\ IsFiniteSet(R) /\ n \in Nat
         /\ levels \in Seq(Level) /\ Len(levels) = n
         /\ \A k \in 1 .. n : at[k] \in R /\ levels[k] = side[at[k]]
         /\ \A i \in R : \E k \in 1 .. n : at[k] = i
         /\ \A k \in 1 .. n, l \in 1 .. n : at[k] = at[l] => k = l
         /\ \A k \in 1 .. n, l \in 1 .. n :
              k < l => Key(order, book)[at[k]] <= Key(order, book)[at[l]]
         /\ \A i \in R : /\ side[i] \in Level
                         /\ Key(order, book)[i] \in Int
                         /\ Key(order, book)[i] = IF order.side = "BUY" THEN side[i].price
                                                  ELSE -side[i].price
<1> DEFINE side == Opposite(order, book)
           R == Reachable(order, book)
           n == Cardinality(R)
           at == PlacesOf(order, book)
           levels == EligibleLevels(order, book)
           key == Key(order, book)
<1>1. side \in Seq(Level)
  BY DEF Opposite, BookType
<1>2. R \subseteq DOMAIN side /\ DOMAIN side = 1 .. Len(side) /\ Len(side) \in Nat
  BY <1>1 DEF Reachable
<1>3. IsFiniteSet(R) /\ n \in Nat
  <2>1. IsFiniteSet(1 .. Len(side))
    BY <1>2, UptoIsFinite
  <2> QED BY <1>2, <2>1, FS_Subset, FS_CardinalityType
<1>4. \A i \in R : /\ side[i] \in Level
                   /\ key[i] \in Int
                   /\ key[i] = IF order.side = "BUY" THEN side[i].price ELSE -side[i].price
  <2> SUFFICES ASSUME NEW i \in R
               PROVE  /\ side[i] \in Level
                      /\ key[i] \in Int
                      /\ key[i] = IF order.side = "BUY" THEN side[i].price ELSE -side[i].price
    OBVIOUS
  <2>1. side[i] \in Level /\ i \in DOMAIN side
    BY <1>1, <1>2
  <2>2. side[i].price \in Nat
    BY <2>1 DEF Level
  <2>3. key[i] = IF order.side = "BUY" THEN side[i].price ELSE -side[i].price
    BY <2>1 DEF Key, PriceKey
  <2> QED BY <2>1, <2>2, <2>3
<1>5. /\ at \in [1 .. n -> R]
      /\ \A i \in R : \E k \in 1 .. n : at[k] = i
      /\ \A k \in 1 .. n, l \in 1 .. n : k < l => Precedes(key, at[k], at[l])
      /\ \A k \in 1 .. n, l \in 1 .. n : at[k] = at[l] => k = l
  <2>1. R \subseteq Int
    BY <1>2
  <2>2. \A i \in R : key[i] \in Int
    BY <1>4
  <2> HIDE DEF R, key
  <2> QED BY <1>3, <2>1, <2>2, SortedPlacesSorts DEF PlacesOf, R, key, Key
<1>6. levels = [k \in 1 .. n |-> side[at[k]]]
  BY <1>5 DEF EligibleLevels, LevelsAt, PlacesOf
<1>7. \A k \in 1 .. n : levels[k] \in Level
  BY <1>4, <1>5, <1>6
<1>8. levels \in Seq(Level) /\ Len(levels) = n
  <2> HIDE DEF levels, n, side, at
  <2>1. levels \in [1 .. n -> Level]
    BY <1>6, <1>7
  <2> QED BY <1>3, <1>6, <2>1
<1>9. \A k \in 1 .. n, l \in 1 .. n : k < l => key[at[k]] <= key[at[l]]
  <2> SUFFICES ASSUME NEW k \in 1 .. n, NEW l \in 1 .. n, k < l
               PROVE  key[at[k]] <= key[at[l]]
    OBVIOUS
  <2>1. key[at[k]] \in Int /\ key[at[l]] \in Int
    BY <1>4, <1>5
  <2> QED BY <1>5, <2>1 DEF Precedes
<1> QED BY <1>3, <1>4, <1>5, <1>6, <1>8, <1>9

\* What the first k eligible levels offer is what their places make available.
LEMMA UptoIsAvailable ==
  ASSUME NEW order \in SimulatedOrder, NEW book \in BookType,
         NEW k \in 0 .. Cardinality(Reachable(order, book))
  PROVE  /\ Upto(EligibleLevels(order, book), k)
              = SumFunctionOnSet(Available(order, book),
                                 {PlacesOf(order, book)[j] : j \in 1 .. k})
         /\ \A j \in 1 .. Cardinality(Reachable(order, book)) :
              Offers(EligibleLevels(order, book))[j]
                = Available(order, book)[PlacesOf(order, book)[j]]
         /\ \A i \in Reachable(order, book) : Available(order, book)[i] \in Nat
<1> DEFINE side == Opposite(order, book)
           R == Reachable(order, book)
           n == Cardinality(R)
           at == PlacesOf(order, book)
           levels == EligibleLevels(order, book)
<1>1. /\ n \in Nat
      /\ levels \in Seq(Level) /\ Len(levels) = n
      /\ \A j \in 1 .. n : at[j] \in R /\ levels[j] = side[at[j]]
      /\ \A j \in 1 .. n, l \in 1 .. n : at[j] = at[l] => j = l
      /\ \A i \in R : side[i] \in Level
  BY EligibleLevelsAre
<1>2. R \subseteq DOMAIN side
  BY DEF Reachable
<1>3. \A i \in R : Available(order, book)[i] = IF side[i].size > 0 THEN side[i].size ELSE 0
  BY <1>2 DEF Available
<1>4. \A i \in R : Available(order, book)[i] \in Nat
  BY <1>1, <1>3 DEF Level
<1>5. \A j \in 1 .. n : Offers(levels)[j] = Available(order, book)[at[j]]
  BY <1>1, <1>3 DEF Offers
<1>6. Upto(levels, k) = SumFunctionOnSet(Available(order, book), {at[j] : j \in 1 .. k})
  <2>1. IsFiniteSet(1 .. k) /\ \A j \in 1 .. k : j \in 1 .. n
    BY <1>1, UptoIsFinite
  <2>2. \A j \in 1 .. k : Offers(levels)[j] \in Int
                          /\ Available(order, book)[at[j]] = Offers(levels)[j]
    BY <1>1, <1>4, <1>5, <2>1
  <2>3. \A j \in 1 .. k, l \in 1 .. k : at[j] = at[l] => j = l
    BY <1>1, <2>1
  <2> DEFINE places == {at[j] : j \in 1 .. k}
  <2>4. Pairs(at, 1 .. k, places)
    BY <2>3 DEF Pairs
  <2> HIDE DEF at, levels, places
  <2>5. SameTerms(Offers(levels), 1 .. k, Available(order, book), places)
    BY <2>2, <2>4 DEF SameTerms
  <2>6. SumFunctionOnSet(Offers(levels), 1 .. k)
          = SumFunctionOnSet(Available(order, book), places)
    BY <2>1, <2>5, SumCarriedOver
  <2> QED BY <2>6 DEF Upto, places
<1> QED BY <1>4, <1>5, <1>6

\* The sizes of fills add up to a natural number.
LEMMA FilledType ==
  ASSUME NEW fills \in Seq(FillTerms)
  PROVE  Filled(fills) \in Nat
<1>1. /\ IsFiniteSet(DOMAIN fills) /\ DOMAIN Sizes(fills) = DOMAIN fills
      /\ \A k \in DOMAIN fills : fills[k] \in FillTerms
  <2>1. DOMAIN fills = 1 .. Len(fills) /\ Len(fills) \in Nat
    OBVIOUS
  <2>2. IsFiniteSet(1 .. Len(fills))
    BY <2>1, FS_Interval
  <2> QED BY <2>1, <2>2 DEF Sizes
<1>2. \A k \in DOMAIN fills : Sizes(fills)[k] \in Nat
  BY <1>1 DEF Sizes, FillTerms
<1> QED BY <1>1, <1>2, SumPositive DEF Filled, SumFunction

\* No fills fill nothing, for nothing.
LEMMA NothingFilled ==
  /\ Filled(<< >>) = 0
  /\ SumFunction(Notionals(<< >>)) = 0
<1>1. DOMAIN Sizes(<< >>) = {} /\ DOMAIN Notionals(<< >>) = {}
  BY DEF Sizes, Notionals
<1> QED BY <1>1, SumEmpty DEF Filled, SumFunction

-----------------------------------------------------------------------------
\* An order that may not fill yet, or for which the book holds nothing, is
\* owed nothing.
LEMMA NoFillIsOwed ==
  ASSUME NEW order \in SimulatedOrder, order.remaining_size # 0, NEW book \in BookType,
         NEW effective \in BOOLEAN, ~effective \/ Reachable(order, book) = {}
  PROVE  MatchingOwes(order, book, effective, NoFill(order))
<1> DEFINE R == Reachable(order, book)
           size == order.remaining_size
           r == NoFill(order)
<1>1. /\ r.fills = << >> /\ r.remaining_size = size /\ r.status = "OPEN"
      /\ size \in Nat \ {0} /\ r \in FillResult
  <2>1. size \in Nat /\ << >> \in Seq(FillTerms)
    BY DEF SimulatedOrder
  <2> QED BY <2>1 DEF NoFill, FillResult
<1>2. Accounted(order, r)
  BY <1>1, NothingFilled DEF Accounted
<1>3. RespectsTheLimit(order, r)
  BY <1>1 DEF RespectsTheLimit
<1>4. FillsWhatTheBookAllows(order, book, effective, r)
  <2>1. R = {} => SumFunctionOnSet(Available(order, book), R) = 0
    BY SumEmpty
  <2> QED BY <1>1, <2>1, NothingFilled DEF FillsWhatTheBookAllows
<1>5. FillsAtTheBestPrice(order, book, r)
  <2> SUFFICES ASSUME NEW take \in [R -> 0 .. size], SumFunction(take) = 0
               PROVE  SumFunction([k \in R |-> Opposite(order, book)[k].price * take[k]]) = 0
    BY <1>1, NothingFilled DEF FillsAtTheBestPrice
  <2> DEFINE cost == [k \in R |-> Opposite(order, book)[k].price * take[k]]
  <2>1. IsFiniteSet(R) /\ \A k \in R : Opposite(order, book)[k] \in Level
    BY EligibleLevelsAre
  <2>2. \A k \in R : take[k] = 0
    <3>1. \A k \in R : take[k] \in Nat
      BY <1>1
    <3> HIDE DEF R
    <3>2. SumFunctionOnSet(take, R) = 0
      BY DEF SumFunction
    <3> QED BY <2>1, <3>1, <3>2, SumZero
  <2>3. \A k \in R : cost[k] = 0
    BY <2>1, <2>2 DEF Level
  <2>4. SumFunctionOnSet(cost, R) = 0
    <3> HIDE DEF R, cost
    <3> QED BY <2>1, <2>3, SumOfZeros
  <2> QED BY <2>4 DEF SumFunction
<1>6. RaisesOnlyOnEmptyLevel(order, book, r)
  BY <1>1 DEF RaisesOnlyOnEmptyLevel
<1> QED BY <1>1, <1>2, <1>3, <1>4, <1>5, <1>6 DEF MatchingOwes

\* When the loop meets a level without size, the levels before it leave
\* something of the order, and the better priced ones are among those.
LEMMA RaisingIsOwed ==
  ASSUME NEW order \in SimulatedOrder, order.remaining_size # 0, NEW book \in BookType,
         NEW effective \in BOOLEAN,
         \E k \in ReachedOf(EligibleLevels(order, book), order.remaining_size) :
           EligibleLevels(order, book)[k].size <= 0
  PROVE  MatchingOwes(order, book, effective, RaisedResult(order))
<1> DEFINE R == Reachable(order, book)
           n == Cardinality(R)
           at == PlacesOf(order, book)
           key == Key(order, book)
           side == Opposite(order, book)
           levels == EligibleLevels(order, book)
           size == order.remaining_size
           before == RemainingBefore(levels, size)
           available == Available(order, book)
           r == RaisedResult(order)
           Bad == {k \in ReachedOf(levels, size) : levels[k].size <= 0}
<1>1. /\ r.fills = << >> /\ r.remaining_size = size /\ r.status = "RAISED"
      /\ size \in Nat \ {0} /\ r \in FillResult
  <2>1. size \in Nat /\ << >> \in Seq(FillTerms)
    BY DEF SimulatedOrder
  <2> QED BY <2>1 DEF RaisedResult, FillResult
<1>2. /\ IsFiniteSet(R) /\ n \in Nat
      /\ levels \in Seq(Level) /\ Len(levels) = n
      /\ \A k \in 1 .. n : at[k] \in R /\ levels[k] = side[at[k]]
      /\ \A i \in R : \E k \in 1 .. n : at[k] = i
      /\ \A k \in 1 .. n, l \in 1 .. n : k < l => key[at[k]] <= key[at[l]]
      /\ \A i \in R : /\ side[i] \in Level
                      /\ key[i] \in Int
                      /\ key[i] = IF order.side = "BUY" THEN side[i].price ELSE -side[i].price
  BY EligibleLevelsAre
<1>3. PICK k \in Bad : \A j \in Bad : k <= j
  <2>1. Bad \subseteq Nat /\ Bad # {}
    BY DEF ReachedOf
  <2> HIDE DEF Bad
  <2> QED BY <2>1, NatMin
<1>4. k \in 1 .. n /\ before[k] > 0 /\ levels[k].size <= 0
  BY <1>2, <1>3 DEF ReachedOf, LoopReaches
<1>5. before[k] = Rest(size, Upto(levels, k - 1))
  <2>1. ASSUME NEW j \in 1 .. k - 1, before[j] > 0 PROVE levels[j].size > 0
    <3>1. j \in 1 .. n /\ ~(k <= j)
      BY <1>2, <1>4
    <3>2. j \notin Bad
      BY <1>3, <3>1
    <3>3. levels[j] \in Level
      BY <1>2, <3>1
    <3>4. levels[j].size \in Int
      BY <3>3 DEF Level
    <3> QED BY <1>2, <2>1, <3>1, <3>2, <3>4 DEF ReachedOf, LoopReaches
  <2>2. k \in 1 .. Len(levels) + 1 /\ size \in Nat
    BY <1>1, <1>2, <1>4
  <2> HIDE DEF levels, size
  <2> QED BY <1>2, <2>1, <2>2, RemainingIsRest
<1>6. k - 1 \in 0 .. n
  BY <1>2, <1>4
<1> DEFINE earlier == {at[j] : j \in 1 .. k - 1}
<1>7. /\ Upto(levels, k - 1) = SumFunctionOnSet(available, earlier)
      /\ \A i \in R : available[i] \in Nat
  BY <1>6, UptoIsAvailable
<1>8. Upto(levels, k - 1) \in Nat
  BY <1>2, <1>6, OffersAddUp
<1>9. SumFunctionOnSet(available, earlier) < size
  BY <1>1, <1>4, <1>5, <1>7, <1>8 DEF Rest
<1>10. earlier \subseteq R /\ IsFiniteSet(earlier)
  <2>1. earlier \subseteq R
    BY <1>2, <1>4
  <2> QED BY <1>2, <2>1, FS_Subset
<1> DEFINE better == {m \in R : Better(order, side[m].price, side[at[k]].price)}
<1>11. better \subseteq earlier
  <2> SUFFICES ASSUME NEW i \in R, Better(order, side[i].price, side[at[k]].price)
               PROVE  i \in earlier
    OBVIOUS
  <2>1. PICK j \in 1 .. n : at[j] = i
    BY <1>2
  <2>2. at[k] \in R
    BY <1>2, <1>4
  <2>3. side[i].price \in Nat /\ side[at[k]].price \in Nat
    BY <1>2, <2>2 DEF Level
  <2>4. key[i] < key[at[k]]
    <3>1. CASE order.side = "BUY"
      BY <1>2, <2>2, <2>3, <3>1 DEF Better
    <3>2. CASE order.side # "BUY"
      <4>1. side[i].price > side[at[k]].price
        BY <3>2 DEF Better
      <4>2. key[i] = -side[i].price /\ key[at[k]] = -side[at[k]].price
        BY <1>2, <2>2, <3>2
      <4> QED BY <2>3, <4>1, <4>2
    <3> QED BY <3>1, <3>2
  <2>5. ~(key[at[k]] <= key[at[j]])
    BY <1>2, <2>1, <2>2, <2>4
  <2>6. j < k
    <3>1. CASE k < j
      BY <1>2, <1>4, <2>5, <3>1
    <3>2. CASE k = j
      <4>1. key[i] \in Int
        BY <1>2
      <4> QED BY <2>1, <2>4, <3>2, <4>1
    <3> QED BY <1>2, <1>4, <3>1, <3>2
  <2>7. j \in 1 .. k - 1
    BY <1>2, <1>4, <2>6
  <2> QED BY <2>1, <2>7
<1>12. SumFunctionOnSet(available, better) < size
  <2>1. SumFunctionOnSet(available, better) <= SumFunctionOnSet(available, earlier)
    <3>1. \A i \in earlier : available[i] \in Nat
      BY <1>7, <1>10
    <3> HIDE DEF better, earlier, available
    <3> QED BY <1>10, <1>11, <3>1, SumPart
  <2>2. SumFunctionOnSet(available, better) \in Int
    <3>1. IsFiniteSet(better) /\ \A i \in better : available[i] \in Int
      <4> HIDE DEF earlier
      <4> QED BY <1>7, <1>10, <1>11, FS_Subset
    <3> HIDE DEF better, available
    <3> QED BY <3>1, SumType
  <2>3. SumFunctionOnSet(available, earlier) \in Int
    BY <1>7, <1>8
  <2> HIDE DEF better, earlier, available
  <2> QED BY <1>1, <1>9, <2>1, <2>2, <2>3
<1>13. RaisesOnlyOnEmptyLevel(order, book, r)
  <2>1. at[k] \in R /\ side[at[k]].size <= 0
    BY <1>2, <1>4
  <2> HIDE DEF r
  <2> QED BY <1>12, <2>1 DEF RaisesOnlyOnEmptyLevel
<1> HIDE DEF r
<1>14. Accounted(order, r) /\ RespectsTheLimit(order, r)
  BY <1>1 DEF Accounted, RespectsTheLimit
<1>15. FillsWhatTheBookAllows(order, book, effective, r) /\ FillsAtTheBestPrice(order, book, r)
  BY <1>1 DEF FillsWhatTheBookAllows, FillsAtTheBestPrice
<1> QED BY <1>1, <1>13, <1>14, <1>15 DEF MatchingOwes, r

\* The product of two numbers of the same sign is not negative.
LEMMA SameSign ==
  ASSUME NEW a \in Int, NEW b \in Int, (a >= 0 /\ b >= 0) \/ (a <= 0 /\ b <= 0)
  PROVE  a * b \in Nat
<1>1. CASE a >= 0 /\ b >= 0
  <2>1. a \in Nat /\ b \in Nat
    BY <1>1
  <2> QED BY <2>1
<1>2. CASE a <= 0 /\ b <= 0
  <2> DEFINE c == -a
             e == -b
  <2>1. c \in Nat /\ e \in Nat /\ a = -c /\ b = -e
    BY <1>2
  <2> HIDE DEF c, e
  <2>2. c * e \in Nat
    BY <2>1
  <2>3. (-c) * (-e) = c * e
    BY <2>1
  <2> QED BY <2>1, <2>2, <2>3
<1> QED BY <1>1, <1>2

\* Nothing else of the same quantity costs less, where k is ordered by what a
\* level costs: whatever takes differently takes less where fills are full and
\* more behind the last of them, so it never gains on the price pivot.
LEMMA Exchange ==
  ASSUME NEW n \in Nat, NEW s \in Int,
         NEW price, NEW take, NEW fill, NEW pivot \in Int,
         \A k \in 1 .. n : price[k] \in Nat /\ take[k] \in Nat /\ fill[k] \in Nat,
         \A k \in 1 .. n : \/ s * price[k] = pivot
                           \/ s * price[k] <= pivot /\ take[k] <= fill[k]
                           \/ s * price[k] >= pivot /\ take[k] >= fill[k],
         SumFunctionOnSet(take, 1 .. n) = SumFunctionOnSet(fill, 1 .. n)
  PROVE  s * SumFunctionOnSet([k \in 1 .. n |-> price[k] * take[k]], 1 .. n)
           >= s * SumFunctionOnSet([k \in 1 .. n |-> price[k] * fill[k]], 1 .. n)
<1> DEFINE T == [k \in 1 .. n |-> price[k] * take[k]]
           F == [k \in 1 .. n |-> price[k] * fill[k]]
           x == [k \in 1 .. n |-> take[k] - fill[k]]
           z == [k \in 1 .. n |-> T[k] - F[k]]
           u == [k \in 1 .. n |-> (-pivot) * x[k]]
           v == [k \in 1 .. n |-> s * z[k]]
           d == [k \in 1 .. n |-> u[k] + v[k]]
<1>0. IsFiniteSet(1 .. n)
  BY FS_Interval
<1>1. \A k \in 1 .. n :
         /\ take[k] \in Int /\ fill[k] \in Int
         /\ T[k] \in Int /\ F[k] \in Int /\ x[k] \in Int /\ z[k] \in Int
         /\ u[k] \in Int /\ v[k] \in Int /\ d[k] \in Nat
         /\ take[k] = fill[k] + x[k] /\ T[k] = F[k] + z[k]
         /\ u[k] = (-pivot) * x[k] /\ v[k] = s * z[k] /\ d[k] = u[k] + v[k]
  <2> SUFFICES ASSUME NEW k \in 1 .. n
               PROVE  /\ take[k] \in Int /\ fill[k] \in Int
                      /\ T[k] \in Int /\ F[k] \in Int /\ x[k] \in Int /\ z[k] \in Int
                      /\ u[k] \in Int /\ v[k] \in Int /\ d[k] \in Nat
                      /\ take[k] = fill[k] + x[k] /\ T[k] = F[k] + z[k]
                      /\ u[k] = (-pivot) * x[k] /\ v[k] = s * z[k] /\ d[k] = u[k] + v[k]
    OBVIOUS
  <2> DEFINE p == price[k]
             a == take[k]
             b == fill[k]
             q == s * p
  <2>1. p \in Nat /\ a \in Nat /\ b \in Nat
    OBVIOUS
  <2>2. T[k] = p * a /\ F[k] = p * b /\ x[k] = a - b
    OBVIOUS
  <2>3. z[k] = T[k] - F[k] /\ u[k] = (-pivot) * x[k]
    OBVIOUS
  <2>4. v[k] = s * z[k] /\ d[k] = u[k] + v[k]
    OBVIOUS
  <2>5. \/ q = pivot
        \/ q <= pivot /\ a <= b
        \/ q >= pivot /\ a >= b
    OBVIOUS
  <2> HIDE DEF p, a, b, d, T, F, x, z, u, v
  <2>6. q \in Int
    BY <2>1
  <2>7. T[k] \in Int /\ F[k] \in Int /\ x[k] \in Int
    BY <2>1, <2>2
  <2>8. z[k] \in Int /\ u[k] \in Int
    BY <2>3, <2>7
  <2>9. v[k] \in Int /\ d[k] \in Int
    BY <2>4, <2>8
  <2>10. v[k] = q * (a - b)
    <3>1. v[k] = s * (p * a - p * b)
      BY <2>2, <2>3, <2>4
    <3>2. s * (p * a - p * b) = (s * p) * (a - b)
      BY <2>1
    <3> QED BY <3>1, <3>2
  <2> HIDE DEF q
  <2>11. d[k] = (q - pivot) * (a - b)
    <3>1. d[k] = (-pivot) * (a - b) + q * (a - b)
      BY <2>2, <2>3, <2>4, <2>10
    <3>2. (-pivot) * (a - b) + q * (a - b) = (q - pivot) * (a - b)
      BY <2>1, <2>6
    <3> QED BY <3>1, <3>2
  <2>12. q - pivot \in Int /\ a - b \in Int
    BY <2>1, <2>6
  <2>13. (q - pivot >= 0 /\ a - b >= 0) \/ (q - pivot <= 0 /\ a - b <= 0)
    BY <2>1, <2>5, <2>6
  <2>14. d[k] \in Nat
    BY <2>11, <2>12, <2>13, SameSign
  <2>15. take[k] = fill[k] + x[k]
    BY <2>1, <2>2 DEF a, b
  <2>16. T[k] = F[k] + z[k]
    BY <2>3, <2>7
  <2> QED BY <2>1, <2>3, <2>4, <2>7, <2>8, <2>9, <2>14, <2>15, <2>16 DEF a, b
<1> HIDE DEF T, F, x, z, u, v, d
<1>3. SumFunctionOnSet(take, 1 .. n)
        = SumFunctionOnSet(fill, 1 .. n) + SumFunctionOnSet(x, 1 .. n)
  <2>1. \A k \in 1 .. n : fill[k] \in Int /\ x[k] \in Int /\ take[k] = fill[k] + x[k]
    BY <1>1
  <2> QED BY <1>0, <2>1, SumPlus
<1>4. SumFunctionOnSet(T, 1 .. n)
        = SumFunctionOnSet(F, 1 .. n) + SumFunctionOnSet(z, 1 .. n)
  <2>1. \A k \in 1 .. n : F[k] \in Int /\ z[k] \in Int /\ T[k] = F[k] + z[k]
    BY <1>1
  <2> QED BY <1>0, <2>1, SumPlus
<1>5. SumFunctionOnSet(u, 1 .. n) = (-pivot) * SumFunctionOnSet(x, 1 .. n)
  <2>1. \A k \in 1 .. n : x[k] \in Int /\ u[k] = (-pivot) * x[k]
    BY <1>1
  <2> DEFINE c == -pivot
  <2>2. c \in Int
    OBVIOUS
  <2>3. \A k \in 1 .. n : x[k] \in Int /\ u[k] = c * x[k]
    BY <2>1
  <2> HIDE DEF c
  <2>4. SumFunctionOnSet(u, 1 .. n) = c * SumFunctionOnSet(x, 1 .. n)
    BY <1>0, <2>2, <2>3, SumScaled
  <2> QED BY <2>4 DEF c
<1>6. SumFunctionOnSet(v, 1 .. n) = s * SumFunctionOnSet(z, 1 .. n)
  <2>1. \A k \in 1 .. n : z[k] \in Int /\ v[k] = s * z[k]
    BY <1>1
  <2> QED BY <1>0, <2>1, SumScaled
<1>7. SumFunctionOnSet(d, 1 .. n) = SumFunctionOnSet(u, 1 .. n) + SumFunctionOnSet(v, 1 .. n)
  <2>1. \A k \in 1 .. n : u[k] \in Int /\ v[k] \in Int /\ d[k] = u[k] + v[k]
    BY <1>1
  <2> QED BY <1>0, <2>1, SumPlus
<1>8. SumFunctionOnSet(d, 1 .. n) \in Nat
  <2>1. \A k \in 1 .. n : d[k] \in Nat
    BY <1>1
  <2> QED BY <1>0, <2>1, SumPositive
<1>9. /\ SumFunctionOnSet(F, 1 .. n) \in Int /\ SumFunctionOnSet(fill, 1 .. n) \in Int
      /\ SumFunctionOnSet(x, 1 .. n) \in Int /\ SumFunctionOnSet(z, 1 .. n) \in Int
  <2>1. \A k \in 1 .. n : F[k] \in Int
    BY <1>1
  <2>2. \A k \in 1 .. n : fill[k] \in Int
    BY <1>1
  <2>3. \A k \in 1 .. n : x[k] \in Int
    BY <1>1
  <2>4. \A k \in 1 .. n : z[k] \in Int
    BY <1>1
  <2>5. SumFunctionOnSet(F, 1 .. n) \in Int
    BY <1>0, <2>1, SumType
  <2>6. SumFunctionOnSet(fill, 1 .. n) \in Int
    BY <1>0, <2>2, SumType
  <2>7. SumFunctionOnSet(x, 1 .. n) \in Int
    BY <1>0, <2>3, SumType
  <2>8. SumFunctionOnSet(z, 1 .. n) \in Int
    BY <1>0, <2>4, SumType
  <2> QED BY <2>5, <2>6, <2>7, <2>8
<1> DEFINE ST == SumFunctionOnSet(T, 1 .. n)
           SF == SumFunctionOnSet(F, 1 .. n)
           Sx == SumFunctionOnSet(x, 1 .. n)
           Sz == SumFunctionOnSet(z, 1 .. n)
           Su == SumFunctionOnSet(u, 1 .. n)
           Sv == SumFunctionOnSet(v, 1 .. n)
<1>10. Sx = 0
  <2> DEFINE b == SumFunctionOnSet(fill, 1 .. n)
  <2>1. b = b + Sx /\ b \in Int /\ Sx \in Int
    BY <1>3, <1>9
  <2> HIDE DEF Sx, b
  <2> QED BY <2>1
<1>11. Su = 0
  <2>1. Su = (-pivot) * Sx
    BY <1>5
  <2> HIDE DEF Su, Sx
  <2> QED BY <2>1, <1>10
<1>12. /\ ST = SF + Sz /\ SF \in Int /\ Sz \in Int /\ Sv = s * Sz /\ Su + Sv \in Nat
  BY <1>4, <1>6, <1>7, <1>8, <1>9
<1>13. s * ST >= s * SF
  <2> HIDE DEF ST, SF, Sx, Sz, Su, Sv
  <2>1. s * ST = s * SF + s * Sz
    BY <1>12
  <2>2. s * SF \in Int /\ s * Sz \in Int
    BY <1>12
  <2>3. s * Sz >= 0
    BY <1>11, <1>12, <2>2
  <2> QED BY <2>1, <2>2, <2>3
<1> QED BY <1>13 DEF T, F

\* Nothing is added by indices without a value.
LEMMA SumPadded ==
  ASSUME NEW n \in Nat, NEW m \in 0 .. n, NEW f, NEW g,
         \A k \in 1 .. m : f[k] \in Int /\ g[k] = f[k],
         \A k \in 1 .. n : k > m => g[k] = 0
  PROVE  SumFunctionOnSet(g, 1 .. n) = SumFunctionOnSet(f, 1 .. m)
<1>1. /\ IsFiniteSet(1 .. n) /\ IsFiniteSet(1 .. m) /\ 1 .. m \in SUBSET (1 .. n)
      /\ IsFiniteSet((1 .. n) \ (1 .. m))
  <2>1. IsFiniteSet(1 .. n) /\ IsFiniteSet(1 .. m)
    BY FS_Interval
  <2>2. 1 .. m \in SUBSET (1 .. n)
    OBVIOUS
  <2> QED BY <2>1, <2>2, FS_Subset
<1>2. /\ \A k \in (1 .. n) \ (1 .. m) : g[k] = 0
      /\ \A k \in 1 .. n : g[k] \in Int
      /\ \A k \in 1 .. m : g[k] \in Int /\ g[k] = f[k]
  OBVIOUS
<1>3. SumFunctionOnSet(g, 1 .. n)
        = SumFunctionOnSet(g, 1 .. m) + SumFunctionOnSet(g, (1 .. n) \ (1 .. m))
  BY <1>1, <1>2, SumSplit
<1>4. SumFunctionOnSet(g, (1 .. n) \ (1 .. m)) = 0
  BY <1>1, <1>2, SumOfZeros
<1>5. SumFunctionOnSet(g, 1 .. m) = SumFunctionOnSet(f, 1 .. m)
  BY <1>1, <1>2, SumEqual
<1>6. SumFunctionOnSet(g, 1 .. m) \in Int
  BY <1>1, <1>2, SumType
<1> QED BY <1>3, <1>4, <1>5, <1>6

\* The result of the loop of simulate_fills.
SimulatedResult(order, book) ==
  LET levels == EligibleLevels(order, book)
      left == RemainingBefore(levels, order.remaining_size)[Len(levels) + 1]
      fills == FillsOf(levels, order.remaining_size)
  IN  [fills |-> fills, remaining_size |-> left, status |-> Classify(fills, left)]

\* What the loop fills, where it meets no level without size.
Smooth(order, book) ==
  /\ order.remaining_size # 0
  /\ Reachable(order, book) # {}
  /\ \A k \in ReachedOf(EligibleLevels(order, book), order.remaining_size) :
       EligibleLevels(order, book)[k].size > 0

\* The fills of a book without empty levels in reach: as many levels, in their
\* order and at their prices, as the size takes.
LEMMA SmoothFills ==
  ASSUME NEW order \in SimulatedOrder, NEW book \in BookType, Smooth(order, book)
  PROVE  LET R == Reachable(order, book)
             n == Cardinality(R)
             at == PlacesOf(order, book)
             size == order.remaining_size
             levels == EligibleLevels(order, book)
             fills == FillsOf(levels, size)
             m == Len(fills)
             left == RemainingBefore(levels, size)[Len(levels) + 1]
             allowed == SumFunctionOnSet(Available(order, book), R) IN
         /\ fills \in Seq(FillTerms) /\ n \in Nat \ {0} /\ m \in 1 .. n
         /\ size \in Nat \ {0} /\ allowed \in Nat
         /\ left = Rest(size, allowed) /\ Filled(fills) = size - left
         /\ \A k \in 1 .. m : /\ fills[k].price = Opposite(order, book)[at[k]].price
                              /\ at[k] \in R
                              /\ fills[k].size <= Available(order, book)[at[k]]
                              /\ k < m => fills[k].size = Available(order, book)[at[k]]
<1> DEFINE R == Reachable(order, book)
           n == Cardinality(R)
           at == PlacesOf(order, book)
           size == order.remaining_size
           levels == EligibleLevels(order, book)
           fills == FillsOf(levels, size)
           m == Cardinality(ReachedOf(levels, size))
           side == Opposite(order, book)
           left == RemainingBefore(levels, size)[Len(levels) + 1]
           available == Available(order, book)
<1>1. size \in Nat \ {0}
  BY DEF SimulatedOrder, Smooth
<1>2. /\ IsFiniteSet(R) /\ n \in Nat
      /\ levels \in Seq(Level) /\ Len(levels) = n
      /\ \A k \in 1 .. n : at[k] \in R /\ levels[k] = side[at[k]]
      /\ \A i \in R : \E k \in 1 .. n : at[k] = i
  BY EligibleLevelsAre
<1>3. \A k \in ReachedOf(levels, size) : levels[k].size > 0
  BY DEF Smooth
<1>4. n # 0
  <2>1. R # {}
    BY DEF Smooth
  <2> HIDE DEF R
  <2> QED BY <1>2, <2>1, FS_EmptySet
<1> HIDE DEF levels, size
<1>5. /\ m \in 0 .. n
      /\ m < n => size <= Upto(levels, m)
  BY <1>1, <1>2, <1>3, LoopTakesAPrefix
<1>6. m # 0
  <2>1. Upto(levels, 0) = 0
    BY <1>2, OffersAddUp
  <2> HIDE DEF m, n
  <2> QED BY <1>1, <1>2, <1>4, <1>5, <2>1
<1>7. /\ fills \in Seq(FillTerms) /\ Len(fills) = m
      /\ \A k \in 1 .. m :
           /\ fills[k].price = levels[k].price
           /\ fills[k].size <= Offers(levels)[k]
           /\ k < m => fills[k].size = Offers(levels)[k]
      /\ left = Rest(size, Upto(levels, Len(levels)))
      /\ Filled(fills) = size - left
  BY <1>1, <1>2, <1>3, FillsAddUp
<1>8. /\ Upto(levels, n) = SumFunctionOnSet(available, {at[j] : j \in 1 .. n})
      /\ \A j \in 1 .. n : Offers(levels)[j] = available[at[j]]
  <2>1. n \in 0 .. n
    BY <1>2
  <2> QED BY <2>1, UptoIsAvailable DEF levels
<1>9. {at[j] : j \in 1 .. n} = R
  BY <1>2
<1>10. Upto(levels, n) \in Nat
  BY <1>2, OffersAddUp
<1> HIDE DEF m, n, fills, left, at, available, side, R
<1>11. m \in 1 .. n
  BY <1>2, <1>5, <1>6
<1>12. \A k \in 1 .. m : /\ fills[k].price = side[at[k]].price
                         /\ at[k] \in R
                         /\ fills[k].size <= available[at[k]]
                         /\ k < m => fills[k].size = available[at[k]]
  <2>1. \A k \in 1 .. m : k \in 1 .. n
    BY <1>2, <1>11
  <2> QED BY <1>2, <1>7, <1>8, <2>1
<1>13. left = Rest(size, SumFunctionOnSet(available, R)) /\ SumFunctionOnSet(available, R) \in Nat
  BY <1>2, <1>7, <1>8, <1>9, <1>10
<1> QED BY <1>1, <1>2, <1>4, <1>7, <1>11, <1>12, <1>13
      DEF m, n, fills, left, at, available, side, R, levels, size

\* The fills of the loop are the best use of the book.
LEMMA SmoothIsBest ==
  ASSUME NEW order \in SimulatedOrder, NEW book \in BookType, Smooth(order, book)
  PROVE  FillsAtTheBestPrice(order, book, SimulatedResult(order, book))
<1> DEFINE R == Reachable(order, book)
           n == Cardinality(R)
           at == PlacesOf(order, book)
           key == Key(order, book)
           size == order.remaining_size
           side == Opposite(order, book)
           available == Available(order, book)
           fills == FillsOf(EligibleLevels(order, book), size)
           m == Len(fills)
           s == IF order.side = "BUY" THEN 1 ELSE -1
<1> SUFFICES ASSUME NEW take \in [R -> 0 .. size],
                    \A i \in R : take[i] <= available[i],
                    SumFunction(take) = Filled(fills)
             PROVE  IF order.side = "BUY"
                    THEN SumFunction(Notionals(fills))
                           <= SumFunction([i \in R |-> side[i].price * take[i]])
                    ELSE SumFunction(Notionals(fills))
                           >= SumFunction([i \in R |-> side[i].price * take[i]])
  BY DEF FillsAtTheBestPrice, SimulatedResult
<1> DEFINE cost == [i \in R |-> side[i].price * take[i]]
           takes == [k \in 1 .. n |-> take[at[k]]]
           fill == [k \in 1 .. n |-> IF k \in 1 .. m THEN fills[k].size ELSE 0]
           price == [k \in 1 .. n |-> side[at[k]].price]
           costs == [k \in 1 .. n |-> price[k] * takes[k]]
           pays == [k \in 1 .. n |-> price[k] * fill[k]]
<1>1. /\ n \in Nat \ {0} /\ m \in 1 .. n /\ size \in Nat \ {0}
      /\ fills \in Seq(FillTerms)
      /\ \A k \in 1 .. m : /\ fills[k].price = side[at[k]].price
                           /\ fills[k].size <= available[at[k]]
                           /\ k < m => fills[k].size = available[at[k]]
  BY SmoothFills
<1>2. /\ IsFiniteSet(R)
      /\ \A k \in 1 .. n : at[k] \in R
      /\ \A i \in R : \E k \in 1 .. n : at[k] = i
      /\ \A k \in 1 .. n, l \in 1 .. n : at[k] = at[l] => k = l
      /\ \A k \in 1 .. n, l \in 1 .. n : k < l => key[at[k]] <= key[at[l]]
      /\ \A i \in R : /\ side[i] \in Level /\ key[i] \in Int
                      /\ key[i] = IF order.side = "BUY" THEN side[i].price ELSE -side[i].price
  BY EligibleLevelsAre
<1>3. DOMAIN fills = 1 .. m /\ \A k \in 1 .. m : fills[k].price \in Nat /\ fills[k].size \in Nat
  <2>1. DOMAIN fills = 1 .. m /\ \A k \in 1 .. m : fills[k] \in FillTerms
    BY <1>1
  <2> QED BY <2>1 DEF FillTerms
<1>4. \A i \in R : side[i].price \in Nat /\ take[i] \in Nat
  BY <1>1, <1>2 DEF Level
<1>5. /\ DOMAIN Notionals(fills) = 1 .. m /\ DOMAIN Sizes(fills) = 1 .. m
      /\ \A k \in 1 .. m : /\ Notionals(fills)[k] = fills[k].price * fills[k].size
                           /\ Sizes(fills)[k] = fills[k].size
  BY <1>3 DEF Notionals, Sizes
<1> HIDE DEF R, n, at, key, size, side, available, fills, m
<1>7. \A k \in 1 .. n : /\ price[k] = side[at[k]].price /\ price[k] \in Nat
                        /\ takes[k] = take[at[k]] /\ takes[k] \in Nat
                        /\ fill[k] \in Nat
  BY <1>2, <1>3, <1>4
<1>a. Pairs(at, 1 .. n, R) /\ IsFiniteSet(1 .. n)
  <2>1. Pairs(at, 1 .. n, R)
    BY <1>2 DEF Pairs
  <2> QED BY <1>1, <2>1, UptoIsFinite
<1>8. SumFunctionOnSet(takes, 1 .. n) = SumFunction(take)
  <2>1. \A k \in 1 .. n : takes[k] \in Int /\ take[at[k]] = takes[k]
    BY <1>7
  <2>2. DOMAIN take = R
    OBVIOUS
  <2> HIDE DEF takes
  <2>3. SameTerms(takes, 1 .. n, take, R)
    BY <1>a, <2>1 DEF SameTerms
  <2>4. SumFunctionOnSet(takes, 1 .. n) = SumFunctionOnSet(take, R)
    BY <1>a, <2>3, SumCarriedOver
  <2> QED BY <2>2, <2>4 DEF SumFunction
<1>9. SumFunctionOnSet(costs, 1 .. n) = SumFunction(cost)
  <2>1. \A k \in 1 .. n : costs[k] \in Int /\ cost[at[k]] = costs[k]
    <3> SUFFICES ASSUME NEW k \in 1 .. n PROVE costs[k] \in Int /\ cost[at[k]] = costs[k]
      OBVIOUS
    <3>1. costs[k] = price[k] * takes[k] /\ cost[at[k]] = side[at[k]].price * take[at[k]]
      BY <1>2
    <3>2. price[k] = side[at[k]].price /\ takes[k] = take[at[k]] /\ price[k] \in Nat /\ takes[k] \in Nat
      BY <1>7
    <3> HIDE DEF costs, cost, price, takes
    <3> QED BY <3>1, <3>2
  <2>2. DOMAIN cost = R
    OBVIOUS
  <2> HIDE DEF costs, cost
  <2>3. SameTerms(costs, 1 .. n, cost, R)
    BY <1>a, <2>1 DEF SameTerms
  <2>4. SumFunctionOnSet(costs, 1 .. n) = SumFunctionOnSet(cost, R)
    BY <1>a, <2>3, SumCarriedOver
  <2> QED BY <2>2, <2>4 DEF SumFunction
<1>10. SumFunctionOnSet(fill, 1 .. n) = Filled(fills)
  <2>1. \A k \in 1 .. m : Sizes(fills)[k] \in Int /\ fill[k] = Sizes(fills)[k]
    <3>1. \A k \in 1 .. m : k \in 1 .. n
      BY <1>1
    <3> QED BY <1>3, <1>5, <3>1
  <2>2. \A k \in 1 .. n : k > m => fill[k] = 0
    BY <1>1
  <2>3. n \in Nat /\ m \in 0 .. n
    BY <1>1
  <2> HIDE DEF fill
  <2>4. SumFunctionOnSet(fill, 1 .. n) = SumFunctionOnSet(Sizes(fills), 1 .. m)
    BY <2>1, <2>2, <2>3, SumPadded, SMTT(30)
  <2> QED BY <1>5, <2>4 DEF Filled, SumFunction
<1>11. SumFunctionOnSet(pays, 1 .. n) = SumFunction(Notionals(fills))
  <2>1. \A k \in 1 .. m : Notionals(fills)[k] \in Int /\ pays[k] = Notionals(fills)[k]
    <3> SUFFICES ASSUME NEW k \in 1 .. m
                 PROVE  Notionals(fills)[k] \in Int /\ pays[k] = Notionals(fills)[k]
      OBVIOUS
    <3>1. k \in 1 .. n
      BY <1>1
    <3>2. pays[k] = price[k] * fill[k] /\ price[k] = fills[k].price /\ fill[k] = fills[k].size
      BY <1>1, <1>7, <3>1
    <3>3. Notionals(fills)[k] = fills[k].price * fills[k].size
      BY <1>5
    <3>4. fills[k].price \in Nat /\ fills[k].size \in Nat
      BY <1>3
    <3> HIDE DEF pays, price, fill
    <3> QED BY <3>2, <3>3, <3>4
  <2>2. \A k \in 1 .. n : k > m => pays[k] = 0
    <3> SUFFICES ASSUME NEW k \in 1 .. n, k > m PROVE pays[k] = 0
      OBVIOUS
    <3>1. fill[k] = 0 /\ price[k] \in Nat
      BY <1>1, <1>7
    <3>2. pays[k] = price[k] * fill[k]
      OBVIOUS
    <3> HIDE DEF pays, price, fill
    <3> QED BY <3>1, <3>2
  <2>3. n \in Nat /\ m \in 0 .. n
    BY <1>1
  <2> HIDE DEF pays
  <2>4. SumFunctionOnSet(pays, 1 .. n) = SumFunctionOnSet(Notionals(fills), 1 .. m)
    BY <2>1, <2>2, <2>3, SumPadded, SMTT(30)
  <2> QED BY <1>5, <2>4 DEF SumFunction
<1> DEFINE pivot == key[at[m]]
<1>12. s \in Int /\ pivot \in Int
  BY <1>1, <1>2
<1>13. \A k \in 1 .. n : s * price[k] = key[at[k]]
  <2> SUFFICES ASSUME NEW k \in 1 .. n PROVE s * price[k] = key[at[k]]
    OBVIOUS
  <2>1. /\ price[k] = side[at[k]].price /\ price[k] \in Nat
        /\ key[at[k]] = IF order.side = "BUY" THEN side[at[k]].price ELSE -side[at[k]].price
    BY <1>2, <1>7
  <2> HIDE DEF price
  <2> QED BY <2>1
<1>14. \A k \in 1 .. n : \/ s * price[k] = pivot
                         \/ s * price[k] <= pivot /\ takes[k] <= fill[k]
                         \/ s * price[k] >= pivot /\ takes[k] >= fill[k]
  <2> SUFFICES ASSUME NEW k \in 1 .. n
               PROVE  \/ s * price[k] = pivot
                      \/ s * price[k] <= pivot /\ takes[k] <= fill[k]
                      \/ s * price[k] >= pivot /\ takes[k] >= fill[k]
    OBVIOUS
  <2>1. s * price[k] = key[at[k]] /\ key[at[k]] \in Int /\ m \in 1 .. n
    BY <1>1, <1>2, <1>13
  <2>2. CASE k < m
    <3>1. key[at[k]] <= pivot
      BY <1>2, <2>1, <2>2
    <3>2. k \in 1 .. m
      BY <1>1, <2>2
    <3>3. fill[k] = available[at[k]]
      BY <1>1, <2>2, <3>2
    <3>4. takes[k] <= available[at[k]]
      BY <1>2
    <3> HIDE DEF takes, fill, price, pivot, s
    <3> QED BY <2>1, <3>1, <3>3, <3>4
  <2>3. CASE k = m
    <3> HIDE DEF s, price, takes, fill
    <3> QED BY <2>1, <2>3
  <2>4. CASE k > m
    <3>1. key[at[k]] >= pivot
      <4>1. key[at[m]] <= key[at[k]]
        BY <1>1, <1>2, <2>1, <2>4
      <4> QED BY <4>1, <2>1, <1>12
    <3>2. fill[k] = 0
      BY <1>1, <2>4
    <3>3. takes[k] \in Nat
      BY <1>7
    <3>4. takes[k] >= fill[k]
      <4> HIDE DEF takes, fill
      <4> QED BY <3>2, <3>3
    <3> HIDE DEF takes, fill, price, pivot, s
    <3> QED BY <2>1, <3>1, <3>4
  <2> QED BY <1>1, <2>2, <2>3, <2>4
<1>15. s * SumFunctionOnSet(costs, 1 .. n) >= s * SumFunctionOnSet(pays, 1 .. n)
  <2>1. n \in Nat /\ SumFunctionOnSet(takes, 1 .. n) = SumFunctionOnSet(fill, 1 .. n)
    BY <1>1, <1>8, <1>10
  <2>2. \A k \in 1 .. n : price[k] \in Nat /\ takes[k] \in Nat /\ fill[k] \in Nat
    BY <1>7
  <2> HIDE DEF s, price, takes, fill, pivot
  <2>3. s * SumFunctionOnSet([k \in 1 .. n |-> price[k] * takes[k]], 1 .. n)
          >= s * SumFunctionOnSet([k \in 1 .. n |-> price[k] * fill[k]], 1 .. n)
    BY <1>12, <1>14, <2>1, <2>2, Exchange
  <2> QED BY <2>3
<1>16. SumFunction(cost) \in Int /\ SumFunction(Notionals(fills)) \in Int
  <2>1. \A i \in R : cost[i] \in Int
    <3> SUFFICES ASSUME NEW i \in R PROVE side[i].price * take[i] \in Int
      OBVIOUS
    <3> QED BY <1>4
  <2>2. \A k \in 1 .. m : Notionals(fills)[k] \in Int
    <3> SUFFICES ASSUME NEW k \in 1 .. m PROVE fills[k].price * fills[k].size \in Int
      BY <1>5
    <3> QED BY <1>3
  <2>3. DOMAIN cost = R /\ IsFiniteSet(1 .. m)
    BY <1>1, FS_Interval
  <2> HIDE DEF cost
  <2> QED BY <1>2, <1>5, <2>1, <2>2, <2>3, SumType DEF SumFunction
<1>17. s * SumFunction(cost) >= s * SumFunction(Notionals(fills))
  BY <1>9, <1>11, <1>15
<1> HIDE DEF cost
<1> DEFINE C == SumFunction(cost)
           P == SumFunction(Notionals(fills))
<1>18. IF order.side = "BUY" THEN P <= C ELSE P >= C
  <2>1. C \in Int /\ P \in Int /\ s * C >= s * P
    BY <1>16, <1>17
  <2> HIDE DEF C, P
  <2>2. CASE order.side = "BUY"
    BY <2>1, <2>2
  <2>3. CASE order.side # "BUY"
    BY <2>1, <2>3
  <2> QED BY <2>2, <2>3
<1> QED BY <1>18 DEF cost, fills, side, R, size

\* Where the book has no level without size before the order is complete, the
\* result of the loop is what the order is owed.
LEMMA SmoothIsOwed ==
  ASSUME NEW order \in SimulatedOrder, NEW book \in BookType, Smooth(order, book)
  PROVE  MatchingOwes(order, book, TRUE, SimulatedResult(order, book))
<1> DEFINE R == Reachable(order, book)
           n == Cardinality(R)
           at == PlacesOf(order, book)
           size == order.remaining_size
           levels == EligibleLevels(order, book)
           fills == FillsOf(levels, size)
           m == Len(fills)
           left == RemainingBefore(levels, size)[Len(levels) + 1]
           allowed == SumFunctionOnSet(Available(order, book), R)
           r == SimulatedResult(order, book)
<1>1. /\ fills \in Seq(FillTerms) /\ n \in Nat \ {0} /\ m \in 1 .. n
      /\ size \in Nat \ {0} /\ allowed \in Nat
      /\ left = Rest(size, allowed) /\ Filled(fills) = size - left
      /\ \A k \in 1 .. m : fills[k].price = Opposite(order, book)[at[k]].price /\ at[k] \in R
  BY SmoothFills
<1>2. r = [fills |-> fills, remaining_size |-> left, status |-> Classify(fills, left)]
  BY DEF SimulatedResult
<1>3. FillsAtTheBestPrice(order, book, r)
  BY SmoothIsBest
<1>4. \A i \in R : WithinLimit(order, Opposite(order, book)[i].price)
  BY DEF Reachable
<1> HIDE DEF R, n, at, size, levels, fills, m, left, allowed, r
<1>5. left \in Nat
  BY <1>1 DEF Rest
<1>6. fills # << >> /\ DOMAIN fills = 1 .. m
  BY <1>1 DEF m
<1>7. /\ r.fills = fills /\ r.remaining_size = left
      /\ r.status = IF left = 0 THEN "FILLED" ELSE "PARTIALLY_FILLED"
  BY <1>2, <1>6 DEF Classify
<1>8. r \in FillResult
  BY <1>1, <1>2, <1>5, <1>7 DEF FillResult
<1>9. Accounted(order, r)
  <2>1. Filled(fills) + left = size
    BY <1>1, <1>5
  <2> QED BY <1>6, <1>7, <2>1 DEF Accounted, size
<1>10. RespectsTheLimit(order, r)
  BY <1>1, <1>4, <1>6, <1>7 DEF RespectsTheLimit
<1>11. FillsWhatTheBookAllows(order, book, TRUE, r)
  <2>1. Filled(fills) = IF allowed <= size THEN allowed ELSE size
    BY <1>1 DEF Rest
  <2> QED BY <1>7, <2>1 DEF FillsWhatTheBookAllows, allowed, size, R
<1>12. RaisesOnlyOnEmptyLevel(order, book, r)
  BY <1>7 DEF RaisesOnlyOnEmptyLevel
<1> QED BY <1>3, <1>8, <1>9, <1>10, <1>11, <1>12 DEF MatchingOwes, r

\* simulate_fills does all it owes to an order with something left, whatever
\* the book holds and whether or not its latency has passed.
THEOREM SimulateFillsOwes ==
  ASSUME NEW order \in SimulatedOrder, order.remaining_size # 0, NEW book \in BookType,
         NEW effective \in BOOLEAN
  PROVE  MatchingOwes(order, book, effective, SimulateFills(order, book, effective))
<1> DEFINE levels == EligibleLevels(order, book)
           size == order.remaining_size
           R == Reachable(order, book)
           reached == ReachedOf(levels, size)
<1>1. /\ IsFiniteSet(R) /\ Cardinality(R) \in Nat
      /\ levels \in Seq(Level) /\ Len(levels) = Cardinality(R)
      /\ \A i \in R : \E k \in 1 .. Cardinality(R) : PlacesOf(order, book)[k] = i
  BY EligibleLevelsAre
<1>2. levels = << >> <=> R = {}
  <2> HIDE DEF levels, R
  <2>1. R = {} <=> Cardinality(R) = 0
    BY <1>1, FS_EmptySet
  <2> QED BY <1>1, <2>1
<1>3. CASE ~effective \/ R = {}
  <2>1. SimulateFills(order, book, effective) = NoFill(order)
    BY <1>2, <1>3 DEF SimulateFills
  <2> QED BY <1>3, <2>1, NoFillIsOwed
<1>4. CASE effective /\ R # {} /\ \E k \in reached : levels[k].size <= 0
  <2>1. SimulateFills(order, book, effective) = RaisedResult(order)
    BY <1>2, <1>4 DEF SimulateFills, ReachedOf
  <2> QED BY <1>4, <2>1, RaisingIsOwed
<1>5. CASE effective /\ R # {} /\ ~\E k \in reached : levels[k].size <= 0
  <2>1. SimulateFills(order, book, effective) = SimulatedResult(order, book)
    BY <1>2, <1>5 DEF SimulateFills, SimulatedResult, FillsOf, ReachedOf
  <2>2. \A k \in reached : levels[k].size > 0
    <3>1. \A k \in reached : levels[k].size \in Int
      <4>1. \A k \in reached : levels[k] \in Level
        BY <1>1 DEF ReachedOf
      <4> QED BY <4>1 DEF Level
    <3> QED BY <1>5, <3>1
  <2>3. Smooth(order, book)
    BY <1>5, <2>2 DEF Smooth
  <2>4. MatchingOwes(order, book, TRUE, SimulatedResult(order, book))
    BY <2>3, SmoothIsOwed
  <2>5. effective = TRUE
    BY <1>5
  <2> QED BY <2>1, <2>4, <2>5
<1> QED BY <1>3, <1>4, <1>5

\* MatchingIsOwed for every order intent and every book.
THEOREM MatchingAlwaysOwed == MatchSpec => []MatchingIsOwed
<1> DEFINE Inv == /\ trial.order \in SimulatedOrder /\ trial.order.remaining_size # 0
                  /\ trial.book \in BookType /\ trial.effective \in BOOLEAN
                  /\ MatchingIsOwed
<1>1. MatchInit => Inv
  <2> SUFFICES ASSUME MatchInit PROVE Inv
    OBVIOUS
  <2>1. PICK i \in Requests : trial.order = Opened(i)
    BY DEF MatchInit
  <2>2. i \in OrderIntent
    BY MatchingAssumption
  <2>3. Opened(i) \in SimulatedOrder /\ Opened(i).remaining_size # 0
    BY <2>2 DEF Opened, Transition, CreateOrder, OrderIntent, SimulatedOrder, OrderStatus,
                LegalTransitions
  <2>4. trial.book \in BookType /\ trial.effective \in BOOLEAN
    BY MatchingAssumption DEF MatchInit, BookType
  <2> QED BY <2>1, <2>3, <2>4 DEF MatchInit, MatchingIsOwed
<1>2. Inv /\ [Match]_matchVars => Inv'
  <2> SUFFICES ASSUME Inv, [Match]_matchVars PROVE Inv'
    OBVIOUS
  <2>1. CASE Match
    <3>1. MatchingOwes(trial.order, trial.book, trial.effective, matched')
      BY <2>1, SimulateFillsOwes DEF Match
    <3>2. trial' = trial
      BY <2>1 DEF Match
    <3>3. MatchingIsOwed'
      BY <3>1, <3>2 DEF MatchingIsOwed
    <3> QED BY <3>2, <3>3
  <2>2. CASE UNCHANGED matchVars
    BY <2>2 DEF matchVars, MatchingIsOwed
  <2> QED BY <2>1, <2>2
<1>3. Inv => MatchingIsOwed
  OBVIOUS
<1> QED BY <1>1, <1>2, <1>3, PTL DEF MatchSpec

-----------------------------------------------------------------------------
(***************************************************************************)
(* The realtime runner.                                                    *)
(***************************************************************************)
\* The fills, one after the other, fit into n lots: rest[k] is what is left of
\* them before fill k.
Covers(fills, n) ==
  \E rest \in [1 .. Len(fills) + 1 -> 0 .. MaxToken] :
    /\ rest[1] = n
    /\ \A k \in 1 .. Len(fills) : rest[k + 1] = rest[k] - fills[k].size

Bounded ==
  /\ positions \in [Tokens -> 0 .. MaxToken]
  /\ cash \in Nat

Shapes ==
  /\ phase \in {"new", "running", "finished", "failed"}
  /\ phase = "new" => queue = << >>
  /\ calls \in 0 .. MaxCalls
  /\ market \in [Tokens -> Quotes \cup {NoQuote}]
  /\ queue \in Seq(Signal)
  /\ result \in Result \cup {NoResult}
  /\ result # NoResult => queue # << >>
  /\ orders \in Seq(BookedOrder)
  /\ portfolio \in [positions : [Tokens -> Nat], cash : Nat,
                    open_orders : Seq(BookedOrder)]

Synced == result = NoResult => portfolio = Portfolio

\* The portfolio bears n more lots of the order of r.
Bears(r, n) ==
  IF r.order.side = "BUY"
  THEN /\ r.order.price * n <= cash
       /\ positions[r.token] + n <= MaxToken
       /\ \A k \in DOMAIN r.fills : r.fills[k].price <= r.order.price
  ELSE n <= positions[r.token]

Owed ==
  result # NoResult =>
    \E n \in Nat : Covers(result.fills, n) /\ Bears(result, n)

RunInv == Bounded /\ Shapes /\ Synced /\ Owed

-----------------------------------------------------------------------------
(***************************************************************************)
(* Lemmas about fills.                                                     *)
(***************************************************************************)
\* No fills take nothing.
LEMMA CoversNothing == Covers(<< >>, 0)
<1> DEFINE rest == [k \in 1 .. 1 |-> 0]
<1>1. rest \in [1 .. Len(<< >>) + 1 -> 0 .. MaxToken] /\ rest[1] = 0
  BY RunAssumption
<1>2. \A k \in 1 .. Len(<< >>) : rest[k + 1] = rest[k] - << >>[k].size
  OBVIOUS
<1> HIDE DEF rest
<1> QED
  BY <1>1, <1>2 DEF Covers

\* Taking the first fill off leaves fills that fit into what it left.
LEMMA CoversTail ==
  ASSUME NEW fills \in Seq(FillTerms), fills # << >>, NEW n \in Nat,
         Covers(fills, n)
  PROVE  /\ Head(fills) = fills[1] /\ fills[1] \in FillTerms
         /\ Head(fills).size <= n
         /\ Covers(Tail(fills), n - Head(fills).size)
<1>1. PICK rest \in [1 .. Len(fills) + 1 -> 0 .. MaxToken] :
        /\ rest[1] = n
        /\ \A k \in 1 .. Len(fills) : rest[k + 1] = rest[k] - fills[k].size
  BY DEF Covers
<1>2. /\ Len(fills) \in Nat /\ Len(fills) > 0
      /\ Head(fills) = fills[1] /\ fills[1] \in FillTerms
      /\ Tail(fills) \in Seq(FillTerms)
      /\ Len(Tail(fills)) = Len(fills) - 1
      /\ \A k \in 1 .. Len(fills) - 1 : Tail(fills)[k] = fills[k + 1]
  OBVIOUS
<1>3. rest[2] = n - Head(fills).size /\ rest[2] \in 0 .. MaxToken
  BY <1>1, <1>2
<1>4. Head(fills).size <= n
  BY <1>2, <1>3, RunAssumption DEF FillTerms
<1> DEFINE left == [k \in 1 .. Len(fills) |-> rest[k + 1]]
<1>5. left \in [1 .. Len(Tail(fills)) + 1 -> 0 .. MaxToken]
  BY <1>2
<1>6. left[1] = n - Head(fills).size
  BY <1>2, <1>3
<1>7. \A k \in 1 .. Len(Tail(fills)) : left[k + 1] = left[k] - Tail(fills)[k].size
  BY <1>1, <1>2
<1> HIDE DEF left
<1>8. Covers(Tail(fills), n - Head(fills).size)
  BY <1>5, <1>6, <1>7 DEF Covers
<1> QED
  BY <1>2, <1>4, <1>8

\* Fills that add up to at most n fit into n lots.
LEMMA SumCovers ==
  ASSUME NEW fills \in Seq(FillTerms), NEW n \in 0 .. MaxToken, Filled(fills) <= n
  PROVE  Covers(fills, n)
<1> DEFINE m == Len(fills)
           sizes == Sizes(fills)
           S(k) == SumFunctionOnSet(sizes, 1 .. k)
           rest == [k \in 1 .. m + 1 |-> n - S(k - 1)]
<1>1. m \in Nat /\ DOMAIN fills = 1 .. m /\ \A k \in 1 .. m : fills[k] \in FillTerms
  OBVIOUS
<1>2. DOMAIN sizes = 1 .. m /\ \A k \in 1 .. m : sizes[k] = fills[k].size /\ sizes[k] \in Nat
  BY <1>1 DEF Sizes, FillTerms
<1>3. Filled(fills) = S(m)
  BY <1>2 DEF Filled, SumFunction
<1> HIDE DEF m, sizes
<1>4. \A k \in 0 .. m : S(k) \in Nat /\ S(k) <= n
  <2> SUFFICES ASSUME NEW k \in 0 .. m PROVE S(k) \in Nat /\ S(k) <= n
    OBVIOUS
  <2>1. /\ IsFiniteSet(1 .. k) /\ IsFiniteSet(1 .. m) /\ 1 .. k \in SUBSET (1 .. m)
        /\ \A j \in 1 .. k : sizes[j] \in Nat
    BY <1>1, <1>2, UptoIsFinite
  <2>2. S(k) \in Nat /\ S(m) \in Nat
    BY <1>2, <2>1, SumPositive
  <2>3. S(k) <= S(m)
    BY <1>2, <2>1, SumPart
  <2> QED BY <1>3, <2>2, <2>3
<1>5. rest \in [1 .. m + 1 -> 0 .. MaxToken]
  <2>1. \A k \in 1 .. m + 1 : n - S(k - 1) \in 0 .. MaxToken
    <3> SUFFICES ASSUME NEW k \in 1 .. m + 1 PROVE n - S(k - 1) \in 0 .. MaxToken
      OBVIOUS
    <3>1. k - 1 \in 0 .. m
      BY <1>1
    <3>2. S(k - 1) \in Nat /\ S(k - 1) <= n
      BY <1>4, <3>1
    <3> HIDE DEF S
    <3> QED BY <3>2, RunAssumption
  <2> QED BY <2>1
<1>6. rest[1] = n
  <2>1. 1 - 1 = 0 /\ 1 .. 0 = {} /\ 1 \in 1 .. m + 1
    BY <1>1
  <2>2. S(0) = 0
    BY <2>1, SumEmpty
  <2> QED BY <2>1, <2>2
<1>7. \A k \in 1 .. m : rest[k + 1] = rest[k] - fills[k].size
  <2> SUFFICES ASSUME NEW k \in 1 .. m PROVE rest[k + 1] = rest[k] - fills[k].size
    OBVIOUS
  <2>1. /\ k - 1 \in Nat /\ (k - 1) + 1 = k /\ (k + 1) - 1 = k
        /\ k \in 1 .. m + 1 /\ k + 1 \in 1 .. m + 1 /\ k - 1 \in 0 .. m /\ k \in 0 .. m
    BY <1>1
  <2>2. \A j \in 1 .. (k - 1) + 1 : sizes[j] \in Int
    BY <1>1, <1>2, <2>1
  <2>3. S((k - 1) + 1) = S(k - 1) + sizes[(k - 1) + 1]
    BY <2>1, <2>2, SumUpto
  <2>4. S(k) = S(k - 1) + fills[k].size /\ S(k - 1) \in Nat /\ fills[k].size \in Nat
    BY <1>2, <1>4, <2>1, <2>3
  <2>5. rest[k + 1] = n - S(k) /\ rest[k] = n - S(k - 1)
    BY <2>1
  <2> HIDE DEF rest, S
  <2> QED BY <2>4, <2>5
<1> QED BY <1>5, <1>6, <1>7 DEF Covers, m

\* What EngineAssumption says of an order that passed the risk checks.
LEMMA EngineKeeps ==
  ASSUME RunInv, NEW t \in Tokens, NEW intent \in OrderIntent,
         intent.price \in 0 .. One, intent.size \in 1 .. MaxToken
  PROVE  LET o == Outcome(t, intent) IN
         /\ o \in FillResult
         /\ Covers(o.fills, intent.size)
         /\ intent.side = "BUY" =>
              \A k \in DOMAIN o.fills : o.fills[k].price <= intent.price
         /\ o.status \notin {"FILLED", "RAISED"} => o.remaining_size > 0
<1> DEFINE o == Outcome(t, intent)
           order == OpenOrder(intent)
<1>1. /\ intent.side \in OrderSide
      /\ intent = [side |-> intent.side, price |-> intent.price, size |-> intent.size]
  BY DEF OrderIntent
<1>2. market[t] \in Quotes \cup {NoQuote}
  BY DEF RunInv, Shapes
<1>3. o \in FillResult /\ Accounted(order, o) /\ RespectsTheLimit(order, o)
  BY <1>1, <1>2, EngineAssumption DEF Outcome, SnapshotFor
<1>4. /\ order.side = intent.side /\ order.price = intent.price
      /\ order.remaining_size = intent.size
  BY DEF OpenOrder, Transition, CreateOrder
<1> HIDE DEF o, order
<1>5. o.fills \in Seq(FillTerms) /\ o.remaining_size \in Nat
  BY <1>3 DEF FillResult
<1>6. intent.size \in 0 .. MaxToken /\ intent.size \in Nat
  BY RunAssumption
<1>7. Covers(o.fills, intent.size)
  <2>1. CASE o.status = "RAISED"
    <3>1. o.fills = << >>
      BY <1>3, <2>1 DEF Accounted
    <3>2. Filled(o.fills) = 0
      BY <3>1, NothingFilled
    <3> QED BY <1>5, <1>6, <3>2, SumCovers
  <2>2. CASE o.status # "RAISED"
    <3>1. Filled(o.fills) + o.remaining_size = intent.size
      BY <1>3, <1>4, <2>2 DEF Accounted
    <3>2. Filled(o.fills) \in Int
      BY <1>5, FilledType
    <3>3. Filled(o.fills) <= intent.size
      BY <1>5, <1>6, <3>1, <3>2
    <3> QED BY <1>5, <1>6, <3>3, SumCovers
  <2> QED BY <2>1, <2>2
<1>8. intent.side = "BUY" => \A k \in DOMAIN o.fills : o.fills[k].price <= intent.price
  BY <1>3, <1>4 DEF RespectsTheLimit, WithinLimit
<1>9. o.status \notin {"FILLED", "RAISED"} => o.remaining_size > 0
  BY <1>3, <1>5 DEF Accounted
<1> QED BY <1>3, <1>7, <1>8, <1>9 DEF o

-----------------------------------------------------------------------------
(***************************************************************************)
(* The submission of an order.                                             *)
(***************************************************************************)
\* An order that the risk checks let through fits into the portfolio.
LEMMA AcceptedFits ==
  ASSUME RunInv, result = NoResult, NEW t \in Tokens,
         NEW intent \in OrderIntent, Decision(t, intent) # "REJECT"
  PROVE  /\ intent.size \in 1 .. MaxToken
         /\ intent.side = "BUY" => /\ intent.price * intent.size <= cash
                                  /\ positions[t] + intent.size <= MaxToken
         /\ intent.side = "SELL" => intent.size <= positions[t]
<1> DEFINE L == LimitsFor(t)
           C == ConstraintsFor(t)
<1>1. portfolio = Portfolio
  BY DEF RunInv, Synced
<1>2. /\ L.cash_available = cash
      /\ L.token_position = positions[t]
      /\ L.current_token_position = positions[t]
      /\ L.max_token_position = MaxToken
  BY <1>1 DEF LimitsFor, Portfolio
<1>3. positions[t] \in Nat /\ MaxToken \in Nat /\ cash \in Nat
  BY RunAssumption DEF RunInv, Bounded
<1>4. intent.size \in Nat /\ intent.size > 0 /\ intent.price \in Nat
  BY DEF OrderIntent
<1> HIDE DEF L, C
<1>5. HardReasons(intent, C, L) = {}
  BY DEF Decision, ApplyRiskChecks, L, C
<1>6. /\ "INSUFFICIENT_CASH" \in ReasonCodes
      /\ "INSUFFICIENT_POSITION" \in ReasonCodes
      /\ "MAX_TOKEN_POSITION_EXCEEDED" \in ReasonCodes
  BY DEF ReasonCodes
<1>7. ~(L.current_token_position + intent.size > L.max_token_position)
  BY <1>5, <1>6 DEF HardReasons
<1>8. ~(intent.side = "BUY" /\ Notional(intent) > L.cash_available)
  BY <1>5, <1>6 DEF HardReasons
<1>9. ~(intent.side = "SELL" /\ intent.size > L.token_position)
  BY <1>5, <1>6 DEF HardReasons
<1>10. positions[t] + intent.size <= MaxToken
  BY <1>2, <1>3, <1>4, <1>7
<1>11. intent.size \in 1 .. MaxToken
  BY <1>3, <1>4, <1>10
<1>12. intent.side = "BUY" => Notional(intent) <= cash
  <2>1. intent.price * intent.size \in Nat
    BY <1>4
  <2> QED
    BY <1>2, <1>3, <1>8, <2>1 DEF Notional
<1>13. intent.side = "SELL" => intent.size <= positions[t]
  BY <1>2, <1>3, <1>4, <1>9
<1> QED
  BY <1>10, <1>11, <1>12, <1>13 DEF Notional

\* What a submission returns is a result, and the portfolio bears its fills.
LEMMA SubmissionBears ==
  ASSUME RunInv, result = NoResult, NEW t \in Tokens, NEW intent,
         ~Raises(t, intent)
  PROVE  /\ SubmissionResult(t, intent) \in Result
         /\ \E n \in Nat : /\ Covers(SubmissionResult(t, intent).fills, n)
                           /\ Bears(SubmissionResult(t, intent), n)
<1> DEFINE r == SubmissionResult(t, intent)
           o == Outcome(t, intent)
<1>1. intent \in OrderIntent /\ intent.price \in 0 .. One
  BY SizingAssumption DEF Raises, OrderIntent
<1>2. /\ intent.side \in OrderSide /\ intent.price \in Nat
      /\ intent.size \in Nat \ {0}
      /\ intent = [side |-> intent.side, price |-> intent.price,
                   size |-> intent.size]
  BY <1>1 DEF OrderIntent
<1>3. positions[t] \in Nat /\ cash \in Nat
  BY DEF RunInv, Bounded
<1>4. CASE Decision(t, intent) = "REJECT"
  <2>1. r = [token |-> t, fills |-> << >>,
             order |-> Transition(CreateOrder(intent), "REJECTED")]
    BY <1>4 DEF SubmissionResult
  <2>2. Transition(CreateOrder(intent), "REJECTED") \in SimulatedOrder
    BY <1>2 DEF Transition, CreateOrder, SimulatedOrder, OrderStatus
  <2>3. r \in Result
    BY <2>1, <2>2 DEF Result
  <2>4. r.order.price \in Nat
    BY <2>1, <2>2 DEF SimulatedOrder
  <2>5. Bears(r, 0)
    <3>1. r.token = t /\ r.fills = << >>
      BY <2>1
    <3>2. r.order.price * 0 = 0
      BY <2>4
    <3>3. DOMAIN r.fills = {}
      BY <3>1
    <3>4. positions[t] + 0 <= MaxToken
      BY RunAssumption DEF RunInv, Bounded
    <3> QED
      BY <1>3, <3>1, <3>2, <3>3, <3>4 DEF Bears
  <2> QED
    BY <2>1, <2>3, <2>5, CoversNothing
<1>5. CASE Decision(t, intent) # "REJECT"
  <2>1. /\ intent.size \in 1 .. MaxToken
        /\ intent.side = "BUY" => /\ intent.price * intent.size <= cash
                                  /\ positions[t] + intent.size <= MaxToken
        /\ intent.side = "SELL" => intent.size <= positions[t]
    BY <1>1, <1>5, AcceptedFits
  <2>3. /\ o \in FillResult
        /\ Covers(o.fills, intent.size)
        /\ intent.side = "BUY" =>
             \A k \in DOMAIN o.fills : o.fills[k].price <= intent.price
    BY <1>1, <2>1, EngineKeeps
  <2> HIDE DEF o
  <2>4. r = [token |-> t, order |-> OrderAfter(intent, o), fills |-> o.fills]
    BY <1>5 DEF SubmissionResult, o
  <2>5. /\ OrderAfter(intent, o) \in SimulatedOrder
        /\ OrderAfter(intent, o).side = intent.side
        /\ OrderAfter(intent, o).price = intent.price
    BY <1>2, <2>3 DEF OrderAfter, OpenOrder, CreateOrder, Transition,
       MarkFilled, MarkPartiallyFilled, SimulatedOrder, OrderStatus, FillResult
  <2>6. r \in Result
    BY <2>3, <2>4, <2>5 DEF Result, FillResult
  <2>7. r.token = t /\ r.order = OrderAfter(intent, o) /\ r.fills = o.fills
    BY <2>4
  <2> HIDE DEF r
  <2>8. Bears(r, intent.size)
    BY <1>2, <2>1, <2>3, <2>5, <2>7 DEF Bears, OrderSide
  <2> QED
    BY <1>2, <2>3, <2>6, <2>7, <2>8 DEF r
<1> QED
  BY <1>4, <1>5

-----------------------------------------------------------------------------
(***************************************************************************)
(* RunInv is inductive.                                                    *)
(***************************************************************************)
LEMMA InitRunInv == Init => RunInv
<1> SUFFICES ASSUME Init PROVE RunInv
  OBVIOUS
<1>1. Bounded
  BY RunAssumption DEF Init, Bounded
<1>2. Shapes
  BY RunAssumption DEF Init, Shapes, Portfolio
<1> QED
  BY <1>1, <1>2 DEF RunInv, Synced, Owed, Init

\* Calling the strategy changes what is to be dispatched and nothing else.
LEMMA CallsKeep ==
  ASSUME RunInv,
         OnInit \/ OnMarketEvent \/ OnClock \/ OnFinish
  PROVE  RunInv'
<1>1. result = NoResult
  BY DEF RunInv, Shapes, OnInit, OnMarketEvent, OnClock, OnFinish, Waiting
<1>2. queue' \in Seq(Signal)
  BY RunAssumption DEF RunInv, Shapes, OnInit, OnMarketEvent, OnClock,
     OnFinish, CallStrategy
<1>3. market' \in [Tokens -> Quotes \cup {NoQuote}]
  BY DEF RunInv, Shapes, OnInit, OnMarketEvent, OnClock, OnFinish
<1>4. UNCHANGED <<portfolio, positions, cash, orders, result>>
  BY DEF OnInit, OnMarketEvent, OnClock, OnFinish, records
<1>5. /\ phase' \in {"running", "finished"}
      /\ calls' \in 0 .. MaxCalls
  BY RunAssumption DEF RunInv, Shapes, OnInit, OnMarketEvent, OnClock,
     OnFinish, Waiting, CallStrategy
<1>6. Bounded' /\ Shapes' /\ Synced' /\ Owed'
  BY <1>1, <1>2, <1>3, <1>4, <1>5
  DEF RunInv, Bounded, Shapes, Synced, Owed, Portfolio
<1> QED
  BY <1>6 DEF RunInv

\* A signal that needs no order, and a run that fails.
LEMMA DropsKeep ==
  ASSUME RunInv, SkipSignal \/ RunFails
  PROVE  RunInv'
<1>1. queue # << >> /\ result = NoResult /\ phase = "running"
  BY DEF SkipSignal, RunFails, Dispatching
<1>2. Tail(queue) \in Seq(Signal) /\ << >> \in Seq(Signal)
  BY <1>1 DEF RunInv, Shapes
<1>3. queue' = Tail(queue) \/ queue' = << >>
  BY DEF SkipSignal, RunFails
<1>4. /\ UNCHANGED <<market, portfolio, positions, cash, orders, result, calls>>
      /\ phase' \in {"running", "failed"}
  BY <1>1 DEF SkipSignal, RunFails, records
<1>5. Bounded' /\ Shapes' /\ Synced' /\ Owed'
  BY <1>1, <1>2, <1>3, <1>4
  DEF RunInv, Bounded, Shapes, Synced, Owed, Portfolio
<1> QED
  BY <1>5 DEF RunInv

\* Passing a signal on to the exchange keeps the invariant.
LEMMA SubmitKeeps ==
  ASSUME RunInv, SubmitSignal
  PROVE  RunInv'
<1> DEFINE t == SignalInDispatch.token
<1>1. queue # << >> /\ result = NoResult /\ phase = "running"
  BY DEF SubmitSignal, Dispatching
<1>2. t \in Tokens
  <2>1. Head(queue) \in Signal
    BY <1>1 DEF RunInv, Shapes
  <2> QED
    BY <2>1 DEF SignalInDispatch, Signal
<1>3. PICK intent, r : /\ ~Raises(t, intent)
                       /\ r = SubmissionResult(t, intent)
                       /\ result' = r
                       /\ orders' = BookedOrders(r)
  BY DEF SubmitSignal
<1>4. UNCHANGED <<phase, market, portfolio, positions, cash, queue, calls>>
  BY DEF SubmitSignal
<1> HIDE DEF t
<1>5. /\ r \in Result
      /\ \E n \in Nat : Covers(r.fills, n) /\ Bears(r, n)
  BY <1>1, <1>2, <1>3, SubmissionBears
<1>6. result' # NoResult
  BY <1>3, <1>5, RunAssumption
<1>7. orders' \in Seq(BookedOrder)
  <2>1. [token |-> r.token, order |-> r.order] \in BookedOrder
    BY <1>5 DEF Result, BookedOrder
  <2>2. orders \in Seq(BookedOrder)
    BY DEF RunInv, Shapes
  <2> QED
    BY <1>3, <2>1, <2>2 DEF BookedOrders
<1>8. Bounded'
  BY <1>4 DEF RunInv, Bounded
<1>9. Shapes'
  BY <1>1, <1>3, <1>4, <1>5, <1>7 DEF RunInv, Shapes
<1>10. Synced'
  BY <1>6 DEF Synced
<1>11. Owed'
  BY <1>3, <1>4, <1>5 DEF Owed, Bears
<1> QED
  BY <1>8, <1>9, <1>10, <1>11 DEF RunInv

\* The feedback of an order, and of a fill, ends with a portfolio the
\* strategy sees.
LEMMA OrderFeedbackKeeps ==
  ASSUME RunInv, FeedbackOrder
  PROVE  RunInv'
<1>1. queue # << >> /\ Tail(queue) \in Seq(Signal)
  BY DEF RunInv, Shapes, FeedbackOrder
<1>2. /\ UNCHANGED <<phase, market, positions, cash, orders, calls>>
      /\ result' = NoResult /\ portfolio' = Portfolio /\ queue' = Tail(queue)
  BY DEF FeedbackOrder, records
<1>3. Portfolio \in [positions : [Tokens -> Nat], cash : Nat,
                     open_orders : Seq(BookedOrder)]
  BY RunAssumption DEF RunInv, Bounded, Shapes, Portfolio
<1>4. phase # "new"
  BY <1>1 DEF RunInv, Shapes
<1>5. Bounded' /\ Shapes' /\ Synced' /\ Owed'
  BY <1>1, <1>2, <1>3, <1>4
  DEF RunInv, Bounded, Shapes, Synced, Owed, Portfolio
<1> QED
  BY <1>5 DEF RunInv

\* Paying s lots at a price within the limit leaves the money for the rest.
LEMMA Affordable ==
  ASSUME NEW p \in Nat, NEW limit \in Nat, p <= limit,
         NEW s \in Nat, NEW n \in Nat, s <= n,
         NEW c \in Nat, limit * n <= c
  PROVE  /\ c - p * s \in Nat
         /\ limit * (n - s) <= c - p * s
<1>1. p * s \in Nat /\ limit * s \in Nat /\ limit * n \in Nat
  OBVIOUS
<1>2. p * s <= limit * s
  OBVIOUS
<1>3. limit * (n - s) = limit * n - limit * s
  OBVIOUS
<1>4. limit * (n - s) \in Nat
  OBVIOUS
<1> QED
  BY <1>1, <1>2, <1>3, <1>4

\* Feeding a fill back to the portfolio keeps the invariant.
LEMMA FillFeedbackKeeps ==
  ASSUME RunInv, FeedbackFill
  PROVE  RunInv'
<1> DEFINE fill == Head(result.fills)
           t == result.token
           o == result.order
<1>1. /\ result # NoResult /\ result \in Result /\ result.fills # << >>
      /\ result.fills \in Seq(FillTerms) /\ t \in Tokens
      /\ o \in SimulatedOrder
  BY DEF FeedbackFill, RunInv, Shapes, Result
<1>2. PICK n \in Nat : Covers(result.fills, n) /\ Bears(result, n)
  BY <1>1 DEF RunInv, Owed
<1>3. /\ fill = result.fills[1] /\ fill \in FillTerms /\ fill.size <= n
      /\ Covers(Tail(result.fills), n - fill.size)
  BY <1>1, <1>2, CoversTail
<1>4. fill.price \in Nat /\ fill.size \in Nat
  BY <1>3 DEF FillTerms
<1>5. o.price \in Nat /\ o.side \in {"BUY", "SELL"}
  BY <1>1 DEF SimulatedOrder, OrderSide
<1>6. /\ positions \in [Tokens -> 0 .. MaxToken] /\ cash \in Nat
      /\ positions[t] \in 0 .. MaxToken /\ MaxToken \in Nat
  BY <1>1, RunAssumption DEF RunInv, Bounded
<1>7. /\ positions' = [positions EXCEPT ![t] = PositionAfter(o.side, t, fill)]
      /\ cash' = CashAfter(o.side, fill)
      /\ UNCHANGED <<phase, market, orders, calls>>
      /\ portfolio' = Portfolio'
  BY DEF FeedbackFill
<1>8. \/ result' = NoResult /\ queue' = Tail(queue)
      \/ /\ result' = [result EXCEPT !.fills = Tail(@)]
         /\ queue' = queue
  BY DEF FeedbackFill
<1>9. PICK m \in Nat : m = n - fill.size
  BY <1>3, <1>4
<1>10. t = result.token /\ o = result.order /\ Covers(Tail(result.fills), m)
  BY <1>3, <1>9
<1> HIDE DEF fill, t, o
<1>11. /\ positions' \in [Tokens -> 0 .. MaxToken] /\ cash' \in Nat
       /\ IF o.side = "BUY"
          THEN /\ o.price * m <= cash'
               /\ positions'[t] + m <= MaxToken
               /\ \A k \in DOMAIN Tail(result.fills) :
                    Tail(result.fills)[k].price <= o.price
          ELSE m <= positions'[t]
  <2>1. CASE o.side = "BUY"
    <3>1. /\ o.price * n <= cash
          /\ positions[t] + n <= MaxToken
          /\ \A k \in DOMAIN result.fills : result.fills[k].price <= o.price
      BY <1>2, <1>10, <2>1 DEF Bears
    <3>2. 1 \in DOMAIN result.fills
      BY <1>1
    <3>3. fill.price <= o.price
      BY <1>3, <3>1, <3>2
    <3>4. /\ cash - fill.price * fill.size \in Nat
          /\ o.price * m <= cash - fill.price * fill.size
      BY <1>3, <1>4, <1>5, <1>6, <1>9, <3>1, <3>3, Affordable
    <3>5. cash' = cash - fill.price * fill.size
      BY <1>7, <2>1 DEF CashAfter
    <3>6. positions' = [positions EXCEPT ![t] = positions[t] + fill.size]
      BY <1>7, <2>1 DEF PositionAfter
    <3>7. positions[t] + fill.size \in 0 .. MaxToken
      BY <1>3, <1>4, <1>6, <3>1
    <3>8. positions' \in [Tokens -> 0 .. MaxToken]
      BY <1>6, <3>6, <3>7
    <3>9. positions'[t] + m <= MaxToken
      BY <1>1, <1>4, <1>6, <1>9, <3>1, <3>6
    <3>10. \A k \in DOMAIN Tail(result.fills) :
             Tail(result.fills)[k].price <= o.price
      <4>1. \A k \in DOMAIN Tail(result.fills) :
              /\ k + 1 \in DOMAIN result.fills
              /\ Tail(result.fills)[k] = result.fills[k + 1]
        BY <1>1
      <4> QED
        BY <3>1, <4>1
    <3>11. cash' \in Nat /\ o.price * m <= cash'
      BY <3>4, <3>5
    <3> QED
      BY <2>1, <3>8, <3>9, <3>10, <3>11
  <2>2. CASE o.side = "SELL"
    <3>1. n <= positions[t]
      BY <1>2, <1>10, <2>2 DEF Bears
    <3>2. cash' = cash + fill.price * fill.size
      BY <1>7, <2>2 DEF CashAfter
    <3>3. fill.price * fill.size \in Nat
      BY <1>4
    <3>4. cash' \in Nat
      BY <1>6, <3>2, <3>3
    <3>5. positions' = [positions EXCEPT ![t] = positions[t] - fill.size]
      BY <1>7, <2>2 DEF PositionAfter
    <3>6. positions[t] - fill.size \in 0 .. MaxToken
      BY <1>3, <1>4, <1>6, <3>1
    <3>7. positions' \in [Tokens -> 0 .. MaxToken]
      BY <1>6, <3>5, <3>6
    <3>8. m <= positions'[t]
      BY <1>1, <1>4, <1>6, <1>9, <3>1, <3>5
    <3> QED
      BY <2>2, <3>4, <3>7, <3>8
  <2> QED
    BY <1>5, <2>1, <2>2
<1>12. Bounded'
  BY <1>11 DEF Bounded
<1>13. queue # << >> /\ queue \in Seq(Signal) /\ phase # "new"
  BY <1>1 DEF RunInv, Shapes
<1>14. Portfolio' \in [positions : [Tokens -> Nat], cash : Nat,
                       open_orders : Seq(BookedOrder)]
  <2>1. positions' \in [Tokens -> Nat]
    BY <1>6, <1>11
  <2> QED
    BY <1>7, <1>11, <2>1 DEF Portfolio, RunInv, Shapes
<1>15. Synced'
  BY <1>7 DEF Synced
<1>16. CASE result' = NoResult /\ queue' = Tail(queue)
  <2>1. Tail(queue) \in Seq(Signal)
    BY <1>13
  <2>2. Shapes'
    BY <1>7, <1>13, <1>14, <1>16, <2>1 DEF RunInv, Shapes
  <2>3. Owed'
    BY <1>16 DEF Owed
  <2> QED
    BY <1>12, <1>15, <2>2, <2>3 DEF RunInv
<1>17. CASE result' = [result EXCEPT !.fills = Tail(@)] /\ queue' = queue
  <2>1. /\ result'.token = t /\ result'.order = o
        /\ result'.fills = Tail(result.fills)
    BY <1>1, <1>10, <1>17 DEF Result
  <2>2. Tail(result.fills) \in Seq(FillTerms)
    BY <1>1
  <2>3. result' \in Result
    BY <1>1, <1>17, <2>2 DEF Result
  <2>4. Shapes'
    BY <1>7, <1>13, <1>14, <1>17, <2>3 DEF RunInv, Shapes
  <2>5. Covers(result'.fills, m)
    BY <1>10, <2>1
  <2>6. Bears(result, m)'
    BY <1>11, <2>1 DEF Bears
  <2>7. Owed'
    BY <1>9, <2>5, <2>6 DEF Owed
  <2> QED
    BY <1>12, <1>15, <2>4, <2>7 DEF RunInv
<1> QED
  BY <1>8, <1>16, <1>17

-----------------------------------------------------------------------------
\* Every step of the runner keeps the invariant.
LEMMA NextRunInv == RunInv /\ [Next]_vars => RunInv'
<1> SUFFICES ASSUME RunInv, [Next]_vars
             PROVE  RunInv'
  OBVIOUS
<1>1. CASE OnInit \/ OnMarketEvent \/ OnClock \/ OnFinish
  BY <1>1, CallsKeep
<1>2. CASE SkipSignal \/ RunFails
  BY <1>2, DropsKeep
<1>3. CASE SubmitSignal
  BY <1>3, SubmitKeeps
<1>4. CASE FeedbackFill
  BY <1>4, FillFeedbackKeeps
<1>5. CASE FeedbackOrder
  BY <1>5, OrderFeedbackKeeps
<1>6. CASE UNCHANGED vars
  BY <1>6 DEF vars, records, RunInv, Bounded, Shapes, Synced, Owed, Bears,
     Portfolio
<1> QED
  BY <1>1, <1>2, <1>3, <1>4, <1>5, <1>6 DEF Next, Dispatch

\* What is owed and what is bounded, in every state of every run.
THEOREM RunnerInvariant == Spec => []RunInv
<1> QED
  BY InitRunInv, NextRunInv, PTL DEF Spec

\* A strategy that overdraws nothing: cash never goes below zero and no token
\* is ever sold short, whatever the strategy returns and however the signals
\* of one call compete for the same cash.
THEOREM StaysSolvent == Spec => []Solvent
<1>1. RunInv => Solvent
  BY RunAssumption DEF RunInv, Bounded, Solvent
<1> QED
  BY <1>1, RunnerInvariant, PTL

\* No position ever exceeds max_token_position, fill by fill.
THEOREM StaysWithinTokenLimit == Spec => []WithinTokenLimit
<1>1. RunInv => WithinTokenLimit
  BY RunAssumption DEF RunInv, Bounded, WithinTokenLimit
<1> QED
  BY <1>1, RunnerInvariant, PTL

\* Between two orders the context that sizes the next one shows exactly the
\* cash, positions and open orders that the fills so far have left.
THEOREM ContextInSync == Spec => []StrategySeesThePortfolio
<1>1. RunInv => StrategySeesThePortfolio
  BY DEF RunInv, Synced, StrategySeesThePortfolio
<1> QED
  BY <1>1, RunnerInvariant, PTL

\* The records the runner keeps are well formed in every state.
THEOREM RunnerTypeCorrect == Spec => []TypeOK
<1>1. RunInv => TypeOK
  <2> SUFFICES ASSUME RunInv PROVE TypeOK
    OBVIOUS
  <2>1. positions \in [Tokens -> Int] /\ cash \in Int
    BY RunAssumption DEF RunInv, Bounded
  <2>2. portfolio \in [positions : [Tokens -> Int], cash : Int,
                       open_orders : Seq(BookedOrder)]
    BY DEF RunInv, Shapes
  <2> QED
    BY <2>1, <2>2 DEF RunInv, Shapes, TypeOK
<1> QED
  BY <1>1, RunnerInvariant, PTL

-----------------------------------------------------------------------------
(***************************************************************************)
(* The order book the strategy sees, and where an order takes a position.  *)
(***************************************************************************)
Working(entry) ==
  entry.order.status \in {"OPEN", "PARTIALLY_FILLED"} /\ entry.order.remaining_size > 0

BooksWork ==
  /\ \A i \in DOMAIN orders : Working(orders[i])
  /\ \A i \in DOMAIN portfolio.open_orders : Working(portfolio.open_orders[i])

\* What the fills still to come leave short of the target, never past it.
Approaches(r, target, n) ==
  IF r.order.side = "BUY" THEN positions[r.token] + n <= target
                          ELSE positions[r.token] - n >= target

Aimed ==
  result # NoResult =>
    /\ result.token = SignalInDispatch.token
    /\ SignalInDispatch.kind = "position" =>
         \E n \in Nat : /\ Covers(result.fills, n)
                        /\ Approaches(result, SignalInDispatch.target, n)

\* An order that is booked has something left to fill.
LEMMA BookedWorks ==
  ASSUME RunInv, result = NoResult, NEW t \in Tokens, NEW intent,
         ~Raises(t, intent),
         SubmissionResult(t, intent).order.status
           \notin {"CANCELED", "FILLED", "REJECTED", "REPLACED"}
  PROVE  Working([token |-> t, order |-> SubmissionResult(t, intent).order])
<1> DEFINE o == Outcome(t, intent)
<1>1. /\ intent \in OrderIntent /\ intent.price \in 0 .. One
      /\ intent.side \in OrderSide /\ intent.size \in Nat \ {0}
      /\ intent = [side |-> intent.side, price |-> intent.price, size |-> intent.size]
  BY SizingAssumption DEF Raises, OrderIntent
<1>2. Decision(t, intent) # "REJECT"
  <2>1. Transition(CreateOrder(intent), "REJECTED").status = "REJECTED"
    BY <1>1 DEF Transition, CreateOrder
  <2> QED
    BY <2>1 DEF SubmissionResult
<1>3. intent.size \in 1 .. MaxToken /\ market[t] \in Quotes \cup {NoQuote}
  BY <1>1, <1>2, AcceptedFits DEF RunInv, Shapes
<1>4. o \in FillResult /\ (o.status # "FILLED" => o.remaining_size > 0)
  <2>1. o.status # "RAISED"
    BY <1>2 DEF Raises
  <2> QED BY <1>1, <1>3, <2>1, EngineKeeps
<1> HIDE DEF o
<1>5. SubmissionResult(t, intent).order = OrderAfter(intent, o)
  BY <1>2 DEF SubmissionResult, o
<1>6. /\ OpenOrder(intent).status = "OPEN" /\ OpenOrder(intent).remaining_size > 0
      /\ OpenOrder(intent) \in SimulatedOrder
  <2>1. OpenOrder(intent) =
          [side |-> intent.side, price |-> intent.price, size |-> intent.size,
           remaining_size |-> intent.size, status |-> "OPEN"]
    <3> DEFINE ord(st) ==
          [side |-> intent.side, price |-> intent.price, size |-> intent.size,
           remaining_size |-> intent.size, status |-> st]
    <3>1. \A x, y : [ord(x) EXCEPT !.status = y] = ord(y)
      OBVIOUS
    <3>2. CreateOrder(intent) = ord("PENDING")
      BY DEF CreateOrder
    <3> HIDE DEF ord
    <3>3. Transition(ord("PENDING"), "ACCEPTED") = ord("ACCEPTED")
      BY <3>1 DEF Transition
    <3>4. Transition(ord("ACCEPTED"), "OPEN") = ord("OPEN")
      BY <3>1 DEF Transition
    <3>5. OpenOrder(intent) = ord("OPEN")
      BY <3>2, <3>3, <3>4 DEF OpenOrder
    <3> QED
      BY <3>5 DEF ord
  <2>2. intent.price \in Nat
    BY <1>1 DEF OrderIntent
  <2> QED
    BY <1>1, <2>1, <2>2 DEF SimulatedOrder, OrderStatus
<1>7. CASE o.status = "FILLED"
  <2>1. MarkFilled(OpenOrder(intent)).status = "FILLED"
    BY <1>6 DEF MarkFilled, Transition, SimulatedOrder
  <2> QED
    BY <1>5, <1>7, <2>1 DEF OrderAfter
<1>8. CASE o.status = "PARTIALLY_FILLED"
  <2>1. /\ MarkPartiallyFilled(OpenOrder(intent), o.remaining_size).status
             = "PARTIALLY_FILLED"
        /\ MarkPartiallyFilled(OpenOrder(intent), o.remaining_size).remaining_size
             = o.remaining_size
    BY <1>6 DEF MarkPartiallyFilled, Transition, SimulatedOrder
  <2> QED
    BY <1>4, <1>5, <1>8, <2>1 DEF OrderAfter, Working
<1>9. CASE o.status \notin {"FILLED", "PARTIALLY_FILLED"}
  BY <1>5, <1>6, <1>9 DEF OrderAfter, Working
<1> QED
  BY <1>7, <1>8, <1>9

\* An order is for what the position lacks of the target, so its fills end at
\* the target at the latest.
LEMMA SubmissionAims ==
  ASSUME RunInv, Dispatching, NEW intent \in IntentsInDispatch,
         ~Raises(SignalInDispatch.token, intent),
         SignalInDispatch.kind = "position"
  PROVE  LET r == SubmissionResult(SignalInDispatch.token, intent)
         IN  \E n \in Nat : /\ Covers(r.fills, n)
                            /\ Approaches(r, SignalInDispatch.target, n)
<1> DEFINE s == SignalInDispatch
           t == s.token
           r == SubmissionResult(t, intent)
           d == s.target - positions[t]
<1>1. s \in Signal /\ t \in Tokens /\ s.target \in Int
  <2>1. Head(queue) \in Signal
    BY DEF RunInv, Shapes, Dispatching
  <2> QED
    BY <2>1 DEF SignalInDispatch, Signal
<1>2. positions[t] \in Nat
  BY <1>1 DEF RunInv, Bounded
<1>3. result = NoResult /\ portfolio = Portfolio
  BY DEF Dispatching, RunInv, Synced
<1>4. Delta(s, Context) = d
  BY <1>3 DEF Delta, TargetPosition, Context, Portfolio
<1>5. /\ d # 0
      /\ intent.side = IF d > 0 THEN "BUY" ELSE "SELL"
      /\ intent.size = IF d > 0 THEN d ELSE -d
  BY <1>4 DEF IntentsInDispatch, TranslateSignal, IntentFor
<1>6. /\ intent \in OrderIntent /\ intent.price \in 0 .. One
      /\ intent.side \in OrderSide /\ intent.size \in Nat \ {0}
      /\ intent = [side |-> intent.side, price |-> intent.price, size |-> intent.size]
  BY SizingAssumption DEF Raises, OrderIntent
<1>7. d \in Int
  BY <1>1, <1>2
<1>8. CASE Decision(t, intent) = "REJECT"
  <2>1. r = [token |-> t, fills |-> << >>,
             order |-> Transition(CreateOrder(intent), "REJECTED")]
    BY <1>8 DEF SubmissionResult
  <2>2. r.token = t /\ r.fills = << >> /\ r.order.side = intent.side
    BY <1>6, <2>1 DEF Transition, CreateOrder
  <2> HIDE DEF r
  <2>3. Approaches(r, s.target, 0)
    BY <1>1, <1>2, <1>5, <1>7, <2>2 DEF Approaches
  <2> QED
    BY <2>2, <2>3, CoversNothing DEF r
<1>9. CASE Decision(t, intent) # "REJECT"
  <2>1. intent.size \in 1 .. MaxToken /\ market[t] \in Quotes \cup {NoQuote}
    BY <1>1, <1>3, <1>6, <1>9, AcceptedFits DEF RunInv, Shapes
  <2>2. Outcome(t, intent) \in FillResult /\ Covers(Outcome(t, intent).fills, intent.size)
    BY <1>1, <1>6, <2>1, EngineKeeps
  <2>3. OrderAfter(intent, Outcome(t, intent)).side = intent.side
    BY <1>6, <2>2 DEF OrderAfter, OpenOrder, CreateOrder, Transition,
       MarkFilled, MarkPartiallyFilled, SimulatedOrder, OrderStatus, FillResult
  <2>4. /\ r.token = t /\ r.order.side = intent.side
        /\ r.fills = Outcome(t, intent).fills
    BY <1>9, <2>3 DEF SubmissionResult
  <2> HIDE DEF r
  <2>5. Approaches(r, s.target, intent.size)
    BY <1>1, <1>2, <1>5, <1>7, <2>4 DEF Approaches
  <2> QED
    BY <1>6, <2>2, <2>4, <2>5 DEF r
<1> QED
  BY <1>8, <1>9

\* A fill moves the position of the token of the signal alone, towards the
\* target, and leaves the rest of the fills short of it.
LEMMA FillAims ==
  ASSUME RunInv, Aimed, FeedbackFill
  PROVE  /\ Aimed'
         /\ \A t \in Tokens : positions'[t] # positions[t] =>
              LET s == SignalInDispatch
              IN  /\ t = s.token
                  /\ s.kind = "position" =>
                       \/ positions[t] < positions'[t] /\ positions'[t] <= s.target
                       \/ positions[t] > positions'[t] /\ positions'[t] >= s.target
<1> DEFINE fill == Head(result.fills)
           t == result.token
           side == result.order.side
           target == SignalInDispatch.target
<1>1. /\ result # NoResult /\ result \in Result /\ result.fills # << >>
      /\ result.fills \in Seq(FillTerms) /\ t \in Tokens /\ side \in {"BUY", "SELL"}
      /\ queue # << >> /\ queue \in Seq(Signal)
  BY DEF FeedbackFill, RunInv, Shapes, Result, SimulatedOrder, OrderSide
<1>2. t = SignalInDispatch.token /\ SignalInDispatch \in Signal /\ target \in Int
  <2>1. Head(queue) \in Signal
    BY <1>1
  <2>2. SignalInDispatch \in Signal
    BY <2>1 DEF SignalInDispatch
  <2>3. t = SignalInDispatch.token
    BY <1>1 DEF Aimed
  <2> QED
    BY <2>2, <2>3 DEF Signal
<1>3. positions' = [positions EXCEPT ![t] = PositionAfter(side, t, fill)]
  BY DEF FeedbackFill
<1>4. positions \in [Tokens -> 0 .. MaxToken] /\ positions[t] \in Nat
  BY <1>1, RunAssumption DEF RunInv, Bounded
<1>5. fill \in FillTerms /\ fill.size \in Nat \ {0}
  <2>1. result.fills[1] \in FillTerms /\ fill = result.fills[1]
    BY <1>1
  <2> QED
    BY <2>1 DEF FillTerms
<1>6. positions'[t] = IF side = "BUY" THEN positions[t] + fill.size
                      ELSE positions[t] - fill.size
  BY <1>1, <1>3, <1>4 DEF PositionAfter
<1>7. \A u \in Tokens : positions'[u] # positions[u] => u = t
  BY <1>3, <1>4
<1>8. \/ result' = NoResult
      \/ /\ result'.token = t /\ result'.order = result.order
         /\ result'.fills = Tail(result.fills) /\ queue' = queue
  BY <1>1 DEF FeedbackFill, Result
<1>9. ASSUME SignalInDispatch.kind = "position"
      PROVE  /\ \E m \in Nat : /\ Covers(Tail(result.fills), m)
                               /\ IF side = "BUY" THEN positions'[t] + m <= target
                                                  ELSE positions'[t] - m >= target
             /\ \/ positions[t] < positions'[t] /\ positions'[t] <= target
                \/ positions[t] > positions'[t] /\ positions'[t] >= target
  <2>1. PICK n \in Nat : Covers(result.fills, n) /\ Approaches(result, target, n)
    BY <1>1, <1>9 DEF Aimed
  <2>2. fill.size <= n /\ Covers(Tail(result.fills), n - fill.size)
    BY <1>1, <2>1, CoversTail
  <2>3. IF side = "BUY" THEN positions[t] + n <= target ELSE positions[t] - n >= target
    BY <2>1 DEF Approaches
  <2> HIDE DEF fill, t, side, target
  <2>4. n - fill.size \in Nat
    BY <1>5, <2>2
  <2>5. IF side = "BUY" THEN positions'[t] + (n - fill.size) <= target
                        ELSE positions'[t] - (n - fill.size) >= target
    BY <1>2, <1>4, <1>5, <1>6, <2>3
  <2>6. \/ positions[t] < positions'[t] /\ positions'[t] <= target
        \/ positions[t] > positions'[t] /\ positions'[t] >= target
    BY <1>2, <1>4, <1>5, <1>6, <2>2, <2>3
  <2> QED
    BY <2>2, <2>4, <2>5, <2>6
<1>10. Aimed'
  <2>1. CASE result' = NoResult
    BY <2>1 DEF Aimed
  <2>2. CASE /\ result'.token = t /\ result'.order = result.order
             /\ result'.fills = Tail(result.fills) /\ queue' = queue
    <3>1. SignalInDispatch' = SignalInDispatch
      BY <2>2 DEF SignalInDispatch
    <3> QED
      BY <1>2, <1>9, <2>2, <3>1 DEF Aimed, Approaches
  <2> QED
    BY <1>8, <2>1, <2>2
<1> QED
  BY <1>2, <1>7, <1>9, <1>10

\* Every step keeps the books working and the orders aimed.
LEMMA NextBooks == RunInv /\ BooksWork /\ [Next]_vars => BooksWork'
<1> SUFFICES ASSUME RunInv, BooksWork, [Next]_vars PROVE BooksWork'
  OBVIOUS
<1>1. CASE SubmitSignal
  <2>1. queue # << >> /\ result = NoResult /\ portfolio' = portfolio
    BY <1>1 DEF SubmitSignal, Dispatching
  <2>2. PICK intent : /\ ~Raises(SignalInDispatch.token, intent)
                      /\ orders' = BookedOrders(
                           SubmissionResult(SignalInDispatch.token, intent))
    BY <1>1 DEF SubmitSignal
  <2>3. SignalInDispatch.token \in Tokens
    <3>1. Head(queue) \in Signal
      BY <2>1 DEF RunInv, Shapes
    <3> QED
      BY <3>1 DEF SignalInDispatch, Signal
  <2>4. SubmissionResult(SignalInDispatch.token, intent).token = SignalInDispatch.token
    BY DEF SubmissionResult
  <2>5. PICK entry : /\ Working(entry) \/ orders' = orders
                     /\ orders' = orders \/ orders' = Append(orders, entry)
    BY <2>1, <2>2, <2>3, <2>4, BookedWorks DEF BookedOrders
  <2>6. orders \in Seq(BookedOrder)
    BY DEF RunInv, Shapes
  <2>7. \A i \in DOMAIN orders' : Working(orders'[i])
    <3>1. CASE orders' = orders
      BY <3>1 DEF BooksWork
    <3>2. CASE orders' # orders
      <4>1. /\ DOMAIN orders' = 1 .. Len(orders) + 1 /\ DOMAIN orders = 1 .. Len(orders)
            /\ orders'[Len(orders) + 1] = entry
            /\ \A i \in 1 .. Len(orders) : orders'[i] = orders[i]
        BY <2>5, <2>6, <3>2
      <4> QED
        BY <2>5, <2>6, <3>2, <4>1 DEF BooksWork
    <3> QED
      BY <3>1, <3>2
  <2> QED
    BY <2>1, <2>7 DEF BooksWork
<1>2. CASE FeedbackFill \/ FeedbackOrder
  BY <1>2 DEF FeedbackFill, FeedbackOrder, Portfolio, records, BooksWork
<1>3. CASE OnInit \/ OnMarketEvent \/ OnClock \/ OnFinish \/ SkipSignal \/ RunFails
           \/ UNCHANGED vars
  BY <1>3 DEF OnInit, OnMarketEvent, OnClock, OnFinish, SkipSignal, RunFails, vars, records,
              BooksWork
<1> QED
  BY <1>1, <1>2, <1>3 DEF Next, Dispatch

\* Every step keeps each order aimed at the target of its signal.
LEMMA NextAimed == RunInv /\ Aimed /\ [Next]_vars => Aimed'
<1> SUFFICES ASSUME RunInv, Aimed, [Next]_vars PROVE Aimed'
  OBVIOUS
<1>1. CASE SubmitSignal
  <2>1. Dispatching /\ positions' = positions /\ queue' = queue
    BY <1>1 DEF SubmitSignal
  <2>2. PICK intent \in IntentsInDispatch :
          /\ ~Raises(SignalInDispatch.token, intent)
          /\ result' = SubmissionResult(SignalInDispatch.token, intent)
    BY <1>1 DEF SubmitSignal
  <2>3. result'.token = SignalInDispatch.token
    BY <2>2 DEF SubmissionResult
  <2>4. SignalInDispatch.kind = "position" =>
          \E n \in Nat : /\ Covers(result'.fills, n)
                         /\ Approaches(result', SignalInDispatch.target, n)
    BY <2>1, <2>2, SubmissionAims
  <2> QED
    BY <2>1, <2>3, <2>4 DEF Aimed, Approaches, SignalInDispatch
<1>2. CASE FeedbackFill
  BY <1>2, FillAims
<1>3. CASE FeedbackOrder
  BY <1>3 DEF FeedbackOrder, Aimed
<1>4. CASE OnInit \/ OnMarketEvent \/ OnClock \/ OnFinish \/ SkipSignal \/ RunFails
  <2>1. result' = NoResult
    BY <1>4 DEF OnInit, OnMarketEvent, OnClock, OnFinish, SkipSignal, RunFails, Waiting,
                Dispatching, RunInv, Shapes
  <2> QED
    BY <2>1 DEF Aimed
<1>5. CASE UNCHANGED vars
  BY <1>5 DEF vars, records, Aimed, Approaches, SignalInDispatch
<1> QED
  BY <1>1, <1>2, <1>3, <1>4, <1>5 DEF Next, Dispatch

\* _update_order_book: what the strategy sees as open has something to fill.
THEOREM BooksAreWorking == Spec => []OpenOrdersAreWorking
<1>1. Init => BooksWork
  BY DEF Init, BooksWork, Portfolio
<1>2. BooksWork => OpenOrdersAreWorking
  BY DEF BooksWork, Working, OpenOrdersAreWorking
<1> QED
  BY <1>1, <1>2, NextBooks, InitRunInv, NextRunInv, PTL DEF Spec

\* _dispatch_signals with translate_signal: a fill moves the position of the
\* signal's token alone, towards its target and never past it, though later
\* signals of the list and the fills before have changed the portfolio.
THEOREM PositionsApproachTargets == Spec => TowardsTarget
<1> DEFINE Toward ==
      \A t \in Tokens : positions'[t] # positions[t] =>
       LET s == SignalInDispatch
       IN  /\ t = s.token
           /\ s.kind = "position" =>
                \/ positions[t] < positions'[t] /\ positions'[t] <= s.target
                \/ positions[t] > positions'[t] /\ positions'[t] >= s.target
<1>1. RunInv /\ Aimed /\ [Next]_vars => [Toward]_vars
  <2> SUFFICES ASSUME RunInv, Aimed, [Next]_vars PROVE Toward
    OBVIOUS
  <2>1. CASE FeedbackFill
    BY <2>1, FillAims
  <2>2. CASE positions' = positions
    BY <2>2
  <2>3. FeedbackFill \/ positions' = positions
    BY DEF Next, Dispatch, OnInit, OnMarketEvent, OnClock, OnFinish, SkipSignal, RunFails,
           SubmitSignal, FeedbackOrder, vars, records
  <2> HIDE DEF Toward
  <2> QED
    BY <2>1, <2>2, <2>3
<1>2. Init => Aimed
  BY DEF Init, Aimed
<1> QED
  BY <1>1, <1>2, NextAimed, InitRunInv, NextRunInv, PTL DEF Spec, TowardsTarget

\* simulate_fills is an engine as the runner assumes one: what holds for all
\* engines with EngineAssumption holds for this one, on whatever books the
\* quotes of a run show, with an order of any side, price and size.
THEOREM FillEngineFitsTheRunner ==
  ASSUME NEW side \in OrderSide, NEW price \in 0 .. One, NEW size \in 1 .. MaxToken,
         NEW q \in Quotes \cup {NoQuote}, NEW effective \in BOOLEAN
  PROVE  LET order == OpenOrder([side |-> side, price |-> price, size |-> size])
             r == SimulateFills(order, BookOf(q), effective)
         IN  r \in FillResult /\ Accounted(order, r) /\ RespectsTheLimit(order, r)
<1> DEFINE intent == [side |-> side, price |-> price, size |-> size]
           order == OpenOrder(intent)
           book == BookOf(q)
<1>1. One \in Nat /\ price \in Nat /\ size \in Nat \ {0}
  BY SizingAssumption, RunAssumption
<1>2. order \in SimulatedOrder /\ order.remaining_size # 0
  <2>1. intent \in OrderIntent
    BY <1>1 DEF OrderIntent
  <2> HIDE DEF intent
  <2> QED
    BY <2>1 DEF OpenOrder, Transition, CreateOrder, OrderIntent, SimulatedOrder,
       OrderStatus, LegalTransitions
<1>3. book \in BookType
  <2>1. ASSUME NEW levels \in BookSide, NEW best \in 0 .. One
        PROVE  OrDefault(levels, best) \in Seq(Level)
    <3>1. levels \in Seq(Level)
      <4> DEFINE Entry == [price : 0 .. One, size : Int]
      <4>1. \A e \in Entry : e \in Level
        BY <1>1 DEF Level
      <4>2. levels \in Seq(Entry)
        BY DEF BookSide
      <4> HIDE DEF Entry
      <4> QED
        BY <4>1, <4>2
    <3>2. [price |-> best, size |-> DefaultDepth] \in Level
      BY <1>1, RunAssumption DEF Level
    <3> QED
      BY <3>1, <3>2 DEF OrDefault
  <2>2. CASE q = NoQuote
    BY <2>2 DEF BookOf, BookType
  <2>3. CASE q # NoQuote
    <3>1. q \in Quote
      BY <2>3, RunAssumption
    <3>2. /\ q.bids \in BookSide /\ q.asks \in BookSide
          /\ q.best_bid \in 0 .. One /\ q.best_ask \in 0 .. One
      BY <3>1 DEF Quote
    <3> QED
      BY <2>1, <2>3, <3>2 DEF BookOf, BookType
  <2> QED
    BY <2>2, <2>3
<1> HIDE DEF order, book
<1>4. MatchingOwes(order, book, effective, SimulateFills(order, book, effective))
  BY <1>2, <1>3, SimulateFillsOwes
<1> QED
  BY <1>4 DEF MatchingOwes, order, book

=============================================================================
