---------------------------- MODULE StrategyProofs ----------------------------
(***************************************************************************)
(* The staged books of an automated run, and the runs of the sample        *)
(* strategies over them or over any other feed, for every list of tokens,  *)
(* reply of the CLOB, feed, profile, override and step of the clock.       *)
(*                                                                         *)
(* None of the properties is inductive by itself.  Fed says what the list  *)
(* of events is; Clocked counts the calls and ties them to the next tick;  *)
(* Fits ties the cycles of the stress strategy to the signals sent and to  *)
(* the last data of every token; Carried says how far a staged run with    *)
(* room for its tokens has carried each cycle, and Alone that without a    *)
(* stress_profile no cycle goes beyond its first stage.                    *)
(***************************************************************************)
EXTENDS StrategyRun, CollectionTheorems, TLAPS

-----------------------------------------------------------------------------
(***************************************************************************)
(* A side of a book.                                                       *)
(***************************************************************************)
Levels == [price : EvenUnits, usdc : Nat \ {0}, at : Nat \ {0}]

\* What a side is of its rows: those with a size, by key; nothing is lost, and
\* equal keys keep their order.
SideOf(rows, key) ==
  LET places == SortedPlaces(Sized(rows), key)
      n == Cardinality(Sized(rows)) IN
  /\ n \in Nat
  /\ Side(rows, key) \in Seq(Levels) /\ Len(Side(rows, key)) = n
  /\ places \in [1 .. n -> Sized(rows)]
  /\ \A k \in 1 .. n : Side(rows, key)[k] = rows[places[k]]
  /\ \A i \in Sized(rows) : \E k \in 1 .. n : places[k] = i
  /\ \A k, l \in 1 .. n : k < l => Precedes(key, places[k], places[l])

\* Side sorts the rows.
LEMMA SideSorts ==
  ASSUME NEW rows \in Seq(Row), NEW key, \A i \in DOMAIN rows : key[i] \in Int
  PROVE  SideOf(rows, key)
<1> DEFINE sized == Sized(rows)
           places == SortedPlaces(sized, key)
           n == Cardinality(sized)
<1>1. /\ DOMAIN rows = 1 .. Len(rows) /\ Len(rows) \in Nat
      /\ \A i \in DOMAIN rows : rows[i] \in Row
  OBVIOUS
<1>2. IsFiniteSet(sized) /\ sized \subseteq Int /\ sized \subseteq DOMAIN rows
  BY <1>1, UptoIsFinite, FS_Subset DEF Sized
<1>3. \A i \in sized : key[i] \in Int
  BY <1>2
<1> HIDE DEF sized
<1>4. /\ n \in Nat /\ places \in [1 .. n -> sized]
      /\ \A i \in sized : \E k \in 1 .. n : places[k] = i
      /\ \A k \in 1 .. n, l \in 1 .. n :
           k < l => Precedes(key, places[k], places[l])
  BY <1>2, <1>3, SortedPlacesSorts
<1> HIDE DEF n, places
<1>5. Side(rows, key) = [k \in 1 .. n |-> rows[places[k]]]
  BY <1>4 DEF Side, sized, places
<1>6. \A k \in 1 .. n : rows[places[k]] \in Levels
  BY <1>1, <1>4 DEF sized, Sized, Row, EvenUnits, Levels
<1>7. Side(rows, key) \in Seq(Levels) /\ Len(Side(rows, key)) = n
  BY <1>4, <1>5, <1>6
<1>8. \A k \in 1 .. n : Side(rows, key)[k] = rows[places[k]]
  BY <1>5
<1> QED
  BY <1>4, <1>7, <1>8 DEF sized, places, n, SideOf

\* The first of two levels with one price counts for nothing less than the
\* depth: the best level is deepened where it is and stays the first.
IsDeepened(levels, of, usdc) ==
  LET price == levels[1].price
      deep == EnsureTopDepth(levels, price, usdc)
      side == Side(deep, [i \in DOMAIN deep |-> of[deep[i].price]]) IN
  /\ deep \in Seq(Levels)
  /\ side \in Seq(Levels) /\ side # <<>>
  /\ side[1].price = price /\ ~Below(side[1], usdc, price)
  /\ \A i, j \in DOMAIN side : i < j => of[side[i].price] <= of[side[j].price]

\* A sorted side stays one when its best level is deepened.
LEMMA DeepenedSide ==
  ASSUME NEW levels \in Seq(Levels), levels # <<>>,
         NEW of \in [Nat \ {0} -> Int],
         \A i, j \in DOMAIN levels :
           i < j => of[levels[i].price] <= of[levels[j].price],
         NEW usdc \in Nat \ {0}
  PROVE  IsDeepened(levels, of, usdc)
<1> DEFINE price == levels[1].price
           deep == EnsureTopDepth(levels, price, usdc)
           key == [i \in DOMAIN deep |-> of[deep[i].price]]
           side == Side(deep, key)
           N == Len(levels)
<1>1. /\ N \in Nat /\ N >= 1 /\ DOMAIN levels = 1 .. N
      /\ \A i \in 1 .. N : /\ levels[i].price \in Nat \ {0}
                          /\ levels[i].usdc \in Nat \ {0}
                          /\ levels[i].at \in Nat \ {0}
      /\ price \in Nat \ {0}
  <2>1. N \in Nat /\ N >= 1 /\ DOMAIN levels = 1 .. N
    OBVIOUS
  <2>2. \A i \in 1 .. N : levels[i] \in Levels
    BY <2>1
  <2>3. \A i \in 1 .. N : /\ levels[i].price \in Nat \ {0}
                          /\ levels[i].usdc \in Nat \ {0}
                          /\ levels[i].at \in Nat \ {0}
    BY <2>2 DEF Levels, EvenUnits
  <2> QED
    BY <2>1, <2>3
<1>2. /\ deep \in Seq(Levels) /\ Len(deep) = N
      /\ \A i \in 1 .. N : deep[i].price = levels[i].price
      /\ ~Below(deep[1], usdc, price)
  <2> DEFINE at == {i \in DOMAIN levels : levels[i].price = price}
             first == CHOOSE i \in at : \A k \in at : i <= k
  <2>1. 1 \in at /\ at \subseteq 1 .. N
    BY <1>1
  <2>2. first = 1
    <3> HIDE DEF at, N
    <3>1. \A k \in at : 1 <= k
      BY <2>1, <1>1
    <3>2. first \in at /\ \A k \in at : first <= k
      BY <2>1, <3>1
    <3> HIDE DEF first
    <3>3. first \in 1 .. N /\ first <= 1
      BY <2>1, <3>2
    <3> QED
      BY <1>1, <3>3
  <2> HIDE DEF first
  <2>3. deep = IF Below(levels[1], usdc, price)
               THEN [levels EXCEPT ![1] = Level(price, usdc, price)]
               ELSE levels
    BY <2>1, <2>2 DEF EnsureTopDepth, first
  <2>4. Level(price, usdc, price) \in Levels
        /\ Level(price, usdc, price).price = price
    <3>1. levels[1] \in Levels
      BY <1>1
    <3>2. price \in EvenUnits
      BY <3>1 DEF Levels
    <3> QED
      BY <1>1, <3>2 DEF Level, Levels
  <2>5. CASE Below(levels[1], usdc, price)
    <3>1. deep = [levels EXCEPT ![1] = Level(price, usdc, price)]
      BY <2>3, <2>5
    <3>2. ~Below(Level(price, usdc, price), usdc, price)
      BY <1>1 DEF Below, Level
    <3> HIDE DEF deep
    <3>3. deep \in Seq(Levels) /\ Len(deep) = N /\ deep[1] = Level(price, usdc, price)
          /\ \A i \in 1 .. N : i # 1 => deep[i] = levels[i]
      BY <1>1, <2>4, <3>1
    <3> QED
      BY <2>4, <3>2, <3>3
  <2>6. CASE ~Below(levels[1], usdc, price)
    BY <1>1, <2>3, <2>6
  <2> QED
    BY <2>5, <2>6
<1> HIDE DEF deep
<1>3. /\ deep \in Seq(Row) /\ DOMAIN deep = 1 .. N
      /\ \A i \in DOMAIN deep : deep[i] \in Levels
      /\ Sized(deep) = 1 .. N
  <2>1. Levels \subseteq Row
    BY DEF Levels, Row, EvenUnits
  <2>2. deep \in Seq(Row)
    BY <1>2, <2>1
  <2>3. DOMAIN deep = 1 .. N /\ \A i \in DOMAIN deep : deep[i] \in Levels
    BY <1>2
  <2>4. \A i \in DOMAIN deep : deep[i].usdc > 0
    BY <2>3 DEF Levels
  <2> QED
    BY <2>2, <2>3, <2>4 DEF Sized
<1>4. /\ \A i \in 1 .. N : key[i] = of[levels[i].price] /\ key[i] \in Int
      /\ \A i, j \in 1 .. N : i < j => key[i] <= key[j]
  <2>1. \A i \in 1 .. N : key[i] = of[levels[i].price]
    BY <1>2, <1>3
  <2>2. \A i \in 1 .. N : key[i] \in Int
    BY <1>1, <2>1
  <2> HIDE DEF key
  <2>3. \A i, j \in 1 .. N : i < j => of[levels[i].price] <= of[levels[j].price]
    BY <1>1
  <2> HIDE DEF N
  <2> QED
    BY <2>1, <2>2, <2>3
<1> DEFINE places == SortedPlaces(1 .. N, key)
<1> HIDE DEF key, places, N
<1>5. /\ side \in Seq(Levels) /\ Len(side) = N
      /\ places \in [1 .. N -> 1 .. N]
      /\ \A k \in 1 .. N : side[k] = deep[places[k]]
      /\ \A i \in 1 .. N : \E k \in 1 .. N : places[k] = i
      /\ \A k, l \in 1 .. N : k < l => Precedes(key, places[k], places[l])
  <2>1. Cardinality(1 .. N) = N
    BY <1>1, UptoIsFinite
  <2>2. \A i \in DOMAIN deep : key[i] \in Int
    BY <1>3, <1>4
  <2> HIDE DEF key
  <2> DEFINE S == Sized(deep)
             sp == SortedPlaces(S, key)
             n == Cardinality(S)
  <2>a. SideOf(deep, key)
    BY <1>3, <2>2, SideSorts
  <2>3. /\ Side(deep, key) \in Seq(Levels) /\ Len(Side(deep, key)) = n
        /\ sp \in [1 .. n -> S]
        /\ \A k \in 1 .. n : Side(deep, key)[k] = deep[sp[k]]
        /\ \A i \in S : \E k \in 1 .. n : sp[k] = i
        /\ \A k, l \in 1 .. n : k < l => Precedes(key, sp[k], sp[l])
    BY <1>3, <2>2, <2>a DEF SideOf
  <2>4. S = 1 .. N /\ n = N /\ sp = places
    BY <1>3, <2>1 DEF places
  <2> HIDE DEF S, sp, n
  <2> QED
    BY <2>3, <2>4
<1>6. places[1] = 1
  <2>1. PICK k \in 1 .. N : places[k] = 1
    BY <1>1, <1>5
  <2>2. CASE k # 1
    <3>1. Precedes(key, places[1], 1)
      BY <1>1, <1>5, <2>1, <2>2
    <3>2. places[1] \in 1 .. N /\ 1 \in 1 .. N
      BY <1>1, <1>5
    <3>3. key[1] <= key[places[1]]
      BY <1>4, <3>2
    <3> QED
      BY <1>4, <3>1, <3>2, <3>3 DEF Precedes
  <2> QED
    BY <2>1, <2>2
<1> HIDE DEF side
<1>7. side[1] = deep[1] /\ side # <<>> /\ DOMAIN side = 1 .. N
  <2>1. DOMAIN side = 1 .. N /\ 1 \in 1 .. N
    BY <1>1, <1>5
  <2>2. side[1] = deep[1]
    BY <1>5, <1>6, <2>1
  <2>3. Len(side) # 0
    BY <1>1, <1>5
  <2>4. side # <<>>
    BY <2>3
  <2> QED
    BY <2>1, <2>2, <2>4
<1>8. ASSUME NEW i \in 1 .. N, NEW j \in 1 .. N, i < j
      PROVE  of[side[i].price] <= of[side[j].price]
  <2>1. Precedes(key, places[i], places[j])
    BY <1>5, <1>8
  <2>2. /\ places[i] \in 1 .. N /\ places[j] \in 1 .. N
        /\ side[i].price = levels[places[i]].price
        /\ side[j].price = levels[places[j]].price
    BY <1>2, <1>5
  <2>3. key[places[i]] <= key[places[j]]
    BY <1>4, <2>1, <2>2, SMTT(30) DEF Precedes
  <2> QED
    BY <1>4, <2>2, <2>3
<1>9. /\ deep \in Seq(Levels)
      /\ side \in Seq(Levels) /\ side # <<>>
      /\ side[1].price = price /\ ~Below(side[1], usdc, price)
      /\ \A i, j \in DOMAIN side :
           i < j => of[side[i].price] <= of[side[j].price]
  <2>1. deep[1].price = price
    BY <1>1, <1>2
  <2> HIDE DEF price
  <2> QED
    BY <1>2, <1>5, <1>7, <1>8, <2>1
<1> QED
  BY <1>9 DEF side, key, deep, IsDeepened

-----------------------------------------------------------------------------
(***************************************************************************)
(* The invented best prices.                                               *)
(***************************************************************************)
\* Products with a positive factor compare as the other factors do.
LEMMA FactorsCompare ==
  ASSUME NEW x \in Int, NEW y \in Int, NEW c \in Nat \ {0}, x * c < y * c
  PROVE  x < y
<1>1. SUFFICES ASSUME x >= y PROVE FALSE
  OBVIOUS
<1>2. x - y \in Nat
  BY <1>1
<1>3. (x - y) * c \in Nat
  BY <1>2
<1>4. (x - y) * c = x * c - y * c
  OBVIOUS
<1>5. x * c \in Int /\ y * c \in Int
  OBVIOUS
<1> QED
  BY <1>3, <1>4, <1>5

\* Two multiples of a tick are a tick apart.
LEMMA Multiples ==
  ASSUME NEW t \in Nat \ {0}, NEW a \in Int, NEW b \in Int, a % t = 0, b % t = 0, a < b
  PROVE  a + t <= b
<1>1. PICK m \in Int : a = m * t
  BY SMTT(30)
<1>2. PICK n \in Int : b = n * t
  BY SMTT(30)
<1>3. m < n
  BY <1>1, <1>2, FactorsCompare
<1>4. (n - m - 1) * t \in Nat
  BY <1>3
<1>5. (n - m - 1) * t = n * t - m * t - t
  OBVIOUS
<1> QED
  BY <1>1, <1>2, <1>4, <1>5

\* Rounding gives a multiple of the tick less than a tick away, on its side of
\* the price.
LEMMA Rounding ==
  ASSUME NEW x \in Int, NEW t \in Nat \ {0}
  PROVE  /\ AlignDown(x, t) \in Int /\ AlignDown(x, t) % t = 0
         /\ AlignDown(x, t) <= x /\ x < AlignDown(x, t) + t
         /\ AlignUp(x, t) \in Int /\ AlignUp(x, t) % t = 0
         /\ x <= AlignUp(x, t) /\ AlignUp(x, t) < x + t
<1>1. \A y \in Int : /\ y \div t \in Int /\ (y \div t) * t \in Int
                     /\ (y \div t) * t <= y /\ y < (y \div t) * t + t
  OBVIOUS
<1>2. \A q \in Int : (q * t) % t = 0 /\ (-(q * t)) % t = 0
  OBVIOUS
<1> DEFINE p == x \div t
           q == (-x) \div t
<1>3. /\ p \in Int /\ p * t \in Int /\ p * t <= x /\ x < p * t + t
      /\ q \in Int /\ q * t \in Int /\ q * t <= -x /\ -x < q * t + t
  BY <1>1
<1>4. AlignDown(x, t) = p * t /\ AlignUp(x, t) = -(q * t)
  <2>1. AlignUp(x, t) = -q * t
    BY DEF AlignUp
  <2> HIDE DEF q
  <2> QED
    BY <1>3, <2>1 DEF AlignDown
<1> HIDE DEF p, q
<1>5. (p * t) % t = 0 /\ (-(q * t)) % t = 0
  BY <1>2, <1>3
<1> DEFINE down == p * t
           back == q * t
<1>6. /\ down \in Int /\ down <= x /\ x < down + t
      /\ back \in Int /\ back <= -x /\ -x < back + t
  BY <1>3
<1> HIDE DEF down, back
<1>7. -back \in Int /\ x <= -back /\ -back < x + t
  BY <1>6
<1> QED
  BY <1>4, <1>5, <1>6, <1>7 DEF down, back

\* A tick that divides a cent stays within the scale.
LEMMA FineRounding ==
  ASSUME NEW x, x \in Lowest .. Highest, NEW t \in Nat \ {0}, Cent % t = 0
  PROVE  Lowest <= AlignDown(x, t) /\ AlignUp(x, t) <= Highest
<1>1. Lowest \in Int /\ Highest \in Int /\ x \in Int /\ Lowest <= x /\ x <= Highest
  BY DEF Lowest, Highest, Cent
<1>2. Lowest % t = 0 /\ Highest % t = 0
  BY DEF Lowest, Highest, Cent
<1>3. /\ AlignDown(x, t) \in Int /\ AlignDown(x, t) % t = 0 /\ x < AlignDown(x, t) + t
      /\ AlignUp(x, t) \in Int /\ AlignUp(x, t) % t = 0 /\ AlignUp(x, t) < x + t
  BY <1>1, Rounding
<1>4. ~(AlignDown(x, t) < Lowest)
  <2>1. AlignDown(x, t) < Lowest => AlignDown(x, t) + t <= Lowest
    BY <1>1, <1>2, <1>3, Multiples
  <2> QED
    BY <1>1, <1>3, <2>1
<1>5. ~(Highest < AlignUp(x, t))
  <2>1. Highest < AlignUp(x, t) => Highest + t <= AlignUp(x, t)
    BY <1>1, <1>2, <1>3, Multiples
  <2> QED
    BY <1>1, <1>3, <2>1
<1> QED
  BY <1>1, <1>3, <1>4, <1>5

\* The invented prices: around mid, on the tick, and on the scale if the tick
\* divides a cent.
Invented(bid, ask, mid, t) ==
  /\ bid \in Int /\ ask \in Int /\ 0 <= bid /\ bid < ask
  /\ bid <= mid /\ mid <= ask /\ bid % t = 0 /\ ask % t = 0
  /\ Lowest - t < bid /\ ask < Highest + t
  /\ Cent % t = 0 => Lowest <= bid /\ ask <= Highest

\* Two different prices of the scale around mid.
Around(low, high, mid) ==
  /\ low \in Int /\ high \in Int /\ mid \in Int
  /\ Lowest <= low /\ low <= mid /\ mid <= high /\ high <= Highest /\ low < high

\* A whole number between the ends of the scale is on it.
LEMMA OnScale ==
  ASSUME NEW x \in Int, Lowest <= x, x <= Highest
  PROVE  x \in Lowest .. Highest
<1>1. Lowest \in Int /\ Highest \in Int
  BY DEF Lowest, Highest, Cent
<1> QED
  BY <1>1

\* Rounding them away from mid gives such prices.
LEMMA RoundedPrices ==
  ASSUME NEW low, NEW high, NEW mid, Around(low, high, mid), NEW t \in EvenUnits
  PROVE  Invented(AlignDown(low, t), AlignUp(high, t), mid, t)
<1> DEFINE bid == AlignDown(low, t)
           ask == AlignUp(high, t)
<1>1. t \in Nat \ {0} /\ Lowest = 200 /\ Highest = 19800
  BY DEF EvenUnits, Lowest, Highest, Cent
<1>2. low \in Lowest .. Highest /\ high \in Lowest .. Highest
  <2>1. /\ low \in Int /\ Lowest <= low /\ low <= Highest
        /\ high \in Int /\ Lowest <= high /\ high <= Highest
    BY <1>1 DEF Around
  <2> QED
    BY <2>1, OnScale
<1>3. /\ bid \in Int /\ bid % t = 0 /\ bid <= low /\ low < bid + t
      /\ ask \in Int /\ ask % t = 0 /\ high <= ask /\ ask < high + t
  <2>1. low \in Int /\ high \in Int
    BY DEF Around
  <2> QED
    BY <1>1, <2>1, Rounding
<1>4. Cent % t = 0 => Lowest <= bid /\ ask <= Highest
  <2>1. t \in Nat \ {0}
    BY <1>1
  <2>2. Cent % t = 0 => Lowest <= AlignDown(low, t)
    BY <1>2, <2>1, FineRounding
  <2>3. Cent % t = 0 => AlignUp(high, t) <= Highest
    BY <1>2, <2>1, FineRounding
  <2> QED
    BY <2>2, <2>3
<1> HIDE DEF bid, ask
<1>5. 0 <= bid
  <2>1. 0 \in Int /\ 0 % t = 0
    BY <1>1
  <2>2. bid < 0 => bid + t <= 0
    BY <1>1, <1>3, <2>1, Multiples
  <2> QED
    BY <1>1, <1>3, <2>2 DEF Around
<1>6. bid < ask /\ bid <= mid /\ mid <= ask /\ Lowest - t < bid /\ ask < Highest + t
  BY <1>1, <1>3 DEF Around
<1>7. Invented(bid, ask, mid, t)
  BY <1>3, <1>4, <1>5, <1>6 DEF Invented
<1> QED
  BY <1>7 DEF bid, ask

\* The staged best prices are such prices.
LEMMA StagedPrices ==
  ASSUME NEW payload, payload.bid \in Nat, payload.ask \in Nat, payload.tick \in EvenUnits,
         NEW mid, mid \in Lowest .. Highest
  PROVE  Invented(StagedBid(payload, mid), StagedAsk(payload, mid), mid, payload.tick)
<1> DEFINE spread == StagedSpread(payload, mid)
           half == spread \div 2
           t == payload.tick
           low == MaxOf(Lowest, mid - half)
           high == MinOf(Highest, mid + half)
<1>1. t \in EvenUnits /\ t \in Nat \ {0} /\ t >= 2
  BY DEF EvenUnits
<1>2. spread \in Int /\ spread >= 2
  BY <1>1 DEF StagedSpread, MaxOf, OrElse, Lowest, Highest, Cent
<1> HIDE DEF spread
<1>3. half \in Int /\ half >= 1
  BY <1>2
<1> HIDE DEF half
<1>4. Lowest = 200 /\ Highest = 19800 /\ mid \in Int /\ Lowest <= mid /\ mid <= Highest
  BY DEF Lowest, Highest, Cent
<1>5. low = IF Lowest >= mid - half THEN Lowest ELSE mid - half
  BY DEF MaxOf
<1>6. high = IF Highest <= mid + half THEN Highest ELSE mid + half
  BY DEF MinOf
<1> HIDE DEF low, high
<1>7. Around(low, high, mid)
  <2>1. low \in Int /\ Lowest <= low /\ low <= mid
    BY <1>3, <1>4, <1>5
  <2>2. high \in Int /\ mid <= high /\ high <= Highest
    BY <1>3, <1>4, <1>6
  <2>3. low < high
    BY <1>3, <1>4, <1>5, <1>6
  <2> QED
    BY <1>4, <2>1, <2>2, <2>3 DEF Around
<1>8. Invented(AlignDown(low, t), AlignUp(high, t), mid, t)
  <2> HIDE DEF t
  <2> QED
    BY <1>1, <1>7, RoundedPrices
<1>9. AlignDown(low, t) < AlignUp(high, t) /\ AlignDown(low, t) \in Int
      /\ AlignUp(high, t) \in Int
  BY <1>8 DEF Invented
<1>10. StagedBid(payload, mid) = AlignDown(low, t)
  BY DEF StagedBid, t, low, half, spread
<1>11. StagedAsk(payload, mid) = AlignUp(high, t)
  <2>1. ~(AlignUp(high, t) <= AlignDown(low, t))
    BY <1>9
  <2> QED
    BY <1>10, <2>1 DEF StagedAsk, t, high, half, spread
<1> QED
  BY <1>8, <1>10, <1>11

-----------------------------------------------------------------------------
(***************************************************************************)
(* From the reply of the CLOB to the staged book.                          *)
(***************************************************************************)
\* What _market_payload_from_book makes of any reply.
IsPayload(p) ==
  /\ p.tick \in EvenUnits /\ p.bid \in Nat /\ p.ask \in Nat /\ p.mid \in Int
  /\ p.source = "clob" =>
       /\ p.levels.bids \in Seq(Levels) /\ p.levels.bids # <<>>
       /\ p.levels.asks \in Seq(Levels) /\ p.levels.asks # <<>>
       /\ p.bid = p.levels.bids[1].price /\ p.ask = p.levels.asks[1].price
       /\ p.bid < p.ask
       /\ \A i, j \in DOMAIN p.levels.bids :
            i < j => p.levels.bids[i].price >= p.levels.bids[j].price
       /\ \A i, j \in DOMAIN p.levels.asks :
            i < j => p.levels.asks[i].price <= p.levels.asks[j].price

\* Both sides of a book in their order.
LEMMA SidesAreSorted ==
  ASSUME NEW rows \in Seq(Row)
  PROVE  /\ BidSide(rows) \in Seq(Levels) /\ AskSide(rows) \in Seq(Levels)
         /\ \A i, j \in DOMAIN BidSide(rows) :
              i < j => BidSide(rows)[i].price >= BidSide(rows)[j].price
         /\ \A i, j \in DOMAIN AskSide(rows) :
              i < j => AskSide(rows)[i].price <= AskSide(rows)[j].price
         /\ \A i \in DOMAIN BidSide(rows) : \E r \in DOMAIN rows :
              rows[r].usdc > 0 /\ BidSide(rows)[i] = rows[r]
         /\ \A i \in DOMAIN AskSide(rows) : \E r \in DOMAIN rows :
              rows[r].usdc > 0 /\ AskSide(rows)[i] = rows[r]
<1> DEFINE dear == [i \in DOMAIN rows |-> -rows[i].price]
           cheap == [i \in DOMAIN rows |-> rows[i].price]
<1>1. \A i \in DOMAIN rows : rows[i].price \in Nat
  <2>1. \A i \in DOMAIN rows : rows[i] \in Row
    OBVIOUS
  <2> QED
    BY <2>1 DEF Row, EvenUnits
<1>2. /\ \A i \in DOMAIN rows : dear[i] = -rows[i].price /\ dear[i] \in Int
      /\ \A i \in DOMAIN rows : cheap[i] = rows[i].price /\ cheap[i] \in Int
      /\ BidSide(rows) = Side(rows, dear) /\ AskSide(rows) = Side(rows, cheap)
  BY <1>1 DEF BidSide, AskSide
<1> HIDE DEF dear, cheap
<1>3. ASSUME NEW key, \A i \in DOMAIN rows : key[i] \in Int, NEW side, side = Side(rows, key)
      PROVE  /\ side \in Seq(Levels)
             /\ \A i \in DOMAIN side : \E r \in DOMAIN rows :
                  rows[r].usdc > 0 /\ side[i] = rows[r]
             /\ \A i, j \in DOMAIN side : i < j =>
                  \E q, r \in DOMAIN rows : /\ side[i] = rows[q] /\ side[j] = rows[r]
                                            /\ key[q] <= key[r]
  <2> DEFINE places == SortedPlaces(Sized(rows), key)
             n == Cardinality(Sized(rows))
  <2>1. SideOf(rows, key)
    BY <1>3, SideSorts
  <2>2. /\ n \in Nat /\ side \in Seq(Levels) /\ Len(side) = n
        /\ places \in [1 .. n -> Sized(rows)]
        /\ \A k \in 1 .. n : side[k] = rows[places[k]]
        /\ \A k, l \in 1 .. n : k < l => Precedes(key, places[k], places[l])
    BY <1>3, <2>1 DEF SideOf
  <2> HIDE DEF places, n
  <2>3. DOMAIN side = 1 .. n /\ \A k \in 1 .. n : /\ places[k] \in DOMAIN rows
                                                  /\ rows[places[k]].usdc > 0
    BY <2>2 DEF Sized
  <2>4. ASSUME NEW i \in 1 .. n, NEW j \in 1 .. n, i < j
        PROVE  key[places[i]] <= key[places[j]]
    <3>1. Precedes(key, places[i], places[j])
      BY <2>2, <2>4
    <3>2. key[places[i]] \in Int /\ key[places[j]] \in Int
      BY <1>3, <2>3
    <3> QED
      BY <3>1, <3>2 DEF Precedes
  <2> QED
    BY <2>2, <2>3, <2>4
<1>4. /\ BidSide(rows) \in Seq(Levels)
      /\ \A i \in DOMAIN BidSide(rows) : \E r \in DOMAIN rows :
           rows[r].usdc > 0 /\ BidSide(rows)[i] = rows[r]
      /\ \A i, j \in DOMAIN BidSide(rows) : i < j =>
           \E q, r \in DOMAIN rows : /\ BidSide(rows)[i] = rows[q]
                                     /\ BidSide(rows)[j] = rows[r]
                                     /\ dear[q] <= dear[r]
  BY <1>2, <1>3
<1>5. /\ AskSide(rows) \in Seq(Levels)
      /\ \A i \in DOMAIN AskSide(rows) : \E r \in DOMAIN rows :
           rows[r].usdc > 0 /\ AskSide(rows)[i] = rows[r]
      /\ \A i, j \in DOMAIN AskSide(rows) : i < j =>
           \E q, r \in DOMAIN rows : /\ AskSide(rows)[i] = rows[q]
                                     /\ AskSide(rows)[j] = rows[r]
                                     /\ cheap[q] <= cheap[r]
  BY <1>2, <1>3
<1>6. \A i, j \in DOMAIN BidSide(rows) :
        i < j => BidSide(rows)[i].price >= BidSide(rows)[j].price
  <2>1. \A q, r \in DOMAIN rows : dear[q] <= dear[r] => rows[q].price >= rows[r].price
    BY <1>1, <1>2
  <2> QED
    BY <1>4, <2>1
<1>7. \A i, j \in DOMAIN AskSide(rows) :
        i < j => AskSide(rows)[i].price <= AskSide(rows)[j].price
  BY <1>2, <1>5
<1> QED
  BY <1>4, <1>5, <1>6, <1>7

\* Any reply that is no crossed book gives a payload.
LEMMA MarketPayloads ==
  ASSUME NEW book, book = NoBook \/ IsBook(book)
  PROVE  IsPayload(MarketPayload(book))
<1>1. CASE book = NoBook
  <2>1. Cent \in EvenUnits
    BY DEF Cent, EvenUnits
  <2> QED
    BY <1>1, <2>1, SMTT(30) DEF MarketPayload, IsPayload, Cent
<1>2. CASE book # NoBook
  <2> DEFINE bids == BidSide(book.bids)
             asks == AskSide(book.asks)
             bid == BestOf(bids)
             ask == BestOf(asks)
             p == MarketPayload(book)
  <2>1. /\ book.bids \in Seq(Row) /\ book.asks \in Seq(Row) /\ book.tick \in EvenUnits
        /\ \A i \in DOMAIN book.bids, j \in DOMAIN book.asks :
             book.bids[i].usdc > 0 /\ book.asks[j].usdc > 0 =>
               book.bids[i].price < book.asks[j].price
    BY <1>2 DEF IsBook
  <2>2. /\ bids \in Seq(Levels)
        /\ \A i, j \in DOMAIN bids : i < j => bids[i].price >= bids[j].price
        /\ \A i \in DOMAIN bids : \E r \in DOMAIN book.bids :
             book.bids[r].usdc > 0 /\ bids[i] = book.bids[r]
    BY <2>1, SidesAreSorted
  <2>3. /\ asks \in Seq(Levels)
        /\ \A i, j \in DOMAIN asks : i < j => asks[i].price <= asks[j].price
        /\ \A i \in DOMAIN asks : \E r \in DOMAIN book.asks :
             book.asks[r].usdc > 0 /\ asks[i] = book.asks[r]
    BY <2>1, SidesAreSorted
  <2> HIDE DEF bids, asks
  <2>4. ASSUME NEW side \in Seq(Levels)
        PROVE  /\ BestOf(side) \in Nat
               /\ side # <<>> => 1 \in DOMAIN side /\ BestOf(side) = side[1].price
    <3>1. CASE side = <<>>
      BY <3>1 DEF BestOf, Missing
    <3>2. CASE side # <<>>
      <4>1. 1 \in DOMAIN side /\ side[1] \in Levels
        BY <3>2
      <4> QED
        BY <3>2, <4>1 DEF BestOf, Levels, EvenUnits
    <3> QED
      BY <3>1, <3>2
  <2>5. /\ bid \in Nat /\ ask \in Nat
        /\ bids # <<>> => 1 \in DOMAIN bids /\ bid = bids[1].price
        /\ asks # <<>> => 1 \in DOMAIN asks /\ ask = asks[1].price
    BY <2>2, <2>3, <2>4
  <2>6. bids # <<>> /\ asks # <<>> => bid < ask
    BY <2>1, <2>2, <2>3, <2>5
  <2> HIDE DEF bid, ask
  <2>7. /\ p.bid = bid /\ p.ask = ask /\ p.tick = book.tick
        /\ p.levels.bids = bids /\ p.levels.asks = asks
        /\ p.source = "clob" => bids # <<>> /\ asks # <<>>
        /\ p.mid = IF bid # Missing /\ ask # Missing THEN (bid + ask) \div 2
                   ELSE OrElse(ask, OrElse(bid, 50 * Cent))
    BY <1>2 DEF MarketPayload, BookLevels, bids, asks, bid, ask
  <2> HIDE DEF p
  <2>8. p.mid \in Int
    BY <2>5, <2>7 DEF OrElse, Cent
  <2>9. IsPayload(p)
    BY <2>1, <2>2, <2>3, <2>5, <2>6, <2>7, <2>8 DEF IsPayload
  <2> QED
    BY <2>9 DEF p
<1> QED
  BY <1>1, <1>2

\* A staged depth is positive, a staged move a whole number.
LEMMA Depths ==
  ASSUME NEW stage \in Nat, NEW tick_ \in Int
  PROVE  StageDepth(stage) \in Nat \ {0} /\ StageDelta(stage, tick_) \in Int
<1>1. MinOf(stage, 4) \in {0, 1, 2, 3, 4}
  BY DEF MinOf
<1> QED
  BY <1>1 DEF StageDepth, StageDelta

\* The clamp of any whole number is on the scale.
LEMMA ClampedPrice ==
  ASSUME NEW price \in Int
  PROVE  Clamp(price) \in Lowest .. Highest
<1>1. Lowest = 200 /\ Highest = 19800
  BY DEF Lowest, Highest, Cent
<1> QED
  BY <1>1 DEF Clamp, MaxOf, MinOf

\* Every stage shows a book: one an order can be filled from, or at least prices
\* around the one they were invented for.
LEMMA StagesShowBooks ==
  ASSUME NEW p, IsPayload(p), NEW stage \in Nat
  PROVE  ShowsABook(StagePayload(p, stage))
<1> DEFINE last == Clamp(p.mid + StageDelta(stage, p.tick))
           depth == StageDepth(stage)
           staged_ == StagePayload(p, stage)
<1>1. p.tick \in Int /\ depth \in Nat \ {0} /\ last \in Lowest .. Highest
  <2>1. p.tick \in Int /\ p.mid \in Int
    BY DEF IsPayload, EvenUnits
  <2>2. depth \in Nat \ {0} /\ StageDelta(stage, p.tick) \in Int
    BY <2>1, Depths
  <2> QED
    BY <2>1, <2>2, ClampedPrice
<1> HIDE DEF last, depth
<1>2. CASE p.source # "clob"
  <2> DEFINE bid == StagedBid(p, last)
             ask == StagedAsk(p, last)
             low == MaxOf(Lowest, bid - p.tick)
             high == MinOf(Highest, ask + p.tick)
  <2>1. Invented(bid, ask, last, p.tick) /\ p.tick \in Nat /\ p.tick >= 2
    BY <1>1, StagedPrices DEF IsPayload, EvenUnits
  <2> HIDE DEF bid, ask
  <2>2. /\ bid \in Int /\ ask \in Int /\ 0 <= bid /\ bid < ask
        /\ low \in Int /\ high \in Int
    BY <1>1, <2>1 DEF Invented, MaxOf, MinOf, Lowest, Highest, Cent
  <2>3. staged_ = [bid |-> bid, ask |-> ask, mid |-> (bid + ask) \div 2, last |-> last,
                   tick |-> p.tick, stage |-> stage, source |-> "synthetic_staged",
                   levels |-> [bids |-> <<Level(bid, depth, Per(bid)),
                                          Level(low, depth, Per(bid))>>,
                               asks |-> <<Level(ask, depth, Per(ask)),
                                          Level(high, depth, Per(ask))>>]]
    BY <1>2 DEF StagePayload, StageLevels, bid, ask, low, high, depth, last
  <2> HIDE DEF staged_
  <2>4. /\ staged_.bid = bid /\ staged_.ask = ask /\ staged_.mid = (bid + ask) \div 2
        /\ staged_.last = last /\ staged_.tick = p.tick
        /\ staged_.source = "synthetic_staged" /\ StageDepth(staged_.stage) = depth
        /\ staged_.levels.bids = <<Level(bid, depth, Per(bid)), Level(low, depth, Per(bid))>>
        /\ staged_.levels.asks = <<Level(ask, depth, Per(ask)), Level(high, depth, Per(ask))>>
    BY <2>3 DEF depth
  <2>5. Surrounds(staged_)
    BY <2>1, <2>4 DEF Surrounds, Invented
  <2>6. ASSUME Cent % p.tick = 0 PROVE CanFill(staged_)
    <3>1. Lowest <= bid /\ bid < ask /\ ask <= Highest
      BY <2>1, <2>6 DEF Invented
    <3>2. low <= bid /\ ask <= high /\ Per(bid) = bid /\ Per(ask) = ask
      BY <1>1, <2>1, <2>2, <3>1 DEF Per, MaxOf, MinOf, Lowest, Highest, Cent
    <3> HIDE DEF low, high
    <3>3. 0 < bid /\ bid <= (bid + ask) \div 2 /\ (bid + ask) \div 2 <= ask
      BY <2>2, <3>1 DEF Lowest, Cent
    <3>4. /\ Level(bid, depth, bid).price = bid /\ Level(ask, depth, ask).price = ask
          /\ Level(low, depth, bid).price = low /\ Level(high, depth, ask).price = high
          /\ ~Below(Level(bid, depth, bid), depth, bid)
          /\ ~Below(Level(ask, depth, ask), depth, ask)
      BY <1>1, <2>2 DEF Level, Below
    <3> DEFINE bids == staged_.levels.bids
               asks == staged_.levels.asks
    <3>5. /\ DOMAIN bids = {1, 2} /\ bids[1].price = bid /\ bids[2].price = low
          /\ ~Below(bids[1], depth, bid)
      BY <2>4, <3>2, <3>4
    <3>6. /\ DOMAIN asks = {1, 2} /\ asks[1].price = ask /\ asks[2].price = high
          /\ ~Below(asks[1], depth, ask)
      BY <2>4, <3>2, <3>4
    <3> HIDE DEF bids, asks
    <3>7. /\ \A i, j \in DOMAIN bids : i < j => bids[i].price >= bids[j].price
          /\ \A i, j \in DOMAIN asks : i < j => asks[i].price <= asks[j].price
      BY <2>2, <3>2, <3>5, <3>6
    <3> USE DEF bids, asks
    <3> QED
      BY <2>2, <2>4, <3>3, <3>5, <3>6, <3>7 DEF CanFill
  <2> QED
    BY <2>4, <2>5, <2>6 DEF ShowsABook, staged_
<1>3. CASE p.source = "clob"
  <2> DEFINE minus == [x \in Nat \ {0} |-> -x]
             same == [x \in Nat \ {0} |-> x]
             deepBids == EnsureTopDepth(p.levels.bids, p.bid, depth)
             deepAsks == EnsureTopDepth(p.levels.asks, p.ask, depth)
             bids == BidSide(deepBids)
             asks == AskSide(deepAsks)
  <2>1. minus \in [Nat \ {0} -> Int] /\ same \in [Nat \ {0} -> Int]
    OBVIOUS
  <2>2. /\ p.levels.bids \in Seq(Levels) /\ p.levels.bids # <<>>
        /\ p.levels.asks \in Seq(Levels) /\ p.levels.asks # <<>>
        /\ p.bid = p.levels.bids[1].price /\ p.ask = p.levels.asks[1].price
        /\ p.bid < p.ask /\ p.bid \in Nat /\ p.ask \in Nat
        /\ \A i, j \in DOMAIN p.levels.bids :
             i < j => p.levels.bids[i].price >= p.levels.bids[j].price
        /\ \A i, j \in DOMAIN p.levels.asks :
             i < j => p.levels.asks[i].price <= p.levels.asks[j].price
    BY <1>3 DEF IsPayload
  <2>3. /\ \A x, y \in Nat \ {0} : minus[x] <= minus[y] <=> x >= y
        /\ \A x \in Nat \ {0} : minus[x] = -x /\ same[x] = x
    OBVIOUS
  <2> HIDE DEF minus, same
  <2>4. \A levels \in Seq(Levels) : \A i \in DOMAIN levels : levels[i].price \in Nat \ {0}
    <3> SUFFICES ASSUME NEW levels \in Seq(Levels), NEW i \in DOMAIN levels
                 PROVE  levels[i].price \in Nat \ {0}
      OBVIOUS
    <3>1. levels[i] \in Levels
      OBVIOUS
    <3> QED
      BY <3>1 DEF Levels, EvenUnits
  <2>5. IsDeepened(p.levels.bids, minus, depth)
    <3>1. \A i, j \in DOMAIN p.levels.bids :
            i < j => minus[p.levels.bids[i].price] <= minus[p.levels.bids[j].price]
      <4> SUFFICES ASSUME NEW i \in DOMAIN p.levels.bids, NEW j \in DOMAIN p.levels.bids,
                          i < j
                   PROVE  minus[p.levels.bids[i].price] <= minus[p.levels.bids[j].price]
        OBVIOUS
      <4>1. p.levels.bids[i].price >= p.levels.bids[j].price
        BY <2>2
      <4>2. p.levels.bids[i].price \in Nat \ {0} /\ p.levels.bids[j].price \in Nat \ {0}
        BY <2>2, <2>4
      <4> QED
        BY <2>3, <4>1, <4>2
    <3> QED
      BY <1>1, <2>1, <2>2, <3>1, DeepenedSide
  <2>6. IsDeepened(p.levels.asks, same, depth)
    <3>1. \A i, j \in DOMAIN p.levels.asks :
            i < j => same[p.levels.asks[i].price] <= same[p.levels.asks[j].price]
      <4>1. \A i \in DOMAIN p.levels.asks :
              same[p.levels.asks[i].price] = p.levels.asks[i].price
        BY <2>2, <2>3, <2>4
      <4> QED
        BY <2>2, <4>1
    <3> QED
      BY <1>1, <2>1, <2>2, <3>1, DeepenedSide
  <2>7. /\ deepBids \in Seq(Levels) /\ deepAsks \in Seq(Levels)
    BY <2>2, <2>5, <2>6 DEF IsDeepened
  <2> HIDE DEF deepBids, deepAsks
  <2>8. /\ [i \in DOMAIN deepBids |-> minus[deepBids[i].price]]
             = [i \in DOMAIN deepBids |-> -deepBids[i].price]
        /\ [i \in DOMAIN deepAsks |-> same[deepAsks[i].price]]
             = [i \in DOMAIN deepAsks |-> deepAsks[i].price]
    BY <2>3, <2>4, <2>7
  <2>9. /\ bids = Side(deepBids, [i \in DOMAIN deepBids |-> minus[deepBids[i].price]])
        /\ asks = Side(deepAsks, [i \in DOMAIN deepAsks |-> same[deepAsks[i].price]])
    BY <2>8 DEF BidSide, AskSide
  <2> HIDE DEF bids, asks
  <2>10. /\ bids \in Seq(Levels) /\ bids # <<>> /\ bids[1].price = p.bid
         /\ ~Below(bids[1], depth, p.bid)
         /\ \A i, j \in DOMAIN bids : i < j => minus[bids[i].price] <= minus[bids[j].price]
    BY <2>2, <2>5, <2>9 DEF IsDeepened, deepBids
  <2>11. /\ asks \in Seq(Levels) /\ asks # <<>> /\ asks[1].price = p.ask
         /\ ~Below(asks[1], depth, p.ask)
         /\ \A i, j \in DOMAIN asks : i < j => same[asks[i].price] <= same[asks[j].price]
    BY <2>2, <2>6, <2>9 DEF IsDeepened, deepAsks
  <2>12. /\ \A i, j \in DOMAIN bids : i < j => bids[i].price >= bids[j].price
         /\ \A i, j \in DOMAIN asks : i < j => asks[i].price <= asks[j].price
    <3>1. /\ \A i \in DOMAIN bids : bids[i].price \in Nat \ {0}
          /\ \A i \in DOMAIN asks : asks[i].price \in Nat \ {0}
      BY <2>4, <2>10, <2>11
    <3>2. ASSUME NEW i \in DOMAIN bids, NEW j \in DOMAIN bids, i < j
          PROVE  bids[i].price >= bids[j].price
      <4>1. minus[bids[i].price] <= minus[bids[j].price]
        BY <2>10, <3>2
      <4> QED
        BY <2>3, <3>1, <4>1
    <3>3. ASSUME NEW i \in DOMAIN asks, NEW j \in DOMAIN asks, i < j
          PROVE  asks[i].price <= asks[j].price
      <4>1. same[asks[i].price] <= same[asks[j].price]
        BY <2>11, <3>3
      <4> QED
        BY <2>3, <3>1, <4>1
    <3> QED
      BY <3>2, <3>3
  <2>13. 0 < p.bid
    <3>1. 1 \in DOMAIN p.levels.bids
      BY <2>2
    <3> QED
      BY <2>2, <2>4, <3>1
  <2>14. p.bid <= (p.bid + p.ask) \div 2 /\ (p.bid + p.ask) \div 2 <= p.ask
    <3>1. \A a, b \in Nat : a <= b => a <= (a + b) \div 2 /\ (a + b) \div 2 <= b
      OBVIOUS
    <3>2. p.bid \in Nat /\ p.ask \in Nat /\ p.bid <= p.ask
      BY <2>2
    <3> QED
      BY <3>1, <3>2
  <2>15. staged_ = [bid |-> p.bid, ask |-> p.ask, mid |-> (p.bid + p.ask) \div 2,
                    last |-> last, tick |-> p.tick, stage |-> stage,
                    source |-> "clob_augmented", levels |-> [bids |-> bids, asks |-> asks]]
    BY <1>3 DEF StagePayload, StageRealLevels, bids, asks, deepBids, deepAsks, depth, last
  <2> HIDE DEF staged_
  <2>16. /\ staged_.bid = p.bid /\ staged_.ask = p.ask
         /\ staged_.mid = (p.bid + p.ask) \div 2 /\ StageDepth(staged_.stage) = depth
         /\ staged_.levels.bids = bids /\ staged_.levels.asks = asks
        /\ staged_.source = "clob_augmented"
    BY <2>15 DEF depth
  <2>17. CanFill(staged_)
    BY <2>2, <2>10, <2>11, <2>12, <2>13, <2>14, <2>16 DEF CanFill
  <2> QED
    BY <2>16, <2>17 DEF ShowsABook, staged_
<1> QED
  BY <1>2, <1>3

-----------------------------------------------------------------------------
(***************************************************************************)
(* The configs.                                                            *)
(***************************************************************************)
\* The exposures of a profile rise from 0 and end with the exit.
IsTargets(list) ==
  /\ Len(list) \in {4, 5} /\ DOMAIN list = 1 .. Len(list)
  /\ \A i \in 1 .. Len(list) : list[i] \in Nat /\ (list[i] = 0 <=> i = Len(list))

\* A config with its types.
IsConfig(c) ==
  /\ c.profiled \in BOOLEAN /\ IsTargets(c.targets)
  /\ c.interval \in Nat /\ c.trigger \in Nat /\ c.active \in Nat
  /\ c.positions = Positions /\ c.stake = Stake

\* Whatever an override replaces, the config has its types and the targets of a
\* profile.
LEMMA ConfigsAreConfigs ==
  ASSUME NEW c \in Configs
  PROVE  IsConfig(c)
<1>1. PICK section \in Configured : c = ConfigOf(section)
  BY DEF Configs
<1> DEFINE profiled == section.profile # NoProfile
           name == IF profiled THEN section.profile ELSE DefaultProfile
           base == Profiles[name]
           over == section.overrides
           stress == ResolveProfile(name, over)
<1>2. /\ name \in {"light", "medium", "heavy"}
      /\ DOMAIN over \subseteq {"interval", "trigger", "active"}
      /\ \A f \in DOMAIN over : over[f] \in Nat
  BY StrategyRunAssumption DEF DefaultProfile
<1>3. /\ IsTargets(base.targets)
      /\ base.interval \in Nat /\ base.trigger \in Nat /\ base.active \in Nat
      /\ DOMAIN base = {"targets", "interval", "trigger", "active"}
  <2>1. /\ IsTargets(<<5, 8, 10, 0>>) /\ IsTargets(<<5, 10, 3, 0>>)
        /\ IsTargets(<<3, 12, 6, 15, 0>>)
    BY DEF IsTargets
  <2>2. CASE name = "light"
    BY <2>1, <2>2 DEF Profiles
  <2>3. CASE name = "medium"
    BY <2>1, <2>3 DEF Profiles
  <2>4. CASE name = "heavy"
    BY <2>1, <2>4 DEF Profiles
  <2> QED
    BY <1>2, <2>2, <2>3, <2>4
<1>4. /\ stress.targets = base.targets
      /\ stress.interval \in Nat /\ stress.trigger \in Nat /\ stress.active \in Nat
  <2>1. stress = [f \in DOMAIN base |-> IF f \in DOMAIN over THEN over[f] ELSE base[f]]
    BY DEF ResolveProfile
  <2> HIDE DEF name, base, over, stress
  <2> QED
    BY <1>2, <1>3, <2>1
<1>5. /\ c.targets = stress.targets /\ c.interval = stress.interval
      /\ c.trigger = stress.trigger /\ c.active = stress.active
      /\ c.positions = Positions /\ c.stake = Stake /\ c.profiled = profiled
  BY <1>1 DEF ConfigOf
<1>6. c.profiled \in BOOLEAN
  BY <1>5, Zenon
<1> HIDE DEF profiled, name, base, over, stress
<1> QED
  BY <1>3, <1>4, <1>5, <1>6 DEF IsConfig

-----------------------------------------------------------------------------
(***************************************************************************)
(* The lists of events.                                                    *)
(***************************************************************************)
IsFeed(list) ==
  /\ Len(list) \in Nat \ {0} /\ DOMAIN list = 1 .. Len(list)
  /\ \A k \in 1 .. Len(list) : list[k].token \in TokenSet /\ list[k].ts \in Nat

\* In the order of time.
InTime(list) ==
  \A j, k \in 1 .. Len(list) : j < k => list[j].ts <= list[k].ts

\* m lists the places of `list` in the order of `sorted`.
Sorts(m, list, sorted) ==
  /\ Len(sorted) = Len(list) /\ DOMAIN sorted = 1 .. Len(list)
  /\ m \in [1 .. Len(list) -> 1 .. Len(list)]
  /\ \A k \in 1 .. Len(list) : sorted[k] = list[m[k]]
  /\ \A i \in 1 .. Len(list) : \E k \in 1 .. Len(list) : m[k] = i
  /\ \A j, k \in 1 .. Len(list) : j < k =>
       \/ sorted[j].ts < sorted[k].ts
       \/ sorted[j].ts = sorted[k].ts /\ m[j] < m[k]

IsSorted(list, sorted) == \E m : Sorts(m, list, sorted)

\* sorted by time keeps every event and the order of events of one time.
LEMMA OrderedSorts ==
  ASSUME NEW list, IsFeed(list)
  PROVE  /\ IsSorted(list, Ordered(list))
         /\ IsFeed(Ordered(list)) /\ InTime(Ordered(list))
<1> DEFINE N == Len(list)
           key == [i \in DOMAIN list |-> list[i].ts]
           m == SortedPlaces(DOMAIN list, key)
           sorted == Ordered(list)
<1>1. /\ N \in Nat \ {0} /\ DOMAIN list = 1 .. N /\ IsFiniteSet(1 .. N)
      /\ Cardinality(1 .. N) = N /\ 1 .. N \subseteq Int
      /\ \A k \in 1 .. N : list[k].token \in TokenSet /\ list[k].ts \in Nat
  BY UptoIsFinite DEF IsFeed
<1>2. \A i \in 1 .. N : key[i] = list[i].ts /\ key[i] \in Int
  BY <1>1
<1> HIDE DEF N, key
<1>3. /\ m \in [1 .. N -> 1 .. N]
      /\ \A i \in 1 .. N : \E k \in 1 .. N : m[k] = i
      /\ \A j \in 1 .. N, k \in 1 .. N : j < k => Precedes(key, m[j], m[k])
  <2> DEFINE s == SortedPlaces(1 .. N, key)
  <2>1. /\ s \in [1 .. Cardinality(1 .. N) -> 1 .. N]
        /\ \A i \in 1 .. N : \E k \in 1 .. Cardinality(1 .. N) : s[k] = i
        /\ \A j \in 1 .. Cardinality(1 .. N), k \in 1 .. Cardinality(1 .. N) :
             j < k => Precedes(key, s[j], s[k])
    BY <1>1, <1>2, SortedPlacesSorts
  <2>2. m = s
    BY <1>1
  <2> HIDE DEF m, s
  <2> QED
    BY <1>1, <2>1, <2>2
<1> HIDE DEF m
<1>4. sorted = [k \in 1 .. N |-> list[m[k]]]
  BY <1>3 DEF Ordered, m, key
<1>5. Len(sorted) = N /\ DOMAIN sorted = 1 .. N
  BY <1>1, <1>4
<1>6. \A k \in 1 .. N : sorted[k] = list[m[k]]
  BY <1>4
<1> HIDE DEF sorted
<1>7. ASSUME NEW j \in 1 .. N, NEW k \in 1 .. N, j < k
      PROVE  \/ sorted[j].ts < sorted[k].ts
             \/ sorted[j].ts = sorted[k].ts /\ m[j] < m[k]
  <2>1. Precedes(key, m[j], m[k]) /\ m[j] \in 1 .. N /\ m[k] \in 1 .. N
    BY <1>3, <1>7
  <2> QED
    BY <1>2, <1>6, <2>1 DEF Precedes
<1>8. Sorts(m, list, sorted)
  BY <1>3, <1>5, <1>6, <1>7 DEF Sorts, N
<1>9. \A k \in 1 .. N : sorted[k].token \in TokenSet /\ sorted[k].ts \in Nat
  BY <1>1, <1>3, <1>6
<1>10. IsFeed(sorted)
  BY <1>1, <1>5, <1>9 DEF IsFeed
<1>11. InTime(sorted)
  BY <1>5, <1>7, <1>9 DEF InTime
<1> QED
  BY <1>8, <1>10, <1>11 DEF IsSorted, sorted

\* The block of an index and its place there, both counted from 0.
Block(k, S) == (k - 1) \div S
StageOf(k, S) == (k - 1) % S

\* In a list of L blocks of S stages each, the stages of a block follow each
\* other, and every block has them all.
LEMMA Blocks ==
  ASSUME NEW S \in {1, 4, 5}, NEW L \in Nat
  PROVE  /\ \A k \in 1 .. L * S : Block(k, S) \in 0 .. L - 1 /\ StageOf(k, S) \in 0 .. S - 1
         /\ \A k \in 1 .. L * S : StageOf(k, S) # 0 =>
              /\ k - 1 \in 1 .. L * S /\ Block(k - 1, S) = Block(k, S)
              /\ StageOf(k - 1, S) = StageOf(k, S) - 1
         /\ \A b \in 0 .. L - 1 : \E k \in 1 .. L * S :
              Block(k, S) = b /\ StageOf(k, S) = S - 1
         /\ \A j, k \in 1 .. L * S : Block(j, S) = Block(k, S) /\ j < k =>
              StageOf(j, S) < StageOf(k, S)
         /\ \A j, k \in 1 .. L * S :
              j < k /\ StageOf(k, S) = 0 => \E l \in 1 .. k - 1 :
                 Block(l, S) = Block(j, S) /\ StageOf(l, S) = S - 1
<1>1. ASSUME NEW s \in {1, 4, 5}, S = s
      PROVE  \A b \in 0 .. L - 1 : /\ b * S + S \in 1 .. L * S
                                   /\ Block(b * S + S, S) = b
                                   /\ StageOf(b * S + S, S) = S - 1
  <2>1. CASE s = 1
    BY <1>1, <2>1 DEF Block, StageOf
  <2>2. CASE s = 4
    BY <1>1, <2>2 DEF Block, StageOf
  <2>3. CASE s = 5
    BY <1>1, <2>3 DEF Block, StageOf
  <2> QED
    BY <2>1, <2>2, <2>3
<1>2. ASSUME NEW s \in {1, 4, 5}, S = s
      PROVE  /\ \A k \in 1 .. L * S : /\ Block(k, S) \in 0 .. L - 1
                                      /\ StageOf(k, S) \in 0 .. S - 1
             /\ \A k \in 1 .. L * S : StageOf(k, S) # 0 =>
                  /\ k - 1 \in 1 .. L * S /\ Block(k - 1, S) = Block(k, S)
                  /\ StageOf(k - 1, S) = StageOf(k, S) - 1
             /\ \A j, k \in 1 .. L * S : Block(j, S) = Block(k, S) /\ j < k =>
                  StageOf(j, S) < StageOf(k, S)
  <2>1. CASE s = 1
    BY <1>2, <2>1 DEF Block, StageOf
  <2>2. CASE s = 4
    BY <1>2, <2>2 DEF Block, StageOf
  <2>3. CASE s = 5
    BY <1>2, <2>3 DEF Block, StageOf
  <2> QED
    BY <2>1, <2>2, <2>3
<1>3. ASSUME NEW s \in {1, 4, 5}, S = s, NEW j \in 1 .. L * S, NEW k \in 1 .. L * S,
             j < k, StageOf(k, S) = 0
      PROVE  /\ Block(j, S) \in 0 .. L - 1
             /\ Block(j, S) * S + S \in 1 .. k - 1
  <2>1. CASE s = 1
    BY <1>3, <2>1 DEF Block, StageOf
  <2>2. CASE s = 4
    BY <1>3, <2>2 DEF Block, StageOf
  <2>3. CASE s = 5
    BY <1>3, <2>3 DEF Block, StageOf
  <2> QED
    BY <2>1, <2>2, <2>3
<1>4. \A b \in 0 .. L - 1 : \E k \in 1 .. L * S : Block(k, S) = b /\ StageOf(k, S) = S - 1
  BY <1>1
<1>5. ASSUME NEW j \in 1 .. L * S, NEW k \in 1 .. L * S, j < k, StageOf(k, S) = 0
      PROVE  \E l \in 1 .. k - 1 : Block(l, S) = Block(j, S) /\ StageOf(l, S) = S - 1
  BY <1>1, <1>3, <1>5
<1> QED
  BY <1>2, <1>4, <1>5

\* The staged events: each stage of a token comes after the one before it, at
\* the interval of the profile, and no token lacks a stage.
Before(list, j, k, interval) ==
  /\ list[j].token = list[k].token
  /\ list[j].payload.stage = list[k].payload.stage - 1
  /\ list[k].ts = list[j].ts + interval

\* With one stage there is one event of a token, and all have the same time.
AtOnce(list) ==
  /\ \A k \in 1 .. Len(list) : list[k].ts = list[1].ts
  /\ \A j, k \in 1 .. Len(list) : list[j].token = list[k].token => j = k

IsStaged(list, S, interval) ==
  /\ \A k \in 1 .. Len(list) : /\ list[k].payload.stage \in 0 .. S - 1
                               /\ ShowsABook(list[k].payload)
  /\ \A k \in 1 .. Len(list) : list[k].payload.stage # 0 =>
       \E j \in 1 .. k - 1 : Before(list, j, k, interval)
  /\ \A t \in TokenSet : \E k \in 1 .. Len(list) :
       list[k].token = t /\ list[k].payload.stage = S - 1
  /\ \A j, k \in 1 .. Len(list) :
       j < k /\ list[j].token = list[k].token => list[j].ts <= list[k].ts
  /\ S = 1 => AtOnce(list)

\* Before a token starts, those before it have had their last event.
OneByOne(list, S) ==
  \A j, k \in 1 .. Len(list) : j < k /\ list[k].payload.stage = 0 =>
    \E l \in 1 .. k - 1 : list[l].token = list[j].token /\ list[l].payload.stage = S - 1

\* The interval between two stages, for the few stages there are.
LEMMA StageTimes ==
  ASSUME NEW start \in Nat, NEW interval \in Nat
  PROVE  /\ \A a \in 0 .. 4 : start + a * interval \in Nat
         /\ \A a \in 1 .. 4 : start + a * interval = start + (a - 1) * interval + interval
         /\ \A a, b \in 0 .. 4 : a < b => start + a * interval <= start + b * interval
<1>1. 0 .. 4 = {0, 1, 2, 3, 4} /\ 1 .. 4 = {1, 2, 3, 4}
  OBVIOUS
<1>2. /\ 0 * interval = 0 /\ 1 * interval = interval /\ 2 * interval = interval + interval
      /\ 3 * interval = interval + interval + interval
      /\ 4 * interval = interval + interval + interval + interval
  OBVIOUS
<1> QED
  BY <1>1, <1>2

\* A list of staged events is one.
LEMMA BootstrapStages ==
  ASSUME NEW books \in Replies, NEW start \in Nat, NEW interval \in Nat,
         NEW S \in {1, 4, 5}
  PROVE  LET list == BootstrapEvents(Tokens, books, start, interval, S) IN
         IsFeed(list) /\ IsStaged(list, S, interval) /\ OneByOne(list, S)
<1> DEFINE list == BootstrapEvents(Tokens, books, start, interval, S)
           L == Len(Tokens)
           N == L * S
<1>1. /\ L \in Nat \ {0} /\ DOMAIN Tokens = 1 .. L /\ N \in Nat \ {0}
      /\ \A i \in 1 .. L : Tokens[i] \in TokenSet
      /\ \A i, j \in 1 .. L : Tokens[i] = Tokens[j] => i = j
      /\ \A t \in TokenSet : \E i \in 1 .. L : Tokens[i] = t
      /\ \A t \in TokenSet : books[t] = NoBook \/ IsBook(books[t])
  <2>1. L \in Nat /\ DOMAIN Tokens = 1 .. L /\ L # 0
    BY FeedsAssumption
  <2>2. N \in Nat \ {0}
    BY <2>1
  <2> QED
    BY <2>1, <2>2, FeedsAssumption DEF TokenSet
<1>2. list = [k \in 1 .. N |->
                StageEvent(Tokens[Block(k, S) + 1], books[Tokens[Block(k, S) + 1]],
                           start, interval, StageOf(k, S))]
  BY DEF BootstrapEvents, Block, StageOf
<1>3. Len(list) = N /\ DOMAIN list = 1 .. N
  BY <1>1, <1>2
<1>4. ASSUME NEW k \in 1 .. N
      PROVE  LET token == Tokens[Block(k, S) + 1] IN
             /\ list[k].token = token
             /\ list[k].ts = start + StageOf(k, S) * interval
             /\ list[k].payload = StagePayload(MarketPayload(books[token]), StageOf(k, S))
             /\ list[k].payload.stage = StageOf(k, S)
  <2> DEFINE token == Tokens[Block(k, S) + 1]
             stage == StageOf(k, S)
             payload == MarketPayload(books[token])
  <2>1. list[k] = StageEvent(token, books[token], start, interval, stage)
    BY <1>2
  <2>2. StagePayload(payload, stage).stage = stage
    <3> HIDE DEF payload, stage
    <3> QED
      BY DEF StagePayload
  <2> HIDE DEF token, stage, list
  <2>3. /\ list[k].token = token /\ list[k].ts = start + stage * interval
        /\ list[k].payload = StagePayload(payload, stage)
    BY <2>1 DEF StageEvent
  <2> QED
    BY <2>2, <2>3 DEF token, stage
<1> HIDE DEF list, N, L
<1>5. /\ \A k \in 1 .. N : Block(k, S) \in 0 .. L - 1 /\ StageOf(k, S) \in 0 .. S - 1
      /\ \A k \in 1 .. N : StageOf(k, S) # 0 =>
           /\ k - 1 \in 1 .. N /\ Block(k - 1, S) = Block(k, S)
           /\ StageOf(k - 1, S) = StageOf(k, S) - 1
      /\ \A b \in 0 .. L - 1 : \E k \in 1 .. N : Block(k, S) = b /\ StageOf(k, S) = S - 1
      /\ \A j, k \in 1 .. N : Block(j, S) = Block(k, S) /\ j < k =>
           StageOf(j, S) < StageOf(k, S)
      /\ \A j, k \in 1 .. N : j < k /\ StageOf(k, S) = 0 => \E l \in 1 .. k - 1 :
           Block(l, S) = Block(j, S) /\ StageOf(l, S) = S - 1
  BY <1>1, Blocks, ZenonT(60) DEF N
<1>6. \A k \in 1 .. N : /\ StageOf(k, S) \in 0 .. 4 /\ StageOf(k, S) \in Nat
                        /\ Block(k, S) + 1 \in 1 .. L /\ Block(k, S) \in Int
  <2> SUFFICES ASSUME NEW k \in 1 .. N
               PROVE  /\ StageOf(k, S) \in 0 .. 4 /\ StageOf(k, S) \in Nat
                      /\ Block(k, S) + 1 \in 1 .. L /\ Block(k, S) \in Int
    OBVIOUS
  <2>1. Block(k, S) \in 0 .. L - 1 /\ StageOf(k, S) \in 0 .. S - 1
    BY <1>5
  <2> QED
    BY <1>1, <2>1, SMTT(30)
<1>7. \A j, k \in 1 .. N : list[j].token = list[k].token <=> Block(j, S) = Block(k, S)
  <2> SUFFICES ASSUME NEW j \in 1 .. N, NEW k \in 1 .. N
               PROVE  list[j].token = list[k].token <=> Block(j, S) = Block(k, S)
    OBVIOUS
  <2>1. list[j].token = Tokens[Block(j, S) + 1] /\ list[k].token = Tokens[Block(k, S) + 1]
    BY <1>4
  <2>2. /\ Block(j, S) + 1 \in 1 .. L /\ Block(k, S) + 1 \in 1 .. L
        /\ Block(j, S) \in Int /\ Block(k, S) \in Int
    BY <1>6
  <2>3. Tokens[Block(j, S) + 1] = Tokens[Block(k, S) + 1]
          => Block(j, S) + 1 = Block(k, S) + 1
    BY <1>1, <2>2
  <2> QED
    BY <2>1, <2>2, <2>3
<1>8. IsFeed(list)
  <2>1. ASSUME NEW k \in 1 .. N
        PROVE  list[k].token \in TokenSet /\ list[k].ts \in Nat
    <3>1. start + StageOf(k, S) * interval \in Nat
      BY <1>6, StageTimes
    <3>2. Tokens[Block(k, S) + 1] \in TokenSet
      BY <1>1, <1>6
    <3> QED
      BY <1>4, <3>1, <3>2
  <2> QED
    BY <1>1, <1>3, <2>1 DEF IsFeed
<1>9. \A k \in 1 .. N : /\ list[k].payload.stage \in 0 .. S - 1
                        /\ ShowsABook(list[k].payload)
  <2> SUFFICES ASSUME NEW k \in 1 .. N
               PROVE  list[k].payload.stage \in 0 .. S - 1 /\ ShowsABook(list[k].payload)
    OBVIOUS
  <2> DEFINE book == books[Tokens[Block(k, S) + 1]]
  <2>1. book = NoBook \/ IsBook(book)
    BY <1>1, <1>6
  <2>2. IsPayload(MarketPayload(book))
    BY <2>1, MarketPayloads
  <2>3. ShowsABook(StagePayload(MarketPayload(book), StageOf(k, S)))
    BY <1>6, <2>2, StagesShowBooks
  <2> QED
    BY <1>4, <1>5, <2>3
<1>10. ASSUME NEW k \in 1 .. N, list[k].payload.stage # 0
       PROVE  \E j \in 1 .. k - 1 : Before(list, j, k, interval)
  <2>1. list[k].payload.stage = StageOf(k, S) /\ StageOf(k, S) # 0
    BY <1>4, <1>10
  <2>2. /\ k - 1 \in 1 .. N /\ k - 1 \in 1 .. k - 1 /\ Block(k - 1, S) = Block(k, S)
        /\ StageOf(k - 1, S) = StageOf(k, S) - 1
    BY <1>5, <2>1
  <2>3. /\ list[k - 1].ts = start + StageOf(k - 1, S) * interval
        /\ list[k].ts = start + StageOf(k, S) * interval
        /\ list[k - 1].payload.stage = StageOf(k - 1, S)
    BY <1>4, <2>2
  <2>4. StageOf(k, S) \in 1 .. 4
    BY <1>6, <2>1
  <2>5. start + StageOf(k, S) * interval
          = start + (StageOf(k, S) - 1) * interval + interval
    BY <2>4, StageTimes
  <2>6. list[k - 1].token = list[k].token
    BY <1>7, <2>2
  <2>7. list[k].ts = list[k - 1].ts + interval
    BY <2>2, <2>3, <2>5
  <2>8. Before(list, k - 1, k, interval)
    BY <2>1, <2>2, <2>3, <2>6, <2>7 DEF Before
  <2> QED
    BY <2>2, <2>8
<1>11. ASSUME NEW t \in TokenSet
       PROVE  \E k \in 1 .. N : list[k].token = t /\ list[k].payload.stage = S - 1
  <2>1. PICK i \in 1 .. L : Tokens[i] = t
    BY <1>1
  <2>2. i - 1 \in 0 .. L - 1 /\ (i - 1) + 1 = i
    BY <1>1
  <2>3. PICK k \in 1 .. N : Block(k, S) = i - 1 /\ StageOf(k, S) = S - 1
    BY <1>5, <2>2
  <2> QED
    BY <1>4, <2>1, <2>2, <2>3
<1>12. ASSUME NEW j \in 1 .. N, NEW k \in 1 .. N, j < k, list[j].token = list[k].token
       PROVE  list[j].ts <= list[k].ts
  <2>1. StageOf(j, S) < StageOf(k, S)
    BY <1>5, <1>7, <1>12
  <2>2. /\ list[j].ts = start + StageOf(j, S) * interval
        /\ list[k].ts = start + StageOf(k, S) * interval
    BY <1>4
  <2> QED
    <3>1. start + StageOf(j, S) * interval <= start + StageOf(k, S) * interval
      BY <1>6, <2>1, StageTimes
    <3> QED
      BY <2>2, <3>1
<1>a. ASSUME S = 1 PROVE AtOnce(list)
  <2> SUFFICES ASSUME NEW j \in 1 .. N, NEW k \in 1 .. N
               PROVE  /\ list[j].ts = list[k].ts
                      /\ list[j].token = list[k].token => j = k
    <3>1. 1 \in 1 .. N
      BY <1>1
    <3> QED
      BY <1>3, <3>1 DEF AtOnce
  <2>1. StageOf(j, S) = 0 /\ StageOf(k, S) = 0
    <3>1. StageOf(j, S) \in 0 .. S - 1 /\ StageOf(k, S) \in 0 .. S - 1
      BY <1>5
    <3> QED
      BY <1>a, <3>1
  <2>2. list[j].ts = list[k].ts
    BY <1>4, <2>1
  <2>3. j < k \/ k < j => list[j].token # list[k].token
    BY <1>5, <1>7, <2>1
  <2>4. ~(j < k) /\ ~(k < j) => j = k
    BY <1>1
  <2> QED
    BY <2>2, <2>3, <2>4
<1>13. IsStaged(list, S, interval)
  BY <1>3, <1>9, <1>10, <1>11, <1>12, <1>a DEF IsStaged
<1>14. ASSUME NEW j \in 1 .. N, NEW k \in 1 .. N, j < k, list[k].payload.stage = 0
       PROVE  \E l \in 1 .. k - 1 : /\ list[l].token = list[j].token
                                    /\ list[l].payload.stage = S - 1
  <2>1. StageOf(k, S) = 0
    BY <1>4, <1>14
  <2>2. PICK l \in 1 .. k - 1 : Block(l, S) = Block(j, S) /\ StageOf(l, S) = S - 1
    BY <1>5, <1>14, <2>1
  <2>3. l \in 1 .. N
    BY <1>1
  <2> QED
    BY <1>4, <1>7, <2>2, <2>3
<1>15. OneByOne(list, S)
  BY <1>3, <1>14 DEF OneByOne
<1> QED
  BY <1>8, <1>13, <1>15 DEF list

\* Sorted by time they keep that, but the tokens take turns.
LEMMA OrderedStages ==
  ASSUME NEW list, IsFeed(list), NEW S \in Nat, NEW interval \in Nat,
         IsStaged(list, S, interval), NEW sorted, IsSorted(list, sorted), IsFeed(sorted)
  PROVE  IsStaged(sorted, S, interval)
<1>1. PICK m : Sorts(m, list, sorted)
  BY DEF IsSorted
<1> DEFINE N == Len(list)
<1>2. /\ N \in Nat /\ Len(sorted) = N
      /\ \A k \in 1 .. N : m[k] \in 1 .. N /\ m[k] \in Int /\ sorted[k] = list[m[k]]
  BY <1>1 DEF Sorts, IsFeed
<1>a. \A i \in 1 .. N : \E k \in 1 .. N : m[k] = i
  BY <1>1 DEF Sorts
<1>b. \A j, k \in 1 .. N : /\ j < k => sorted[j].ts <= sorted[k].ts
                           /\ j < k /\ sorted[j].ts = sorted[k].ts => m[j] < m[k]
  <2> SUFFICES ASSUME NEW j \in 1 .. N, NEW k \in 1 .. N, j < k
               PROVE  /\ sorted[j].ts <= sorted[k].ts
                      /\ sorted[j].ts = sorted[k].ts => m[j] < m[k]
    OBVIOUS
  <2>1. sorted[j].ts \in Nat /\ sorted[k].ts \in Nat
    BY <1>2 DEF IsFeed
  <2>2. \/ sorted[j].ts < sorted[k].ts
        \/ sorted[j].ts = sorted[k].ts /\ m[j] < m[k]
    BY <1>1 DEF Sorts
  <2> QED
    BY <2>1, <2>2
<1>c. \A k \in 1 .. N : sorted[k].ts \in Nat
  BY <1>2 DEF IsFeed
<1> HIDE DEF N
<1>3. /\ \A k \in 1 .. N : /\ list[k].payload.stage \in 0 .. S - 1
                           /\ ShowsABook(list[k].payload)
      /\ \A k \in 1 .. N : list[k].payload.stage # 0 =>
           \E j \in 1 .. k - 1 : Before(list, j, k, interval)
      /\ \A t \in TokenSet : \E k \in 1 .. N :
           list[k].token = t /\ list[k].payload.stage = S - 1
  BY DEF IsStaged, N
<1>4. ASSUME NEW k \in 1 .. N, sorted[k].payload.stage # 0
      PROVE  \E j \in 1 .. k - 1 : Before(sorted, j, k, interval)
  <2>1. PICK i \in 1 .. m[k] - 1 : Before(list, i, m[k], interval)
    BY <1>2, <1>3, <1>4
  <2>2. m[k] \in 1 .. N /\ i \in 1 .. N /\ i < m[k]
    <3>1. m[k] \in 1 .. N /\ m[k] \in Int /\ N \in Nat
      BY <1>2
    <3> QED
      BY <3>1
  <2>3. PICK j \in 1 .. N : m[j] = i
    BY <1>a, <2>2
  <2>4. Before(sorted, j, k, interval)
    <3>1. sorted[j] = list[i] /\ sorted[k] = list[m[k]]
      BY <1>2, <2>3
    <3> QED
      BY <2>1, <3>1 DEF Before
  <2>5. j < k
    <3>1. sorted[j].ts <= sorted[k].ts /\ sorted[j].ts \in Nat /\ sorted[k].ts \in Nat
      BY <1>c, <2>4 DEF Before
    <3>2. ~(k < j)
      <4> SUFFICES ASSUME k < j PROVE FALSE
        OBVIOUS
      <4>1. sorted[k].ts <= sorted[j].ts
        BY <1>b
      <4>2. sorted[k].ts = sorted[j].ts
        BY <3>1, <4>1
      <4>3. m[k] < i
        BY <1>b, <2>3, <4>2
      <4> QED
        BY <1>2, <2>2, <4>3
    <3>3. j # k
      BY <1>2, <2>2, <2>3
    <3> QED
      BY <3>2, <3>3, <1>2
  <2>6. j \in 1 .. k - 1
    BY <1>2, <2>5
  <2> QED
    BY <2>4, <2>6
<1>5. ASSUME NEW t \in TokenSet
      PROVE  \E k \in 1 .. N : sorted[k].token = t /\ sorted[k].payload.stage = S - 1
  <2>1. PICK i \in 1 .. N : list[i].token = t /\ list[i].payload.stage = S - 1
    BY <1>3
  <2>2. PICK k \in 1 .. N : m[k] = i
    BY <1>a
  <2> QED
    BY <1>2, <2>1, <2>2
<1>6. ASSUME NEW k \in 1 .. N
      PROVE  /\ sorted[k].payload.stage \in 0 .. S - 1
             /\ ShowsABook(sorted[k].payload)
  <2>1. m[k] \in 1 .. N /\ sorted[k] = list[m[k]]
    BY <1>2
  <2> QED
    BY <1>3, <2>1
<1>7. \A j, k \in 1 .. N :
        j < k /\ sorted[j].token = sorted[k].token => sorted[j].ts <= sorted[k].ts
  BY <1>b
<1>8. ASSUME S = 1 PROVE AtOnce(sorted)
  <2>1. /\ \A i \in 1 .. N : list[i].ts = list[1].ts
        /\ \A i, j \in 1 .. N : list[i].token = list[j].token => i = j
    BY <1>8 DEF IsStaged, AtOnce, N
  <2> SUFFICES ASSUME NEW j \in 1 .. N, NEW k \in 1 .. N
               PROVE  /\ sorted[j].ts = sorted[k].ts
                      /\ sorted[j].token = sorted[k].token => j = k
    <3>1. N >= 1 => 1 \in 1 .. N
      BY <1>2
    <3>2. 1 .. N # {} => N >= 1
      BY <1>2
    <3> QED
      BY <1>2, <3>1, <3>2 DEF AtOnce
  <2>2. /\ sorted[j] = list[m[j]] /\ sorted[k] = list[m[k]]
        /\ m[j] \in 1 .. N /\ m[k] \in 1 .. N
    BY <1>2
  <2>a. /\ list[m[j]].ts = list[m[k]].ts
        /\ list[m[j]].token = list[m[k]].token => m[j] = m[k]
    <3>1. m[j] \in 1 .. N /\ m[k] \in 1 .. N
      BY <2>2
    <3> QED
      BY <2>1, <3>1
  <2>3. /\ sorted[j].ts = sorted[k].ts
        /\ sorted[j].token = sorted[k].token => m[j] = m[k]
    BY <2>2, <2>a
  <2>4. m[j] = m[k] => j = k
    <3>1. j < k => m[j] < m[k]
      BY <1>b, <2>3
    <3>2. k < j => m[k] < m[j]
      BY <1>b, <2>3
    <3>3. m[j] \in Int /\ m[k] \in Int /\ (j < k \/ k < j \/ j = k)
      BY <1>2
    <3> QED
      BY <3>1, <3>2, <3>3
  <2> QED
    BY <2>3, <2>4
<1> QED
  BY <1>2, <1>4, <1>5, <1>6, <1>7, <1>8 DEF IsStaged

-----------------------------------------------------------------------------
(***************************************************************************)
(* What a run is fed with, from its first state to the last.               *)
(***************************************************************************)
Fed ==
  /\ IsConfig(config) /\ kind \in Kinds /\ replay \in BOOLEAN /\ staged \in BOOLEAN
  /\ IsFeed(events)
  /\ replay => InTime(events)
  /\ staged => /\ IsStaged(events, StageCount, config.interval)
               /\ ~replay => OneByOne(events, StageCount)

\* A run starts with a list of events that is one.
LEMMA InitFed == Init => Fed
<1> SUFFICES ASSUME Init PROVE Fed
  OBVIOUS
<1>1. /\ IsConfig(config) /\ kind \in Kinds /\ replay \in BOOLEAN /\ staged \in BOOLEAN
  BY ConfigsAreConfigs DEF Init
<1>2. StageCount \in {1, 4, 5} /\ config.interval \in Nat
  <2>1. Len(config.targets) \in {4, 5} /\ config.interval \in Nat
    BY <1>1 DEF IsConfig, IsTargets
  <2> QED
    BY <2>1 DEF StageCount
<1>3. PICK list \in IF staged THEN StagedLists ELSE Feeds :
        events = IF replay THEN Ordered(list) ELSE list
  BY DEF Init
<1>4. CASE staged
  <2>1. PICK books \in Replies, start \in Starts :
          list = BootstrapEvents(Tokens, books, start, config.interval, StageCount)
    BY <1>3, <1>4 DEF StagedLists
  <2>2. start \in Nat
    BY StrategyRunAssumption
  <2>3. /\ IsFeed(list) /\ IsStaged(list, StageCount, config.interval)
        /\ OneByOne(list, StageCount)
    BY <1>2, <2>1, <2>2, BootstrapStages
  <2>4. CASE replay
    <3>1. IsSorted(list, events) /\ IsFeed(events) /\ InTime(events)
      BY <1>3, <2>3, <2>4, OrderedSorts
    <3>2. IsStaged(events, StageCount, config.interval)
      BY <1>2, <2>3, <3>1, OrderedStages
    <3> QED
      BY <1>1, <2>4, <3>1, <3>2 DEF Fed
  <2>5. CASE ~replay
    BY <1>1, <1>3, <2>3, <2>5 DEF Fed
  <2> QED
    BY <2>4, <2>5
<1>5. CASE ~staged
  <2>1. list # <<>> /\ list \in Seq([token : TokenSet, ts : Nat])
    BY <1>3, <1>5, FeedsAssumption
  <2>2. IsFeed(list)
    <3> DEFINE Event == [token : TokenSet, ts : Nat]
    <3>1. list # <<>> /\ list \in Seq(Event)
      BY <2>1
    <3>2. \A e \in Event : e.token \in TokenSet /\ e.ts \in Nat
      OBVIOUS
    <3> HIDE DEF Event
    <3>3. Len(list) \in Nat \ {0} /\ DOMAIN list = 1 .. Len(list)
      BY <3>1
    <3>4. \A k \in 1 .. Len(list) : list[k] \in Event
      BY <3>1
    <3> QED
      BY <3>2, <3>3, <3>4 DEF IsFeed
  <2>3. CASE replay
    BY <1>1, <1>3, <1>5, <2>2, <2>3, OrderedSorts DEF Fed
  <2>4. CASE ~replay
    BY <1>1, <1>3, <1>5, <2>2, <2>4 DEF Fed
  <2> QED
    BY <2>3, <2>4
<1> QED
  BY <1>4, <1>5

\* No step changes what the run is fed with.
LEMMA StepFed == Fed /\ [Next]_vars => Fed'
<1> SUFFICES ASSUME Fed, [Next]_vars PROVE Fed'
  OBVIOUS
<1>1. UNCHANGED run
  BY DEF Next, DeliverTick, DeliverEvent, vars, run
<1> QED
  BY <1>1 DEF run, Fed, StageCount

\* Every staged event shows a book an order can be filled from, whatever the CLOB
\* returned for the token, unless the book is invented and the tick divides no
\* cent; then its prices still surround the one they were invented for.
THEOREM StagedBooksAlwaysBooks == Spec => []StagedBooksAreBooks
<1>1. Fed => StagedBooksAreBooks
  BY DEF Fed, IsFeed, IsStaged, StagedBooksAreBooks
<1> QED
  BY <1>1, InitFed, StepFed, PTL DEF Spec

-----------------------------------------------------------------------------
(***************************************************************************)
(* The clock of a replay.                                                  *)
(***************************************************************************)
\* The quotient of a time and a step.
IsQuotient(d, a, c) == d \in Nat /\ d * c <= a /\ a < (d + 1) * c

\* The quotient of a natural and a positive number, and that no other number is.
LEMMA Quotient ==
  ASSUME NEW a \in Nat, NEW c \in Nat \ {0}
  PROVE  /\ a \div c \in Nat /\ IsQuotient(a \div c, a, c)
         /\ \A q \in Int : q * c <= a /\ a < (q + 1) * c => a \div c = q
<1> DEFINE d == a \div c
           r == a % c
<1>1. d \in Int /\ r \in 0 .. c - 1 /\ a = c * d + r
  OBVIOUS
<1> HIDE DEF d, r
<1>2. c * d = d * c /\ (d + 1) * c = d * c + c /\ d * c \in Int
  BY <1>1
<1>3. d * c <= a /\ a < (d + 1) * c
  BY <1>1, <1>2
<1>4. d \in Nat
  <2>1. 0 * c < (d + 1) * c
    BY <1>1, <1>3
  <2>2. 0 < d + 1
    BY <1>1, <2>1, FactorsCompare
  <2> QED
    BY <1>1, <2>2
<1>5. ASSUME NEW q \in Int, q * c <= a, a < (q + 1) * c PROVE d = q
  <2>1. d * c \in Int /\ q * c \in Int /\ (d + 1) * c \in Int /\ (q + 1) * c \in Int
    BY <1>1
  <2>2. d * c < (q + 1) * c /\ q * c < (d + 1) * c
    BY <1>3, <1>5, <2>1
  <2>3. d < q + 1 /\ q < d + 1
    BY <1>1, <2>2, FactorsCompare
  <2> QED
    BY <1>1, <2>3
<1> QED
  BY <1>3, <1>4, <1>5 DEF d, IsQuotient

\* The calls so far, and none of them later than an event or a tick to come.
\* q ticks of the step have passed up to next_tick.
Clocked ==
  /\ Fed
  /\ next \in 1 .. Len(events) + 1 /\ tick \in Nat /\ calls \in Seq(Nat)
  /\ replay =>
       /\ \A i \in 1 .. Len(calls) :
            /\ calls[i] <= tick
            /\ \A k \in next .. Len(events) : calls[i] <= events[k].ts
       /\ \A i \in 1 .. Len(calls) : i > 1 => calls[i - 1] <= calls[i]
       /\ tick - TimeStep <= LastTs
       /\ \E q \in Nat : /\ tick = q * TimeStep
                         /\ Len(calls) = next - 1 + (q - 1 - FirstTs(events) \div TimeStep)

\* The times of the first and the last event.
LEMMA EndsOfFeed ==
  ASSUME Fed
  PROVE  /\ Len(events) \in Nat \ {0}
         /\ \A k \in 1 .. Len(events) : events[k].ts \in Nat /\ events[k].token \in TokenSet
         /\ FirstTs(events) \in Nat /\ LastTs \in Nat
         /\ replay => \A k \in 1 .. Len(events) : events[k].ts <= LastTs
         /\ replay => FirstTs(events) <= LastTs
         /\ replay => \A j, k \in 1 .. Len(events) :
              j <= k => events[j].ts <= events[k].ts
<1>1. /\ Len(events) \in Nat \ {0}
      /\ \A k \in 1 .. Len(events) : events[k].ts \in Nat /\ events[k].token \in TokenSet
      /\ replay => \A j, k \in 1 .. Len(events) : j < k => events[j].ts <= events[k].ts
  BY DEF Fed, IsFeed, InTime
<1>2. replay => \A j, k \in 1 .. Len(events) : j <= k => events[j].ts <= events[k].ts
  <2> SUFFICES ASSUME replay, NEW j \in 1 .. Len(events), NEW k \in 1 .. Len(events), j <= k
               PROVE  events[j].ts <= events[k].ts
    OBVIOUS
  <2>1. CASE j = k
    BY <1>1, <2>1
  <2>2. CASE j # k
    BY <1>1, <2>2
  <2> QED
    BY <2>1, <2>2
<1>3. 1 \in 1 .. Len(events) /\ Len(events) \in 1 .. Len(events)
  BY <1>1
<1>4. replay => \A k \in 1 .. Len(events) : events[k].ts <= events[Len(events)].ts
  BY <1>1, <1>2, <1>3
<1> QED
  BY <1>1, <1>2, <1>3, <1>4 DEF FirstTs, LastTs

\* The first tick is the first multiple of the step after the first event.
LEMMA InitClocked == Init => Clocked
<1> SUFFICES ASSUME Init PROVE Clocked
  OBVIOUS
<1>1. Fed
  BY InitFed
<1> DEFINE first == FirstTs(events)
           d == first \div TimeStep
           q == d + 1
<1>2. /\ TimeStep \in Nat \ {0} /\ first \in Nat /\ LastTs \in Nat
      /\ Len(events) \in Nat \ {0}
      /\ replay => first <= LastTs
  BY <1>1, EndsOfFeed, StrategyRunAssumption
<1>3. IsQuotient(d, first, TimeStep)
  BY <1>2, Quotient
<1>4. next = 1 /\ calls = <<>> /\ tick = q * TimeStep
  BY DEF Init, AlignFirstTick
<1> HIDE DEF d
<1>5. /\ d \in Nat /\ q * TimeStep \in Nat
      /\ q * TimeStep - TimeStep = d * TimeStep /\ d * TimeStep <= first
      /\ d * TimeStep \in Nat
  BY <1>2, <1>3 DEF IsQuotient
<1>6. replay => tick - TimeStep <= LastTs
  <2> DEFINE low == d * TimeStep
  <2>1. low \in Int /\ low <= first
    BY <1>2, <1>5
  <2>2. tick - TimeStep = low
    BY <1>4, <1>5
  <2> HIDE DEF low, first
  <2> QED
    BY <1>2, <2>1, <2>2
<1>7. q \in Nat /\ Len(calls) = next - 1 + (q - 1 - d)
  BY <1>4, <1>5
<1>8. Len(calls) = 0 /\ calls \in Seq(Nat) /\ next \in 1 .. Len(events) + 1
  BY <1>2, <1>4
<1>9. 1 .. Len(calls) = {}
  BY <1>8
<1> HIDE DEF first, q
<1> QED
  BY <1>1, <1>4, <1>5, <1>6, <1>7, <1>8, <1>9 DEF Clocked, first, d

\* A call that is not before the others nor after what comes keeps them sorted.
LEMMA CallNoted ==
  ASSUME NEW list \in Seq(Nat), NEW ts \in Nat,
         \A i \in 1 .. Len(list) : list[i] <= ts,
         \A i \in 1 .. Len(list) : i > 1 => list[i - 1] <= list[i]
  PROVE  LET more == Append(list, ts) IN
         /\ more \in Seq(Nat) /\ Len(more) = Len(list) + 1
         /\ \A i \in 1 .. Len(more) : more[i] <= ts
         /\ \A i \in 1 .. Len(more) : i > 1 => more[i - 1] <= more[i]
<1> DEFINE more == Append(list, ts)
           n == Len(list)
<1>1. /\ more \in Seq(Nat) /\ Len(more) = n + 1 /\ n \in Nat /\ more[n + 1] = ts
      /\ \A i \in 1 .. n : more[i] = list[i] /\ list[i] \in Nat
  OBVIOUS
<1> HIDE DEF more, n
<1>2. \A i \in 1 .. n : list[i] <= ts /\ (i > 1 => list[i - 1] <= list[i])
  BY DEF n
<1>3. \A i \in 1 .. n + 1 : more[i] <= ts
  BY <1>1, <1>2
<1>4. ASSUME NEW i \in 1 .. n + 1, i > 1 PROVE more[i - 1] <= more[i]
  <2>1. i - 1 \in 1 .. n
    BY <1>1, <1>4
  <2>2. CASE i = n + 1
    BY <1>1, <1>2, <2>1, <2>2
  <2>3. CASE i # n + 1
    <3>1. i \in 1 .. n
      BY <1>1, <2>3
    <3> QED
      BY <1>1, <1>2, <1>4, <2>1, <3>1
  <2> QED
    BY <2>2, <2>3
<1> QED
  BY <1>1, <1>3, <1>4 DEF more, n

\* Every call comes in the order of time, and every tick is counted.
LEMMA StepClocked == Clocked /\ [Next]_vars => Clocked'
<1> SUFFICES ASSUME Clocked, [Next]_vars PROVE Clocked'
  OBVIOUS
<1>1. Fed /\ Fed' /\ TimeStep \in Nat \ {0}
  BY StepFed, StrategyRunAssumption DEF Clocked
<1>2. /\ Len(events) \in Nat \ {0}
      /\ \A k \in 1 .. Len(events) : events[k].ts \in Nat
      /\ LastTs \in Nat
      /\ replay => \A j, k \in 1 .. Len(events) : j <= k => events[j].ts <= events[k].ts
      /\ replay => \A k \in 1 .. Len(events) : events[k].ts <= LastTs
  BY <1>1, EndsOfFeed
<1>3. next \in 1 .. Len(events) + 1 /\ tick \in Nat /\ calls \in Seq(Nat)
  BY DEF Clocked
<1>4. CASE DeliverTick
  <2>1. /\ TickDue /\ tick' = tick + TimeStep /\ calls' = Append(calls, tick)
        /\ next' = next /\ events' = events /\ replay' = replay
    BY <1>4 DEF DeliverTick, Called, run
  <2>2. /\ replay
        /\ IF next <= Len(events) THEN tick < events[next].ts ELSE tick <= LastTs
    BY <2>1 DEF TickDue
  <2>3. /\ \A i \in 1 .. Len(calls) : calls[i] <= tick
        /\ \A i \in 1 .. Len(calls) : i > 1 => calls[i - 1] <= calls[i]
    BY <2>2 DEF Clocked
  <2>4. /\ calls' \in Seq(Nat) /\ Len(calls') = Len(calls) + 1 /\ Len(calls) \in Nat
        /\ \A i \in 1 .. Len(calls') : calls'[i] <= tick
        /\ \A i \in 1 .. Len(calls') : i > 1 => calls'[i - 1] <= calls'[i]
    BY <1>3, <2>1, <2>3, CallNoted
  <2>5. \A k \in next .. Len(events) : tick <= events[k].ts
    <3> SUFFICES ASSUME NEW k \in next .. Len(events) PROVE tick <= events[k].ts
      OBVIOUS
    <3>1. k \in 1 .. Len(events) /\ next \in 1 .. Len(events) /\ next <= k
      BY <1>2, <1>3
    <3>2. tick < events[next].ts /\ events[next].ts <= events[k].ts
      BY <1>2, <2>2, <3>1
    <3> QED
      BY <1>2, <1>3, <3>1, <3>2
  <2>6. tick <= LastTs
    <3>1. CASE next <= Len(events)
      <4>1. next \in 1 .. Len(events)
        BY <1>2, <1>3, <3>1
      <4>2. tick < events[next].ts /\ events[next].ts <= LastTs /\ events[next].ts \in Nat
        BY <1>2, <2>2, <3>1, <4>1
      <4> QED
        BY <1>2, <1>3, <4>2
    <3> QED
      BY <2>2, <3>1
  <2>7. PICK q \in Nat : /\ tick = q * TimeStep
                         /\ Len(calls) = next - 1 + (q - 1 - FirstTs(events) \div TimeStep)
    BY <2>2 DEF Clocked
  <2>8. tick' = (q + 1) * TimeStep
    BY <1>1, <2>1, <2>7
  <2>9. Len(calls') = next' - 1 + ((q + 1) - 1 - FirstTs(events') \div TimeStep)
    <3>1. FirstTs(events) \div TimeStep \in Nat
      BY <1>1, EndsOfFeed, Quotient
    <3> DEFINE f == FirstTs(events) \div TimeStep
    <3>2. f \in Nat /\ Len(calls) = next - 1 + (q - 1 - f) /\ FirstTs(events') \div TimeStep = f
      BY <2>1, <2>7, <3>1
    <3> HIDE DEF f
    <3> QED
      BY <1>3, <2>1, <2>4, <3>2
  <2>10. tick' \in Nat /\ tick <= tick' /\ tick' - TimeStep = tick
    BY <1>1, <1>3, <2>1
  <2>11. ASSUME NEW i \in 1 .. Len(calls')
         PROVE  /\ calls'[i] <= tick'
                /\ \A k \in next' .. Len(events') : calls'[i] <= events'[k].ts
    <3>1. calls'[i] <= tick /\ calls'[i] \in Nat
      BY <2>4
    <3>2. calls'[i] <= tick'
      BY <1>3, <2>10, <3>1
    <3>3. \A k \in next .. Len(events) : calls'[i] <= events[k].ts
      <4> SUFFICES ASSUME NEW k \in next .. Len(events) PROVE calls'[i] <= events[k].ts
        OBVIOUS
      <4>1. tick <= events[k].ts /\ events[k].ts \in Nat
        BY <1>2, <1>3, <2>5
      <4> QED
        BY <1>3, <3>1, <4>1
    <3> QED
      BY <2>1, <3>2, <3>3
  <2>12. next' \in 1 .. Len(events') + 1 /\ LastTs' = LastTs /\ q + 1 \in Nat
    BY <1>3, <2>1 DEF LastTs
  <2>13. tick' - TimeStep <= LastTs'
    BY <2>6, <2>10, <2>12
  <2>14. \E p \in Nat : /\ tick' = p * TimeStep
                        /\ Len(calls') = next' - 1 + (p - 1 - FirstTs(events') \div TimeStep)
    BY <2>8, <2>9, <2>12
  <2> QED
    BY <1>1, <2>4, <2>10, <2>11, <2>12, <2>13, <2>14 DEF Clocked
<1>5. CASE \E flag \in MarketFlags, filled \in BOOLEAN : DeliverEvent(flag, filled)
  <2>1. /\ next <= Len(events) /\ ~TickDue /\ tick' = tick /\ next' = next + 1
        /\ calls' = Append(calls, events[next].ts)
        /\ events' = events /\ replay' = replay
    BY <1>5 DEF DeliverEvent, Called, run
  <2> DEFINE ts == events[next].ts
  <2>2. next \in 1 .. Len(events) /\ ts \in Nat
    BY <1>2, <1>3, <2>1
  <2>3. CASE ~replay
    <3>1. calls' \in Seq(Nat) /\ next' \in 1 .. Len(events') + 1 /\ tick' \in Nat
      BY <1>2, <1>3, <2>1, <2>2
    <3> QED
      BY <1>1, <2>1, <2>3, <3>1 DEF Clocked
  <2>4. CASE replay
    <3>1. ts <= tick
      BY <1>3, <2>1, <2>2, <2>4 DEF TickDue
    <3>2. /\ \A i \in 1 .. Len(calls) : calls[i] <= ts
          /\ \A i \in 1 .. Len(calls) : i > 1 => calls[i - 1] <= calls[i]
      BY <1>2, <2>2, <2>4 DEF Clocked
    <3>3. /\ calls' \in Seq(Nat) /\ Len(calls') = Len(calls) + 1 /\ Len(calls) \in Nat
          /\ \A i \in 1 .. Len(calls') : calls'[i] <= ts
          /\ \A i \in 1 .. Len(calls') : i > 1 => calls'[i - 1] <= calls'[i]
      <4> HIDE DEF ts
      <4> QED
        BY <1>3, <2>1, <2>2, <3>2, CallNoted DEF ts
    <3>4. ASSUME NEW i \in 1 .. Len(calls')
          PROVE  /\ calls'[i] <= tick'
                 /\ \A k \in next' .. Len(events') : calls'[i] <= events'[k].ts
      <4>1. calls'[i] <= ts /\ calls'[i] \in Nat
        BY <3>3
      <4>2. calls'[i] <= tick'
        BY <1>3, <2>1, <2>2, <3>1, <4>1
      <4>3. \A k \in next + 1 .. Len(events) : calls'[i] <= events[k].ts
        <5> SUFFICES ASSUME NEW k \in next + 1 .. Len(events) PROVE calls'[i] <= events[k].ts
          OBVIOUS
        <5>1. k \in 1 .. Len(events) /\ next <= k
          BY <1>3
        <5>2. ts <= events[k].ts /\ events[k].ts \in Nat
          BY <1>2, <2>2, <2>4, <5>1
        <5> QED
          BY <2>2, <4>1, <5>2
      <4> QED
        BY <2>1, <4>2, <4>3
    <3>5. PICK q \in Nat : /\ tick = q * TimeStep
                           /\ Len(calls) = next - 1 + (q - 1 - FirstTs(events) \div TimeStep)
      BY <2>4 DEF Clocked
    <3>6. Len(calls') = next' - 1 + (q - 1 - FirstTs(events') \div TimeStep)
      <4>1. FirstTs(events) \div TimeStep \in Nat
        BY <1>1, EndsOfFeed, Quotient
      <4> DEFINE f == FirstTs(events) \div TimeStep
      <4>2. f \in Nat /\ Len(calls) = next - 1 + (q - 1 - f)
            /\ FirstTs(events') \div TimeStep = f
        BY <2>1, <3>5, <4>1
      <4> HIDE DEF f
      <4> QED
        BY <1>3, <2>1, <3>3, <4>2
    <3>7. /\ next' \in 1 .. Len(events') + 1 /\ LastTs' = LastTs /\ tick' \in Nat
          /\ tick' - TimeStep <= LastTs' /\ tick' = q * TimeStep
      BY <1>2, <1>3, <2>1, <2>2, <2>4, <3>5 DEF LastTs, Clocked
    <3> QED
      BY <1>1, <3>3, <3>4, <3>6, <3>7 DEF Clocked
  <2> QED
    BY <2>3, <2>4, <1>1 DEF Fed
<1>6. CASE UNCHANGED vars
  BY <1>6, <1>1 DEF vars, Clocked, LastTs
<1> QED
  BY <1>4, <1>5, <1>6 DEF Next

\* In a replay time never goes back for the strategy, and every multiple of
\* the step between the first event and the last has been a tick by the end.
THEOREM ReplayAlwaysKeepsTime == Spec => []ReplayKeepsTime
<1>1. ASSUME Clocked PROVE ReplayKeepsTime
  <2> SUFFICES ASSUME replay PROVE ReplayKeepsTime
    BY DEF ReplayKeepsTime
  <2>1. /\ Len(events) \in Nat \ {0} /\ LastTs \in Nat /\ FirstTs(events) \in Nat
        /\ TimeStep \in Nat \ {0}
    BY <1>1, EndsOfFeed, StrategyRunAssumption DEF Clocked
  <2>2. /\ next \in 1 .. Len(events) + 1 /\ tick \in Nat /\ calls \in Seq(Nat)
        /\ tick - TimeStep <= LastTs
        /\ \A i \in 1 .. Len(calls) : i > 1 => calls[i - 1] <= calls[i]
    BY <1>1 DEF Clocked
  <2>3. PICK q \in Nat : /\ tick = q * TimeStep
                         /\ Len(calls) = next - 1 + (q - 1 - FirstTs(events) \div TimeStep)
    BY <1>1 DEF Clocked
  <2>4. ASSUME Done
        PROVE  Len(calls) = Len(events) + LastTs \div TimeStep
                              - FirstTs(events) \div TimeStep
    <3>1. next = Len(events) + 1 /\ LastTs < tick
      BY <2>1, <2>2, <2>4 DEF Done, TickDue
    <3>2. (q - 1) * TimeStep = tick - TimeStep /\ (q - 1) + 1 = q
      BY <2>1, <2>3
    <3>3. q - 1 \in Int /\ (q - 1) * TimeStep <= LastTs /\ LastTs < ((q - 1) + 1) * TimeStep
      BY <2>2, <2>3, <3>1, <3>2
    <3>4. LastTs \div TimeStep = q - 1 /\ FirstTs(events) \div TimeStep \in Nat
      BY <2>1, <3>3, Quotient
    <3> DEFINE f == FirstTs(events) \div TimeStep
               l == LastTs \div TimeStep
    <3>5. l = q - 1 /\ f \in Nat /\ Len(calls) = next - 1 + (q - 1 - f)
      BY <2>3, <3>4
    <3> HIDE DEF f, l
    <3>6. Len(calls) = Len(events) + l - f
      BY <2>1, <3>1, <3>5
    <3> QED
      BY <3>6 DEF f, l
  <2>5. \A i \in DOMAIN calls : i > 1 => calls[i - 1] <= calls[i]
    BY <2>2
  <2> HIDE DEF Done
  <2> QED
    BY <2>4, <2>5 DEF ReplayKeepsTime
<1> QED
  BY <1>1, InitClocked, StepClocked, PTL DEF Spec

-----------------------------------------------------------------------------
(***************************************************************************)
(* The signals of a run, as a list that grows.                             *)
(***************************************************************************)
NotedSignal ==
  [signal : [token : TokenSet, target : Nat, ts : Nat], data : MarketFlags]

\* SignalsOf and Place, for any list of signals.
OfToken(list, token) == {i \in DOMAIN list : list[i].signal.token = token}
PlaceIn(list, i) == Cardinality({j \in OfToken(list, list[i].signal.token) : j <= i})

\* The signals of its token before signal i, and the target of the last of some.
Earlier(list, i) == {j \in OfToken(list, list[i].signal.token) : j < i}
LastTarget(list, at) ==
  IF at = {} THEN 0 ELSE list[CHOOSE j \in at : \A k \in at : k <= j].signal.target

\* The last of some indices.
LEMMA Latest ==
  ASSUME NEW n \in Nat, NEW at \in SUBSET (1 .. n), at # {}
  PROVE  \E j \in at : \A k \in at : k <= j
<1> DEFINE T == {n - j : j \in at}
<1>1. T \subseteq Nat /\ T # {}
  <2>1. \A j \in at : j \in 1 .. n /\ n - j \in Nat
    OBVIOUS
  <2> QED
    BY <2>1
<1>2. PICK m \in T : \A x \in T : m <= x
  BY <1>1, NatMin
<1>3. PICK j \in at : m = n - j
  BY <1>2
<1>4. \A k \in at : n - j <= n - k
  BY <1>2, <1>3
<1>5. \A k \in at : k <= j
  BY <1>4
<1> QED
  BY <1>5

\* What one more signal changes: its own token has one more, and the signals
\* before it are what they were.
Extended(list, more, e) ==
  LET n == Len(list)
      t == e.signal.token IN
  /\ more \in Seq(NotedSignal) /\ Len(more) = n + 1 /\ n \in Nat /\ more[n + 1] = e
  /\ \A i \in 1 .. n : /\ more[i] = list[i] /\ PlaceIn(more, i) = PlaceIn(list, i)
                       /\ LastTarget(more, Earlier(more, i))
                            = LastTarget(list, Earlier(list, i))
  /\ \A u : u # t => /\ Cardinality(OfToken(more, u)) = Cardinality(OfToken(list, u))
                     /\ LastTarget(more, OfToken(more, u))
                          = LastTarget(list, OfToken(list, u))
  /\ Cardinality(OfToken(more, t)) = Cardinality(OfToken(list, t)) + 1
  /\ LastTarget(more, OfToken(more, t)) = e.signal.target
  /\ PlaceIn(more, n + 1) = Cardinality(OfToken(list, t)) + 1
  /\ LastTarget(more, Earlier(more, n + 1)) = LastTarget(list, OfToken(list, t))

\* What one more signal changes in the lists of each token.
LEMMA SignalAppended ==
  ASSUME NEW list \in Seq(NotedSignal), NEW e \in NotedSignal
  PROVE  Extended(list, Append(list, e), e)
<1> DEFINE more == Append(list, e)
           n == Len(list)
           t == e.signal.token
<1>1. /\ n \in Nat /\ DOMAIN list = 1 .. n
      /\ more \in Seq(NotedSignal) /\ Len(more) = n + 1 /\ DOMAIN more = 1 .. n + 1
      /\ more[n + 1] = e /\ \A i \in 1 .. n : more[i] = list[i]
  OBVIOUS
<1> HIDE DEF more, n
<1>2. ASSUME NEW u
      PROVE  /\ OfToken(list, u) \subseteq 1 .. n /\ IsFiniteSet(OfToken(list, u))
             /\ Cardinality(OfToken(list, u)) \in Nat
             /\ u # t => OfToken(more, u) = OfToken(list, u)
             /\ OfToken(more, t) = OfToken(list, t) \cup {n + 1}
             /\ n + 1 \notin OfToken(list, u)
  <2>1. OfToken(list, u) \subseteq 1 .. n /\ n + 1 \notin OfToken(list, u)
    BY <1>1 DEF OfToken
  <2>2. IsFiniteSet(OfToken(list, u)) /\ Cardinality(OfToken(list, u)) \in Nat
    BY <1>1, <2>1, UptoIsFinite, FS_Subset, FS_CardinalityType
  <2>3. 1 .. n + 1 = (1 .. n) \cup {n + 1}
    BY <1>1
  <2>4. u # t => OfToken(more, u) = OfToken(list, u)
    BY <1>1, <2>3 DEF OfToken
  <2>5. OfToken(more, t) = OfToken(list, t) \cup {n + 1}
    BY <1>1, <2>3 DEF OfToken
  <2> QED
    BY <2>1, <2>2, <2>4, <2>5
<1>3. ASSUME NEW at \in SUBSET (1 .. n)
      PROVE  LastTarget(more, at) = LastTarget(list, at)
  <2>1. CASE at = {}
    BY <2>1 DEF LastTarget
  <2>2. CASE at # {}
    <3>1. (CHOOSE j \in at : \A k \in at : k <= j) \in at
      BY <1>1, <2>2, Latest
    <3>2. (CHOOSE j \in at : \A k \in at : k <= j) \in 1 .. n
      BY <3>1
    <3> QED
      BY <1>1, <2>2, <3>2 DEF LastTarget
  <2> QED
    BY <2>1, <2>2
<1>4. ASSUME NEW i \in 1 .. n
      PROVE  /\ PlaceIn(more, i) = PlaceIn(list, i)
             /\ LastTarget(more, Earlier(more, i)) = LastTarget(list, Earlier(list, i))
  <2> DEFINE u == list[i].signal.token
  <2>1. more[i].signal.token = u
    BY <1>1
  <2>2. \A j \in OfToken(more, u) : j # n + 1 => j \in OfToken(list, u)
    BY <1>2
  <2>3. \A j \in OfToken(list, u) : j \in OfToken(more, u)
    BY <1>2
  <2> HIDE DEF u
  <2>4. ~(n + 1 <= i) /\ ~(n + 1 < i)
    BY <1>1
  <2>5. /\ {j \in OfToken(more, u) : j <= i} = {j \in OfToken(list, u) : j <= i}
        /\ {j \in OfToken(more, u) : j < i} = {j \in OfToken(list, u) : j < i}
    BY <2>2, <2>3, <2>4
  <2>6. {j \in OfToken(list, u) : j < i} \in SUBSET (1 .. n)
    BY <1>2
  <2> QED
    BY <1>3, <2>1, <2>5, <2>6 DEF PlaceIn, Earlier, u
<1>5. ASSUME NEW u, u # t
      PROVE  /\ Cardinality(OfToken(more, u)) = Cardinality(OfToken(list, u))
             /\ LastTarget(more, OfToken(more, u)) = LastTarget(list, OfToken(list, u))
  <2>1. OfToken(more, u) = OfToken(list, u) /\ OfToken(list, u) \in SUBSET (1 .. n)
    BY <1>2, <1>5
  <2> QED
    BY <1>3, <2>1
<1>6. Cardinality(OfToken(more, t)) = Cardinality(OfToken(list, t)) + 1
  BY <1>2, FS_AddElement
<1>7. LastTarget(more, OfToken(more, t)) = e.signal.target
  <2> DEFINE at == OfToken(more, t)
             last == CHOOSE j \in at : \A k \in at : k <= j
  <2>1. n + 1 \in at /\ at \subseteq 1 .. n + 1 /\ \A k \in at : k <= n + 1
    <3>1. at = OfToken(list, t) \cup {n + 1} /\ OfToken(list, t) \subseteq 1 .. n
      BY <1>2
    <3> HIDE DEF at
    <3> QED
      BY <1>1, <3>1
  <2> HIDE DEF at
  <2>2. last \in at /\ \A k \in at : k <= last
    BY <2>1
  <2> HIDE DEF last
  <2>3. last = n + 1
    <3>1. n + 1 <= last /\ last \in 1 .. n + 1
      BY <2>1, <2>2
    <3> QED
      BY <1>1, <3>1
  <2>4. at # {}
    BY <2>1
  <2> QED
    BY <1>1, <2>3, <2>4 DEF LastTarget, at, last
<1>8. PlaceIn(more, n + 1) = Cardinality(OfToken(list, t)) + 1
  <2>1. \A j \in OfToken(more, t) : j <= n + 1
    BY <1>1, <1>2
  <2>2. {j \in OfToken(more, t) : j <= n + 1} = OfToken(more, t)
    BY <2>1
  <2> QED
    BY <1>1, <1>6, <2>2 DEF PlaceIn
<1>9. LastTarget(more, Earlier(more, n + 1)) = LastTarget(list, OfToken(list, t))
  <2>1. OfToken(more, t) = OfToken(list, t) \cup {n + 1} /\ OfToken(list, t) \subseteq 1 .. n
    BY <1>2
  <2>2. \A j \in 1 .. n : j < n + 1
    BY <1>1
  <2>3. ~(n + 1 < n + 1)
    BY <1>1
  <2>4. {j \in OfToken(more, t) : j < n + 1} = OfToken(list, t)
    BY <2>1, <2>2, <2>3
  <2>5. Earlier(more, n + 1) = OfToken(list, t)
    BY <1>1, <2>4 DEF Earlier
  <2> QED
    BY <1>3, <2>1, <2>5
<1> QED
  BY <1>1, <1>4, <1>5, <1>6, <1>7, <1>8, <1>9 DEF Extended, more, n

-----------------------------------------------------------------------------
(***************************************************************************)
(* The cycles of the stress strategy.                                      *)
(***************************************************************************)
Cycle ==
  [stage : Nat, target : Nat, at : Nat, events : Nat, complete : BOOLEAN,
   data : MarketFlags]

\* The states of the strategies.
StateType ==
  [order : Seq(TokenSet), cycles : UNION {[D -> Cycle] : D \in SUBSET TokenSet},
   emitted : SUBSET TokenSet]

\* A cycle counts the signals sent, holds the target of the last one and is
\* complete with the exit.
CycleFits(c, cycle) ==
  /\ cycle.stage <= Len(c.targets)
  /\ cycle.complete <=> cycle.stage = Len(c.targets)
  /\ cycle.target = IF cycle.stage = 0 THEN 0 ELSE c.targets[cycle.stage]

\* The state of the strategy, with the market data its tokens last had.
CyclesFit(c, st, seen) ==
  /\ st \in StateType
  /\ {st.order[i] : i \in DOMAIN st.order} = DOMAIN st.cycles
  /\ \A t \in DOMAIN st.cycles : /\ CycleFits(c, st.cycles[t])
                                 /\ st.cycles[t].data = seen[t]
  /\ Cardinality(Active(st.cycles)) <= c.active

\* The stage and the target of a token, 0 before its first event.
StageIn(cycles, t) == IF t \in DOMAIN cycles THEN cycles[t].stage ELSE 0
TargetIn(cycles, t) == IF t \in DOMAIN cycles THEN cycles[t].target ELSE 0

\* The signals sent are those the cycles count.
SignalsFit(c, cycles, list) ==
  /\ list \in Seq(NotedSignal)
  /\ \A t \in TokenSet : /\ Cardinality(OfToken(list, t)) = StageIn(cycles, t)
                         /\ LastTarget(list, OfToken(list, t)) = TargetIn(cycles, t)
  /\ \A i \in 1 .. Len(list) :
       /\ PlaceIn(list, i) \in 1 .. Len(c.targets)
       /\ list[i].signal.target = c.targets[PlaceIn(list, i)]
       /\ list[i].signal.target > LastTarget(list, Earlier(list, i))
            => ~Blocked(list[i].data)

\* The next signal of a token is counted by its cycle.
LEMMA SignalCounted ==
  ASSUME NEW c, IsConfig(c), NEW list, NEW cycles, NEW more, NEW d \in MarketFlags,
         SignalsFit(c, cycles, list), NEW t \in DOMAIN cycles, t \in TokenSet,
         NEW ts \in Nat, cycles[t].stage \in 0 .. Len(c.targets) - 1,
         DOMAIN more = DOMAIN cycles,
         \A u \in DOMAIN cycles : u # t => more[u] = cycles[u],
         more[t].stage = cycles[t].stage + 1,
         more[t].target = c.targets[cycles[t].stage + 1],
         more[t].target > cycles[t].target => ~Blocked(d)
  PROVE  LET e == [signal |-> Signal(t, more[t].target, ts), data |-> d] IN
         SignalsFit(c, more, Append(list, e))
<1> DEFINE s == cycles[t].stage
           target == more[t].target
           e == [signal |-> Signal(t, target, ts), data |-> d]
           longer == Append(list, e)
           n == Len(list)
<1>1. /\ Len(c.targets) \in {4, 5} /\ s + 1 \in 1 .. Len(c.targets)
      /\ target = c.targets[s + 1] /\ target \in Nat /\ s \in Nat
  BY DEF IsConfig, IsTargets
<1> HIDE DEF target, s
<1>2. e \in NotedSignal /\ e.signal.token = t /\ e.signal.target = target /\ e.data = d
  BY <1>1 DEF NotedSignal, Signal
<1> HIDE DEF e
<1>3. list \in Seq(NotedSignal)
  BY DEF SignalsFit
<1>4. Extended(list, longer, e)
  BY <1>2, <1>3, SignalAppended
<1> HIDE DEF longer
<1>5. /\ \A u \in TokenSet : /\ Cardinality(OfToken(list, u)) = StageIn(cycles, u)
                             /\ LastTarget(list, OfToken(list, u)) = TargetIn(cycles, u)
      /\ \A i \in 1 .. n : /\ PlaceIn(list, i) \in 1 .. Len(c.targets)
                           /\ list[i].signal.target = c.targets[PlaceIn(list, i)]
                           /\ list[i].signal.target > LastTarget(list, Earlier(list, i))
                                => ~Blocked(list[i].data)
  BY DEF SignalsFit
<1>6. ASSUME NEW u \in TokenSet
      PROVE  /\ Cardinality(OfToken(longer, u)) = StageIn(more, u)
             /\ LastTarget(longer, OfToken(longer, u)) = TargetIn(more, u)
  <2>1. CASE u = t
    BY <1>2, <1>4, <1>5, <2>1 DEF Extended, StageIn, TargetIn, target
  <2>2. CASE u # t
    BY <1>2, <1>4, <1>5, <2>2 DEF Extended, StageIn, TargetIn
  <2> QED
    BY <2>1, <2>2
<1>7. ASSUME NEW i \in 1 .. n + 1
      PROVE  /\ PlaceIn(longer, i) \in 1 .. Len(c.targets)
             /\ longer[i].signal.target = c.targets[PlaceIn(longer, i)]
             /\ longer[i].signal.target > LastTarget(longer, Earlier(longer, i))
                  => ~Blocked(longer[i].data)
  <2>1. CASE i = n + 1
    <3>1. /\ longer[i] = e /\ PlaceIn(longer, i) = StageIn(cycles, t) + 1
          /\ LastTarget(longer, Earlier(longer, i)) = TargetIn(cycles, t)
      BY <1>2, <1>4, <1>5, <2>1 DEF Extended
    <3>2. StageIn(cycles, t) = s /\ TargetIn(cycles, t) = cycles[t].target
      BY DEF StageIn, TargetIn, s
    <3> QED
      BY <1>1, <1>2, <3>1, <3>2 DEF target
  <2>2. CASE i # n + 1
    <3>1. i \in 1 .. n
      BY <1>4, <2>2 DEF Extended
    <3>2. /\ longer[i] = list[i] /\ PlaceIn(longer, i) = PlaceIn(list, i)
          /\ LastTarget(longer, Earlier(longer, i)) = LastTarget(list, Earlier(list, i))
      BY <1>4, <3>1 DEF Extended
    <3> QED
      BY <1>5, <3>1, <3>2
  <2> QED
    BY <2>1, <2>2
<1>8. longer \in Seq(NotedSignal) /\ Len(longer) = n + 1
  BY <1>4 DEF Extended
<1> QED
  BY <1>6, <1>7, <1>8 DEF SignalsFit, longer, e, target

\* What a call does to the cycles: a stage only grows, by a signal of its time.
Forward(st, later, ts) ==
  /\ later.order = st.order /\ later.emitted = st.emitted
  /\ DOMAIN later.cycles = DOMAIN st.cycles
  /\ \A t \in DOMAIN st.cycles :
       /\ later.cycles[t].stage >= st.cycles[t].stage
       /\ later.cycles[t].stage = st.cycles[t].stage
            => later.cycles[t].at = st.cycles[t].at
       /\ later.cycles[t].at \in {st.cycles[t].at, ts}

\* _advance_if_due keeps the cycles, the signals and their number together.
Keeps(c, st, list, seen, ts, result) ==
  /\ CyclesFit(c, result[1], seen)
  /\ SignalsFit(c, result[1].cycles, list \o Noted(result[2], seen))
  /\ result[2] \in Seq([token : TokenSet, target : Nat, ts : Nat])
  /\ Forward(st, result[1], ts)

\* The parts of a state of the strategies have their types.
LEMMA Stateful ==
  ASSUME NEW st \in StateType
  PROVE  /\ DOMAIN st.cycles \subseteq TokenSet
         /\ \A t \in DOMAIN st.cycles : st.cycles[t] \in Cycle
         /\ st.cycles \in [DOMAIN st.cycles -> Cycle]
         /\ st.order \in Seq(TokenSet) /\ st.emitted \subseteq TokenSet
<1>1. st.cycles \in UNION {[D -> Cycle] : D \in SUBSET TokenSet}
  BY DEF StateType
<1>2. PICK D \in SUBSET TokenSet : st.cycles \in [D -> Cycle]
  BY <1>1
<1>3. DOMAIN st.cycles = D
  BY <1>2
<1> QED
  BY <1>2, <1>3 DEF StateType

\* With nothing due the state stays as it is.
LEMMA NotDue ==
  ASSUME NEW c, NEW st, NEW seen, CyclesFit(c, st, seen), NEW t \in DOMAIN st.cycles,
         NEW ts, ~Advances(c, st.cycles, t, ts, st.cycles[t].data)
  PROVE  AdvanceIfDue(c, st, t, ts) = <<st, <<>>>>
<1> DEFINE cycle == st.cycles[t]
           done == cycle.complete \/ cycle.stage >= Len(c.targets)
           same == [cycle EXCEPT !.complete = done]
<1>1. st \in StateType /\ CycleFits(c, cycle)
  BY DEF CyclesFit
<1>2. cycle \in Cycle /\ st.cycles \in [DOMAIN st.cycles -> Cycle]
  BY <1>1, Stateful
<1>3. done = cycle.complete
  BY <1>1, <1>2 DEF CycleFits, Cycle
<1> HIDE DEF done, cycle
<1>4. same = cycle
  BY <1>2, <1>3 DEF Cycle
<1> HIDE DEF same
<1>5. AdvanceIfDue(c, st, t, ts) = <<[st EXCEPT !.cycles = [@ EXCEPT ![t] = same]], <<>>>>
  BY DEF AdvanceIfDue, same, cycle, done
<1>6. [st.cycles EXCEPT ![t] = same] = st.cycles
  BY <1>2, <1>4 DEF cycle
<1> QED
  BY <1>1, <1>5, <1>6 DEF StateType

\* A token that moves on counts once, and starts only where there is room.
LEMMA ActiveBounded ==
  ASSUME NEW c, c.active \in Nat, NEW cycles, NEW more, NEW t \in DOMAIN cycles,
         IsFiniteSet(DOMAIN cycles), DOMAIN more = DOMAIN cycles,
         \A u \in DOMAIN cycles : u # t => more[u] = cycles[u],
         Cardinality(Active(cycles)) <= c.active,
         \/ cycles[t].stage > 0 /\ ~cycles[t].complete
         \/ Cardinality(Active(cycles) \ {t}) < c.active
  PROVE  Cardinality(Active(more)) <= c.active
<1>1. /\ Active(cycles) \subseteq DOMAIN cycles /\ IsFiniteSet(Active(cycles))
      /\ Cardinality(Active(cycles)) \in Nat
  BY FS_Subset, FS_CardinalityType DEF Active
<1>2. Active(more) \subseteq Active(cycles) \cup {t}
  BY DEF Active
<1>3. CASE cycles[t].stage > 0 /\ ~cycles[t].complete
  <2>1. Active(more) \subseteq Active(cycles)
    BY <1>2, <1>3 DEF Active
  <2>2. Cardinality(Active(more)) <= Cardinality(Active(cycles))
        /\ Cardinality(Active(more)) \in Nat
    BY <1>1, <2>1, FS_Subset, FS_CardinalityType
  <2> QED
    BY <1>1, <2>2
<1>4. CASE Cardinality(Active(cycles) \ {t}) < c.active
  <2> DEFINE rest == Active(cycles) \ {t}
  <2>1. IsFiniteSet(rest) /\ Cardinality(rest) \in Nat /\ t \notin rest
    BY <1>1, FS_Subset, FS_CardinalityType
  <2>2. IsFiniteSet(rest \cup {t}) /\ Cardinality(rest \cup {t}) = Cardinality(rest) + 1
    BY <2>1, FS_AddElement
  <2>3. Active(more) \subseteq rest \cup {t}
    BY <1>2
  <2>4. Cardinality(Active(more)) <= Cardinality(rest \cup {t})
        /\ Cardinality(Active(more)) \in Nat
    BY <2>2, <2>3, FS_Subset, FS_CardinalityType
  <2> QED
    BY <1>4, <2>1, <2>2, <2>4
<1> QED
  BY <1>3, <1>4

\* There are finitely many tokens, no more than the universe lists.
LEMMA TokensAreFinite ==
  /\ IsFiniteSet(TokenSet) /\ Cardinality(TokenSet) <= Len(Tokens)
  /\ Cardinality(TokenSet) \in Nat /\ Len(Tokens) \in Nat \ {0}
<1>1. Len(Tokens) \in Nat \ {0} /\ DOMAIN Tokens = 1 .. Len(Tokens)
  BY FeedsAssumption
<1>2. IsFiniteSet(1 .. Len(Tokens)) /\ Cardinality(1 .. Len(Tokens)) = Len(Tokens)
  BY <1>1, UptoIsFinite
<1> DEFINE f == [i \in 1 .. Len(Tokens) |-> Tokens[i]]
<1>3. f \in Surjection(1 .. Len(Tokens), TokenSet)
  BY <1>1 DEF Surjection, TokenSet
<1> HIDE DEF f
<1>4. IsFiniteSet(TokenSet) /\ Cardinality(TokenSet) <= Cardinality(1 .. Len(Tokens))
  BY <1>2, <1>3, FS_Surjection
<1> QED
  BY <1>1, <1>2, <1>4, FS_CardinalityType

\* Whatever is due, the number of signals, the stage and the last target of a
\* cycle move together, and none raises the exposure against the news.
LEMMA AdvanceKeeps ==
  ASSUME NEW c, IsConfig(c), NEW st, NEW seen, CyclesFit(c, st, seen),
         NEW list, SignalsFit(c, st.cycles, list), NEW t \in DOMAIN st.cycles,
         NEW ts \in Nat
  PROVE  Keeps(c, st, list, seen, ts, AdvanceIfDue(c, st, t, ts))
<1> DEFINE cycle == st.cycles[t]
           s == cycle.stage
           target == c.targets[s + 1]
           done == target = 0
           sent == [cycle EXCEPT !.stage = @ + 1, !.target = target, !.at = ts,
                                 !.events = 0, !.complete = done]
           more == [st.cycles EXCEPT ![t] = sent]
           later == [st EXCEPT !.cycles = more]
           result == AdvanceIfDue(c, st, t, ts)
           Sent == [token : TokenSet, target : Nat, ts : Nat]
<1>1. /\ st \in StateType /\ CycleFits(c, cycle) /\ cycle.data = seen[t]
      /\ Cardinality(Active(st.cycles)) <= c.active
      /\ {st.order[i] : i \in DOMAIN st.order} = DOMAIN st.cycles
  BY DEF CyclesFit
<1>2. /\ DOMAIN st.cycles \subseteq TokenSet /\ t \in TokenSet
      /\ cycle \in Cycle /\ st.cycles \in [DOMAIN st.cycles -> Cycle]
      /\ IsFiniteSet(DOMAIN st.cycles)
  BY <1>1, Stateful, TokensAreFinite, FS_Subset
<1>3. list \in Seq(NotedSignal)
  BY DEF SignalsFit
<1>4. CASE ~Advances(c, st.cycles, t, ts, cycle.data)
  <2>1. result = <<st, <<>>>>
    BY <1>4, NotDue
  <2>2. list \o Noted(<<>>, seen) = list
    BY <1>3 DEF Noted
  <2>3. Forward(st, st, ts)
    <3>1. \A u \in DOMAIN st.cycles : st.cycles[u].stage \in Nat
      BY <1>2 DEF Cycle
    <3> QED
      BY <3>1 DEF Forward
  <2>4. <<>> \in Seq(Sent)
    OBVIOUS
  <2> HIDE DEF result
  <2>5. result[1] = st /\ result[2] = <<>>
    BY <2>1
  <2> QED
    BY <2>2, <2>3, <2>4, <2>5 DEF Keeps, result
<1>5. CASE Advances(c, st.cycles, t, ts, cycle.data)
  <2>1. result = <<later, <<Signal(t, target, ts)>>>>
    BY <1>5 DEF AdvanceIfDue
  <2>2. /\ s \in 0 .. Len(c.targets) - 1 /\ s \in Nat
        /\ s = 0 => /\ ~Blocked(cycle.data)
                    /\ Cardinality(Active(st.cycles) \ {t}) < c.active
        /\ ~(target > cycle.target /\ Blocked(cycle.data))
        /\ Len(c.targets) \in {4, 5}
    <3>1. Len(c.targets) \in {4, 5} /\ s \in Nat
      BY <1>2 DEF IsConfig, IsTargets, Cycle
    <3>2. /\ s < Len(c.targets)
          /\ s = 0 => CanStartNewCycle(c, st.cycles, t, cycle.data)
          /\ ~BlocksIncrease(c, cycle, cycle.data)
      BY <1>5 DEF Advances
    <3> HIDE DEF cycle, s, target
    <3> QED
      BY <3>1, <3>2 DEF CanStartNewCycle, BlocksIncrease, s, target
  <2>3. target \in Nat /\ (target = 0 <=> s + 1 = Len(c.targets))
    <3>1. s + 1 \in 1 .. Len(c.targets)
      BY <2>2
    <3> HIDE DEF s
    <3> QED
      BY <3>1 DEF IsConfig, IsTargets
  <2>4. /\ sent \in Cycle /\ sent.stage = s + 1 /\ sent.target = target
        /\ sent.at = ts /\ sent.data = cycle.data
        /\ sent.complete <=> target = 0
    <3>1. done \in BOOLEAN
      OBVIOUS
    <3> HIDE DEF target, cycle, done
    <3>a. cycle \in Cycle /\ cycle.stage + 1 \in Nat /\ target \in Nat
      BY <1>2, <2>2, <2>3 DEF s
    <3>2. /\ sent \in Cycle /\ sent.stage = s + 1 /\ sent.target = target
          /\ sent.at = ts /\ sent.data = cycle.data /\ sent.complete = done
      BY <3>a, <3>1 DEF Cycle, s
    <3> QED
      BY <3>2 DEF done
  <2>5. CycleFits(c, sent)
    <3> HIDE DEF sent, cycle, s
    <3>1. sent.target = c.targets[s + 1] /\ s + 1 <= Len(c.targets) /\ s + 1 # 0
      BY <2>2, <2>4
    <3> HIDE DEF target
    <3> QED
      BY <2>3, <2>4, <3>1 DEF CycleFits
  <2> HIDE DEF sent
  <2>6. /\ DOMAIN more = DOMAIN st.cycles /\ more[t] = sent
        /\ \A u \in DOMAIN st.cycles : u # t => more[u] = st.cycles[u]
        /\ more \in [DOMAIN st.cycles -> Cycle]
    <3> HIDE DEF cycle
    <3> QED
      BY <1>2, <2>4
  <2> HIDE DEF more
  <2>7. /\ later.cycles = more /\ later.order = st.order /\ later.emitted = st.emitted
        /\ later \in StateType
    <3>1. more \in UNION {[D -> Cycle] : D \in SUBSET TokenSet}
      BY <1>2, <2>6
    <3> QED
      BY <1>1, <3>1 DEF StateType
  <2> HIDE DEF later
  <2>8. Cardinality(Active(more)) <= c.active
    <3>1. s > 0 => ~cycle.complete
      BY <1>1, <2>2 DEF CycleFits
    <3>2. \/ cycle.stage > 0 /\ ~cycle.complete
          \/ Cardinality(Active(st.cycles) \ {t}) < c.active
      BY <2>2, <3>1
    <3> QED
      BY <1>1, <1>2, <2>6, <3>2, ActiveBounded DEF IsConfig
  <2>9. CyclesFit(c, later, seen)
    <3>1. \A u \in DOMAIN more : CycleFits(c, more[u]) /\ more[u].data = seen[u]
      BY <1>1, <2>4, <2>5, <2>6 DEF CyclesFit
    <3> QED
      BY <1>1, <2>6, <2>7, <2>8, <3>1 DEF CyclesFit
  <2>10. SignalsFit(c, more, Append(list, [signal |-> Signal(t, target, ts),
                                           data |-> cycle.data]))
    <3>1. /\ more[t].stage = cycle.stage + 1
          /\ more[t].target = c.targets[cycle.stage + 1]
          /\ more[t].target > cycle.target => ~Blocked(cycle.data)
          /\ cycle.stage \in 0 .. Len(c.targets) - 1
          /\ cycle.data \in MarketFlags /\ more[t].target = target
      BY <1>2, <2>2, <2>4, <2>6 DEF Cycle
    <3> HIDE DEF target, s
    <3>2. SignalsFit(c, more, Append(list, [signal |-> Signal(t, more[t].target, ts),
                                            data |-> cycle.data]))
      BY <1>2, <2>6, <3>1, SignalCounted, ZenonT(60)
    <3> QED
      BY <3>1, <3>2
  <2>11. list \o Noted(<<Signal(t, target, ts)>>, seen)
           = Append(list, [signal |-> Signal(t, target, ts), data |-> cycle.data])
    <3> DEFINE sig == Signal(t, target, ts)
    <3>1. sig.token = t
      BY DEF Signal
    <3> HIDE DEF sig
    <3>2. Noted(<<sig>>, seen) = <<[signal |-> sig, data |-> cycle.data]>>
      BY <1>1, <3>1 DEF Noted
    <3> DEFINE e == [signal |-> sig, data |-> cycle.data]
    <3> HIDE DEF e
    <3>3. list \o <<e>> = Append(list, e)
      BY <1>3
    <3> QED
      BY <3>2, <3>3 DEF e, sig
  <2>12. <<Signal(t, target, ts)>> \in Seq(Sent)
    <3>1. Signal(t, target, ts) \in Sent
      BY <1>2, <2>3 DEF Signal
    <3> HIDE DEF Sent, target
    <3> QED
      BY <3>1
  <2>13. Forward(st, later, ts)
    <3>1. \A u \in DOMAIN st.cycles : st.cycles[u].stage \in Nat
      BY <1>2 DEF Cycle
    <3> HIDE DEF target
    <3>2. \A u \in DOMAIN st.cycles :
            /\ more[u].stage >= st.cycles[u].stage
            /\ more[u].stage = st.cycles[u].stage => more[u].at = st.cycles[u].at
            /\ more[u].at \in {st.cycles[u].at, ts}
      BY <2>2, <2>4, <2>6, <3>1
    <3> QED
      BY <2>6, <2>7, <3>2 DEF Forward
  <2> HIDE DEF result, target, cycle
  <2>14. result[1] = later /\ result[2] = <<Signal(t, target, ts)>>
    BY <2>1
  <2> QED
    BY <2>7, <2>9, <2>10, <2>11, <2>12, <2>13, <2>14 DEF Keeps, result
<1> QED
  BY <1>4, <1>5

\* The event of a token with data d has been noted, and no stage has changed.
IsKnown(c, st, k, list, seen, t, d) ==
  /\ CyclesFit(c, k, seen) /\ SignalsFit(c, k.cycles, list)
  /\ DOMAIN k.cycles = DOMAIN st.cycles \cup {t} /\ k.cycles[t].data = d
  /\ \A u \in DOMAIN st.cycles : /\ k.cycles[u].stage = st.cycles[u].stage
                                 /\ k.cycles[u].at = st.cycles[u].at
  /\ t \notin DOMAIN st.cycles => k.cycles[t].stage = 0 /\ k.cycles[t].at = 0
  /\ k.emitted = st.emitted

\* An event is noted before anything is due.
LEMMA KnowingKeeps ==
  ASSUME NEW c, IsConfig(c), NEW st, NEW seen \in [TokenSet -> MarketFlags],
         CyclesFit(c, st, seen), NEW list, SignalsFit(c, st.cycles, list),
         NEW t \in TokenSet, NEW d \in MarketFlags
  PROVE  IsKnown(c, st, Knowing(st, t, d), list, [seen EXCEPT ![t] = d], t, d)
<1> DEFINE known == t \in DOMAIN st.cycles
           cycle == IF known THEN st.cycles[t] ELSE FreshCycle
           noted == [cycle EXCEPT !.data = d, !.events = @ + 1]
           more == WithCycle(st.cycles, t, noted)
           order == IF known THEN st.order ELSE Append(st.order, t)
           k == Knowing(st, t, d)
           seen2 == [seen EXCEPT ![t] = d]
<1>1. /\ st \in StateType /\ {st.order[i] : i \in DOMAIN st.order} = DOMAIN st.cycles
      /\ \A u \in DOMAIN st.cycles : /\ CycleFits(c, st.cycles[u])
                                     /\ st.cycles[u].data = seen[u]
      /\ Cardinality(Active(st.cycles)) <= c.active
  BY DEF CyclesFit
<1>2. /\ DOMAIN st.cycles \subseteq TokenSet /\ st.order \in Seq(TokenSet)
      /\ \A u \in DOMAIN st.cycles : st.cycles[u] \in Cycle
  BY <1>1, Stateful
<1>3. FreshCycle \in Cycle /\ CycleFits(c, FreshCycle)
  <2>1. Len(c.targets) \in {4, 5}
    BY DEF IsConfig, IsTargets
  <2>2. FreshCycle \in Cycle
    BY DEF FreshCycle, Cycle, MarketFlags
  <2>3. FreshCycle.stage = 0 /\ FreshCycle.target = 0 /\ ~FreshCycle.complete
    BY DEF FreshCycle
  <2>a. 0 <= Len(c.targets) /\ 0 # Len(c.targets)
    <3> DEFINE l == Len(c.targets)
    <3>1. l \in {4, 5}
      BY <2>1
    <3> HIDE DEF l
    <3>2. 0 <= l /\ 0 # l
      BY <3>1
    <3> QED
      BY <3>2 DEF l
  <2>4. CycleFits(c, FreshCycle)
    BY <2>3, <2>a DEF CycleFits
  <2> QED
    BY <2>2, <2>4
<1>4. cycle \in Cycle /\ CycleFits(c, cycle)
  BY <1>1, <1>2, <1>3
<1>5. k = [st EXCEPT !.order = order, !.cycles = more]
  BY DEF Knowing
<1>6. /\ ~known => cycle.stage = 0 /\ cycle.at = 0 /\ cycle.target = 0
      /\ known => cycle = st.cycles[t]
  BY DEF FreshCycle
<1> HIDE DEF cycle
<1>7. /\ noted \in Cycle /\ noted.stage = cycle.stage /\ noted.at = cycle.at
      /\ noted.data = d /\ noted.target = cycle.target /\ noted.complete = cycle.complete
  <2>1. cycle.events + 1 \in Nat
    BY <1>4 DEF Cycle
  <2> QED
    BY <1>4, <2>1 DEF Cycle
<1> HIDE DEF noted
<1>8. CycleFits(c, noted)
  BY <1>4, <1>7 DEF CycleFits
<1>9. /\ DOMAIN more = DOMAIN st.cycles \cup {t} /\ more[t] = noted
      /\ \A u \in DOMAIN st.cycles : u # t => more[u] = st.cycles[u]
      /\ more \in [DOMAIN st.cycles \cup {t} -> Cycle]
  BY <1>2, <1>7 DEF WithCycle
<1> HIDE DEF more
<1>10. /\ order \in Seq(TokenSet)
       /\ {order[i] : i \in DOMAIN order} = DOMAIN st.cycles \cup {t}
  <2>1. CASE known
    BY <1>1, <1>2, <2>1
  <2>2. CASE ~known
    <3> DEFINE n == Len(st.order)
    <3>1. /\ n \in Nat /\ DOMAIN st.order = 1 .. n /\ order = Append(st.order, t)
          /\ order \in Seq(TokenSet) /\ DOMAIN order = 1 .. n + 1
          /\ order[n + 1] = t /\ \A i \in 1 .. n : order[i] = st.order[i]
      BY <1>2, <2>2
    <3> HIDE DEF order, n
    <3>2. 1 .. n + 1 = (1 .. n) \cup {n + 1}
      BY <3>1
    <3>3. {order[i] : i \in 1 .. n + 1} = {order[i] : i \in 1 .. n} \cup {t}
      BY <3>1, <3>2
    <3>4. {order[i] : i \in 1 .. n} = {st.order[i] : i \in 1 .. n}
      BY <3>1
    <3> QED
      BY <1>1, <3>1, <3>3, <3>4
  <2> QED
    BY <2>1, <2>2
<1> HIDE DEF order
<1>11. /\ k.order = order /\ k.cycles = more /\ k.emitted = st.emitted
       /\ k \in StateType
  <2>1. more \in UNION {[D -> Cycle] : D \in SUBSET TokenSet}
    BY <1>2, <1>9
  <2> QED
    BY <1>1, <1>5, <1>10, <2>1 DEF StateType
<1> HIDE DEF k
<1>12. Active(more) = Active(st.cycles)
  BY <1>6, <1>7, <1>9 DEF Active
<1>13. CyclesFit(c, k, seen2)
  <2>1. \A u \in DOMAIN more : CycleFits(c, more[u]) /\ more[u].data = seen2[u]
    BY <1>1, <1>2, <1>7, <1>8, <1>9
  <2> QED
    BY <1>1, <1>9, <1>10, <1>11, <1>12, <2>1 DEF CyclesFit
<1>14. \A u : StageIn(more, u) = StageIn(st.cycles, u)
              /\ TargetIn(more, u) = TargetIn(st.cycles, u)
  BY <1>6, <1>7, <1>9 DEF StageIn, TargetIn
<1>15. SignalsFit(c, more, list)
  BY <1>14 DEF SignalsFit
<1> QED
  BY <1>6, <1>7, <1>9, <1>11, <1>13, <1>15 DEF k, IsKnown

\* What on_event does with the cycles.
EventKeeps(c, st, list, seen, t, ts, result) ==
  /\ CyclesFit(c, result[1], seen)
  /\ SignalsFit(c, result[1].cycles, list \o Noted(result[2], seen))
  /\ result[2] \in Seq([token : TokenSet, target : Nat, ts : Nat])
  /\ DOMAIN result[1].cycles = DOMAIN st.cycles \cup {t}
  /\ result[1].emitted = st.emitted
  /\ \A u \in DOMAIN st.cycles :
       /\ result[1].cycles[u].stage >= st.cycles[u].stage
       /\ result[1].cycles[u].stage = st.cycles[u].stage
            => result[1].cycles[u].at = st.cycles[u].at
       /\ result[1].cycles[u].at \in {st.cycles[u].at, ts}
  /\ t \notin DOMAIN st.cycles => result[1].cycles[t].at \in {0, ts}

\* on_event keeps the cycles, the signals and their number together.
LEMMA StressEventKeeps ==
  ASSUME NEW c, IsConfig(c), NEW st, NEW seen \in [TokenSet -> MarketFlags],
         CyclesFit(c, st, seen), NEW list, SignalsFit(c, st.cycles, list),
         NEW t \in TokenSet, NEW d \in MarketFlags, NEW ts \in Nat
  PROVE  EventKeeps(c, st, list, [seen EXCEPT ![t] = d], t, ts,
                    StressOnEvent(c, st, t, ts, d))
<1> DEFINE k == Knowing(st, t, d)
           seen2 == [seen EXCEPT ![t] = d]
           result == AdvanceIfDue(c, k, t, ts)
<1>0. IsKnown(c, st, k, list, seen2, t, d)
  BY KnowingKeeps
<1>1. /\ CyclesFit(c, k, seen2) /\ SignalsFit(c, k.cycles, list)
      /\ DOMAIN k.cycles = DOMAIN st.cycles \cup {t}
      /\ \A u \in DOMAIN st.cycles : /\ k.cycles[u].stage = st.cycles[u].stage
                                     /\ k.cycles[u].at = st.cycles[u].at
      /\ t \notin DOMAIN st.cycles => k.cycles[t].stage = 0 /\ k.cycles[t].at = 0
      /\ k.emitted = st.emitted
  BY <1>0 DEF IsKnown
<1> HIDE DEF k, seen2
<1>t. t \in DOMAIN k.cycles
  BY <1>1
<1>2. Keeps(c, k, list, seen2, ts, result)
  BY <1>1, <1>t, AdvanceKeeps
<1>3. result = StressOnEvent(c, st, t, ts, d)
  BY DEF StressOnEvent, k
<1> HIDE DEF result
<1>4. /\ CyclesFit(c, result[1], seen2)
      /\ SignalsFit(c, result[1].cycles, list \o Noted(result[2], seen2))
      /\ result[2] \in Seq([token : TokenSet, target : Nat, ts : Nat])
      /\ result[1].emitted = k.emitted
      /\ DOMAIN result[1].cycles = DOMAIN k.cycles
      /\ \A u \in DOMAIN k.cycles :
           /\ result[1].cycles[u].stage >= k.cycles[u].stage
           /\ result[1].cycles[u].stage = k.cycles[u].stage
                => result[1].cycles[u].at = k.cycles[u].at
           /\ result[1].cycles[u].at \in {k.cycles[u].at, ts}
  BY <1>2 DEF Keeps, Forward
<1>5. EventKeeps(c, st, list, seen2, t, ts, result)
  BY <1>1, <1>4 DEF EventKeeps
<1> QED
  BY <1>3, <1>5 DEF seen2

-----------------------------------------------------------------------------
(***************************************************************************)
(* The pass of the clock over the tokens.                                  *)
(***************************************************************************)
IsPass(pass, c, st, ts, n) ==
  pass = [m \in 0 .. n |->
            IF m = 0 THEN <<st, <<>>>>
            ELSE ClockStep(c, pass[m - 1], st.order[m], ts)]

\* The pass of StressOnClock is defined, for any number of tokens.
LEMMA PassExists ==
  ASSUME NEW c, NEW st, NEW ts, NEW n \in Nat
  PROVE  \E pass : IsPass(pass, c, st, ts, n)
<1> DEFINE P == {m \in Nat : \E pass : IsPass(pass, c, st, ts, m)}
<1>1. 0 \in P
  <2> DEFINE pass == [m \in {0} |-> <<st, <<>>>>]
  <2>1. 0 .. 0 = {0}
    OBVIOUS
  <2>2. pass = [m \in 0 .. 0 |-> IF m = 0 THEN <<st, <<>>>>
                                 ELSE ClockStep(c, pass[m - 1], st.order[m], ts)]
    BY <2>1
  <2>3. IsPass(pass, c, st, ts, 0)
    BY <2>2 DEF IsPass
  <2> HIDE DEF pass
  <2> QED
    BY <2>3
<1>2. ASSUME NEW m \in Nat, m \in P PROVE m + 1 \in P
  <2>1. PICK pass : IsPass(pass, c, st, ts, m)
    BY <1>2
  <2> DEFINE step(f, l) == ClockStep(c, f[l - 1], st.order[l], ts)
             longer == [l \in 0 .. m + 1 |-> IF l <= m THEN pass[l] ELSE step(pass, l)]
  <2>2. pass = [l \in 0 .. m |-> IF l = 0 THEN <<st, <<>>>> ELSE step(pass, l)]
    BY <2>1 DEF IsPass
  <2>3. \A l \in 0 .. m + 1 : longer[l] = IF l <= m THEN pass[l] ELSE step(pass, l)
    OBVIOUS
  <2>4. ASSUME NEW l \in 0 .. m + 1
        PROVE  longer[l] = IF l = 0 THEN <<st, <<>>>> ELSE step(longer, l)
    <3>1. CASE l = 0
      <4>1. 0 \in 0 .. m /\ 0 <= m
        BY <1>2
      <4>2. pass[0] = <<st, <<>>>>
        <5> HIDE DEF step
        <5> QED
          BY <2>2, <4>1
      <4> HIDE DEF longer, step
      <4> QED
        BY <2>3, <3>1, <4>1, <4>2
    <3>2. CASE l # 0
      <4>1. l - 1 \in 0 .. m /\ l - 1 \in 0 .. m + 1 /\ l - 1 <= m
        BY <1>2, <3>2
      <4>2. longer[l - 1] = pass[l - 1]
        BY <2>3, <4>1
      <4>3. step(longer, l) = step(pass, l)
        BY <4>2
      <4>4. l <= m => pass[l] = step(pass, l)
        <5>1. l <= m => l \in 0 .. m
          BY <1>2
        <5> HIDE DEF step
        <5> QED
          BY <2>2, <3>2, <5>1
      <4> HIDE DEF longer, step
      <4> QED
        BY <2>3, <3>2, <4>3, <4>4
    <3> QED
      BY <3>1, <3>2
  <2>5. longer = [l \in 0 .. m + 1 |-> longer[l]]
    OBVIOUS
  <2> HIDE DEF longer
  <2>6. longer = [l \in 0 .. m + 1 |-> IF l = 0 THEN <<st, <<>>>> ELSE step(longer, l)]
    <3> HIDE DEF step
    <3> QED
      BY <2>4, <2>5
  <2>7. IsPass(longer, c, st, ts, m + 1)
    BY <2>6 DEF IsPass
  <2> QED
    BY <1>2, <2>7
<1> HIDE DEF P
<1>3. n \in P
  BY <1>1, <1>2, NatSetInduction
<1> QED
  BY <1>3 DEF P

\* One call after another is one longer call.
LEMMA NotedJoined ==
  ASSUME NEW seen, NEW Sent, NEW a \in Seq(Sent), NEW b \in Seq(Sent),
         NEW list \in Seq(NotedSignal), Noted(a, seen) \in Seq(NotedSignal),
         Noted(b, seen) \in Seq(NotedSignal)
  PROVE  list \o Noted(a \o b, seen) = (list \o Noted(a, seen)) \o Noted(b, seen)
<1> DEFINE m == Len(a)
           n == Len(b)
           l == Len(list)
           x == Noted(a, seen)
           y == Noted(b, seen)
           z == Noted(a \o b, seen)
<1>1. /\ m \in Nat /\ n \in Nat /\ l \in Nat /\ a \o b \in Seq(Sent)
      /\ DOMAIN a = 1 .. m /\ DOMAIN b = 1 .. n /\ DOMAIN (a \o b) = 1 .. m + n
      /\ \A i \in 1 .. m + n : (a \o b)[i] = IF i <= m THEN a[i] ELSE b[i - m]
  OBVIOUS
<1>2. /\ Len(x) = m /\ Len(y) = n
      /\ \A i \in 1 .. m : x[i] = [signal |-> a[i], data |-> seen[a[i].token]]
      /\ \A i \in 1 .. n : y[i] = [signal |-> b[i], data |-> seen[b[i].token]]
  BY <1>1 DEF Noted
<1>3. z = [i \in 1 .. m + n |-> IF i <= m THEN x[i] ELSE y[i - m]]
  <2>1. z = [i \in 1 .. m + n |->
               [signal |-> (a \o b)[i], data |-> seen[(a \o b)[i].token]]]
    BY <1>1 DEF Noted
  <2>2. \A i \in 1 .. m + n :
          [signal |-> (a \o b)[i], data |-> seen[(a \o b)[i].token]]
            = IF i <= m THEN x[i] ELSE y[i - m]
    <3> SUFFICES ASSUME NEW i \in 1 .. m + n
                 PROVE  [signal |-> (a \o b)[i], data |-> seen[(a \o b)[i].token]]
                          = IF i <= m THEN x[i] ELSE y[i - m]
      OBVIOUS
    <3> HIDE DEF x, y, m, n
    <3>1. CASE i <= m
      <4>1. i \in 1 .. m /\ (a \o b)[i] = a[i]
        BY <1>1, <3>1
      <4> QED
        BY <1>2, <3>1, <4>1
    <3>2. CASE ~(i <= m)
      <4>1. i - m \in 1 .. n /\ (a \o b)[i] = b[i - m]
        BY <1>1, <3>2
      <4> QED
        BY <1>2, <3>2, <4>1
    <3> QED
      BY <3>1, <3>2
  <2> HIDE DEF x, y, z
  <2> QED
    BY <2>1, <2>2
<1> HIDE DEF m, n, x, y, z
<1>6. x \in Seq(NotedSignal) /\ y \in Seq(NotedSignal)
  BY DEF x, y
<1>a. /\ x \o y \in Seq(NotedSignal) /\ Len(x \o y) = Len(x) + Len(y)
      /\ \A i \in 1 .. Len(x) + Len(y) :
           (x \o y)[i] = IF i <= Len(x) THEN x[i] ELSE y[i - Len(x)]
  BY <1>6
<1>4. /\ x \o y \in Seq(NotedSignal) /\ DOMAIN (x \o y) = 1 .. m + n
      /\ \A i \in 1 .. m + n : (x \o y)[i] = IF i <= m THEN x[i] ELSE y[i - m]
  BY <1>2, <1>a
<1>5. z = x \o y
  <2> DEFINE w == x \o y
  <2>1. /\ w \in Seq(NotedSignal) /\ DOMAIN w = 1 .. m + n
        /\ \A i \in 1 .. m + n : w[i] = IF i <= m THEN x[i] ELSE y[i - m]
    BY <1>4
  <2> HIDE DEF w
  <2>2. w = [i \in 1 .. m + n |-> w[i]]
    BY <2>1
  <2>3. w = [i \in 1 .. m + n |-> IF i <= m THEN x[i] ELSE y[i - m]]
    BY <2>1, <2>2
  <2> QED
    BY <1>3, <2>3 DEF w
<1>7. list \o (x \o y) = (list \o x) \o y
  BY <1>6, SMTT(30)
<1> QED
  BY <1>5, <1>7 DEF x, y, z

\* A list of signals, each with the data of its token, has its type.
LEMMA NotedType ==
  ASSUME NEW seen \in [TokenSet -> MarketFlags],
         NEW sent \in Seq([token : TokenSet, target : Nat, ts : Nat])
  PROVE  Noted(sent, seen) \in Seq(NotedSignal)
<1> DEFINE Sent == [token : TokenSet, target : Nat, ts : Nat]
           n == Len(sent)
<1>1. \A s \in Sent : s.token \in TokenSet
  OBVIOUS
<1>2. sent \in Seq(Sent)
  OBVIOUS
<1>3. NotedSignal = [signal : Sent, data : MarketFlags]
  BY DEF NotedSignal
<1> HIDE DEF Sent, n
<1>4. n \in Nat /\ DOMAIN sent = 1 .. n /\ \A i \in 1 .. n : sent[i] \in Sent
  BY <1>2 DEF n
<1>5. \A i \in 1 .. n : [signal |-> sent[i], data |-> seen[sent[i].token]] \in NotedSignal
  BY <1>1, <1>3, <1>4
<1>6. Noted(sent, seen) = [i \in 1 .. n |->
                             [signal |-> sent[i], data |-> seen[sent[i].token]]]
  BY <1>4 DEF Noted
<1> QED
  BY <1>4, <1>5, <1>6

\* One token of the pass of the clock keeps them together, on what the tokens
\* before it left.
LEMMA ClockStepKeeps ==
  ASSUME NEW c, IsConfig(c), NEW st, NEW seen \in [TokenSet -> MarketFlags],
         CyclesFit(c, st, seen), NEW list, SignalsFit(c, st.cycles, list), NEW ts \in Nat,
         NEW pass, Keeps(c, st, list, seen, ts, pass), NEW t \in DOMAIN pass[1].cycles
  PROVE  Keeps(c, st, list, seen, ts, ClockStep(c, pass, t, ts))
<1> DEFINE Sent == [token : TokenSet, target : Nat, ts : Nat]
           now == pass[1]
           moved == AdvanceIfDue(c, now, t, ts)
           so == list \o Noted(pass[2], seen)
           step == ClockStep(c, pass, t, ts)
<1>1. /\ CyclesFit(c, now, seen) /\ SignalsFit(c, now.cycles, so) /\ pass[2] \in Seq(Sent)
      /\ Forward(st, now, ts)
  BY DEF Keeps
<1>2. Keeps(c, now, so, seen, ts, moved)
  BY <1>1, AdvanceKeeps
<1>3. /\ CyclesFit(c, moved[1], seen) /\ moved[2] \in Seq(Sent)
      /\ SignalsFit(c, moved[1].cycles, so \o Noted(moved[2], seen))
      /\ Forward(now, moved[1], ts)
  BY <1>2 DEF Keeps
<1>4. CASE now.cycles[t].complete
  BY <1>4 DEF ClockStep
<1>5. CASE ~now.cycles[t].complete
  <2>1. step = <<moved[1], pass[2] \o moved[2]>>
    BY <1>5 DEF ClockStep
  <2>2. list \in Seq(NotedSignal)
    BY DEF SignalsFit
  <2>3. so \o Noted(moved[2], seen) = list \o Noted(pass[2] \o moved[2], seen)
    <3>1. Noted(pass[2], seen) \in Seq(NotedSignal)
          /\ Noted(moved[2], seen) \in Seq(NotedSignal)
      BY <1>1, <1>3, NotedType
    <3> HIDE DEF Sent, moved
    <3> QED
      BY <1>1, <1>3, <2>2, <3>1, NotedJoined
  <2>4. pass[2] \o moved[2] \in Seq(Sent)
    <3> HIDE DEF Sent, moved
    <3> QED
      BY <1>1, <1>3
  <2>5. Forward(st, moved[1], ts)
    <3> DEFINE end == moved[1]
    <3>1. \A u \in DOMAIN st.cycles : /\ st.cycles[u].stage \in Nat
                                      /\ now.cycles[u].stage \in Nat
                                      /\ end.cycles[u].stage \in Nat
      <4>1. st \in StateType /\ now \in StateType /\ end \in StateType
        BY <1>1, <1>3 DEF CyclesFit
      <4>2. /\ \A u \in DOMAIN st.cycles : st.cycles[u] \in Cycle
            /\ \A u \in DOMAIN now.cycles : now.cycles[u] \in Cycle
            /\ \A u \in DOMAIN end.cycles : end.cycles[u] \in Cycle
        BY <4>1, Stateful
      <4>3. DOMAIN now.cycles = DOMAIN st.cycles /\ DOMAIN end.cycles = DOMAIN st.cycles
        BY <1>1, <1>3 DEF Forward
      <4> HIDE DEF now, end
      <4> QED
        BY <4>2, <4>3 DEF Cycle
    <3>2. Forward(st, now, ts) /\ Forward(now, end, ts)
      BY <1>1, <1>3
    <3> HIDE DEF now, end, moved
    <3>3. ASSUME NEW u \in DOMAIN st.cycles
          PROVE  /\ end.cycles[u].stage >= st.cycles[u].stage
                 /\ end.cycles[u].stage = st.cycles[u].stage
                      => end.cycles[u].at = st.cycles[u].at
                 /\ end.cycles[u].at \in {st.cycles[u].at, ts}
      <4>1. /\ now.cycles[u].stage >= st.cycles[u].stage
            /\ now.cycles[u].stage = st.cycles[u].stage
                 => now.cycles[u].at = st.cycles[u].at
            /\ now.cycles[u].at \in {st.cycles[u].at, ts}
            /\ u \in DOMAIN now.cycles
        BY <3>2 DEF Forward
      <4>2. /\ end.cycles[u].stage >= now.cycles[u].stage
            /\ end.cycles[u].stage = now.cycles[u].stage
                 => end.cycles[u].at = now.cycles[u].at
            /\ end.cycles[u].at \in {now.cycles[u].at, ts}
        BY <3>2, <4>1 DEF Forward
      <4>3. /\ st.cycles[u].stage \in Nat /\ now.cycles[u].stage \in Nat
            /\ end.cycles[u].stage \in Nat
        BY <3>1
      <4>4. end.cycles[u].stage = st.cycles[u].stage
              => /\ now.cycles[u].stage = st.cycles[u].stage
                 /\ end.cycles[u].stage = now.cycles[u].stage
        BY <4>1, <4>2, <4>3
      <4>5. end.cycles[u].stage >= st.cycles[u].stage
        BY <4>1, <4>2, <4>3
      <4> QED
        BY <4>1, <4>2, <4>4, <4>5
    <3>4. /\ end.order = st.order /\ end.emitted = st.emitted
          /\ DOMAIN end.cycles = DOMAIN st.cycles
      BY <3>2 DEF Forward
    <3>5. Forward(st, end, ts)
      BY <3>3, <3>4 DEF Forward
    <3> QED
      BY <3>5 DEF end
  <2> HIDE DEF step, moved, so
  <2>6. step[1] = moved[1] /\ step[2] = pass[2] \o moved[2]
    BY <2>1
  <2> QED
    BY <1>3, <2>3, <2>4, <2>5, <2>6 DEF Keeps, step
<1> QED
  BY <1>4, <1>5

\* A tick of the clock keeps the cycles, the signals and their number together.
LEMMA StressClockKeeps ==
  ASSUME NEW c, IsConfig(c), NEW st, NEW seen \in [TokenSet -> MarketFlags],
         CyclesFit(c, st, seen), NEW list, SignalsFit(c, st.cycles, list), NEW ts \in Nat
  PROVE  Keeps(c, st, list, seen, ts, StressOnClock(c, st, ts))
<1> DEFINE n == Len(st.order)
           pass == CHOOSE pass : IsPass(pass, c, st, ts, n)
<1>1. /\ st \in StateType /\ n \in Nat /\ DOMAIN st.order = 1 .. n
      /\ {st.order[i] : i \in 1 .. n} = DOMAIN st.cycles
  <2>1. st \in StateType /\ {st.order[i] : i \in DOMAIN st.order} = DOMAIN st.cycles
    BY DEF CyclesFit
  <2>2. st.order \in Seq(TokenSet)
    BY <2>1, Stateful
  <2> QED
    BY <2>1, <2>2
<1>2. StressOnClock(c, st, ts) = pass[n]
  BY DEF StressOnClock, IsPass
<1>3. IsPass(pass, c, st, ts, n)
  <2> HIDE DEF n
  <2> QED
    BY <1>1, PassExists
<1> HIDE DEF pass, n
<1> DEFINE P == {m \in Nat : m <= n => Keeps(c, st, list, seen, ts, pass[m])}
<1>4. /\ pass[0] = <<st, <<>>>>
      /\ \A m \in 1 .. n : pass[m] = ClockStep(c, pass[m - 1], st.order[m], ts)
  <2> DEFINE step(m) == ClockStep(c, pass[m - 1], st.order[m], ts)
  <2>1. pass = [m \in 0 .. n |-> IF m = 0 THEN <<st, <<>>>> ELSE step(m)]
    BY <1>3 DEF IsPass
  <2> HIDE DEF step
  <2>2. pass[0] = <<st, <<>>>> /\ \A m \in 1 .. n : pass[m] = step(m)
    BY <1>1, <2>1
  <2> QED
    BY <2>2 DEF step
<1>5. 0 \in P
  <2>1. list \in Seq(NotedSignal)
    BY DEF SignalsFit
  <2>2. list \o Noted(<<>>, seen) = list
    BY <2>1 DEF Noted
  <2>3. \A u \in DOMAIN st.cycles : st.cycles[u].stage \in Nat
    BY <1>1, Stateful DEF Cycle
  <2>4. Forward(st, st, ts)
    BY <2>3 DEF Forward
  <2>5. pass[0][1] = st /\ pass[0][2] = <<>>
    BY <1>4
  <2>6. <<>> \in Seq([token : TokenSet, target : Nat, ts : Nat])
    OBVIOUS
  <2>7. Keeps(c, st, list, seen, ts, pass[0])
    BY <2>2, <2>4, <2>5, <2>6 DEF Keeps
  <2> QED
    BY <2>7
<1>6. ASSUME NEW m \in Nat, m \in P PROVE m + 1 \in P
  <2> SUFFICES ASSUME m + 1 <= n PROVE Keeps(c, st, list, seen, ts, pass[m + 1])
    OBVIOUS
  <2>1. m <= n /\ m + 1 \in 1 .. n /\ (m + 1) - 1 = m
    BY <1>1
  <2>2. Keeps(c, st, list, seen, ts, pass[m])
    BY <1>6, <2>1
  <2>3. pass[m + 1] = ClockStep(c, pass[m], st.order[m + 1], ts)
    BY <1>4, <2>1
  <2>4. st.order[m + 1] \in DOMAIN pass[m][1].cycles
    BY <1>1, <2>1, <2>2 DEF Keeps, Forward
  <2> QED
    BY <2>2, <2>3, <2>4, ClockStepKeeps
<1> HIDE DEF P
<1>7. n \in P
  BY <1>1, <1>5, <1>6, NatSetInduction
<1> QED
  BY <1>1, <1>2, <1>7 DEF P

-----------------------------------------------------------------------------
(***************************************************************************)
(* The strategies in a run.                                                *)
(***************************************************************************)
\* The probe sends only on open data, and counts what it has sent.
ProbeFits ==
  /\ signals \in Seq(NotedSignal)
  /\ \A i \in 1 .. Len(signals) : signals[i].data = "open"
  /\ held \subseteq state.emitted /\ Cardinality(state.emitted) <= Positions

\* The strategy, its cycles and the signals of the run agree.
Fits ==
  /\ Fed
  /\ next \in 1 .. Len(events) + 1
  /\ state \in StateType /\ data \in [TokenSet -> MarketFlags]
  /\ kind = "stress" => /\ CyclesFit(config, state, data)
                        /\ SignalsFit(config, state.cycles, signals)
  /\ kind # "stress" => DOMAIN state.cycles = {}
  /\ kind = "probe" => ProbeFits

\* The strategies start with nothing.
LEMMA FreshFits ==
  /\ FreshState \in StateType /\ FreshState.emitted = {}
  /\ DOMAIN FreshState.cycles = {} /\ DOMAIN FreshState.order = {}
<1>1. <<>> \in [{} -> Cycle]
  OBVIOUS
<1>2. <<>> \in UNION {[D -> Cycle] : D \in SUBSET TokenSet}
  BY <1>1
<1>3. <<>> \in Seq(TokenSet) /\ DOMAIN <<>> = {}
  OBVIOUS
<1> QED
  BY <1>2, <1>3 DEF FreshState, StateType

\* A run starts with nothing sent and nothing begun.
LEMMA InitFits == Init => Fits
<1> SUFFICES ASSUME Init PROVE Fits
  OBVIOUS
<1>1. Fed /\ Len(events) \in Nat \ {0}
  BY InitFed, EndsOfFeed
<1>2. /\ next = 1 /\ state = FreshState /\ held = {} /\ signals = <<>>
      /\ data = [t \in TokenSet |-> "open"]
  BY DEF Init
<1>3. data \in [TokenSet -> MarketFlags]
  BY <1>2 DEF MarketFlags
<1>4. /\ state \in StateType /\ state.emitted = {}
      /\ DOMAIN state.cycles = {} /\ DOMAIN state.order = {}
  BY <1>2, FreshFits
<1>5. Cardinality({}) = 0 /\ Positions \in Nat /\ config.active \in Nat
  BY <1>1, FS_EmptySet, StrategyRunAssumption DEF Fed, IsConfig
<1>6. CyclesFit(config, state, data)
  <2>1. Active(state.cycles) = {}
    BY <1>4 DEF Active
  <2>2. {state.order[i] : i \in DOMAIN state.order} = {}
    BY <1>4
  <2> QED
    BY <1>4, <1>5, <2>1, <2>2 DEF CyclesFit
<1>7. SignalsFit(config, state.cycles, signals)
  <2>1. signals \in Seq(NotedSignal) /\ Len(signals) = 0 /\ DOMAIN signals = {}
    BY <1>2
  <2>2. \A t : OfToken(signals, t) = {}
    BY <2>1 DEF OfToken
  <2>3. 1 .. Len(signals) = {}
    BY <2>1
  <2> QED
    BY <1>4, <1>5, <2>1, <2>2, <2>3 DEF SignalsFit, StageIn, TargetIn, LastTarget
<1>8. ProbeFits
  <2>1. signals \in Seq(NotedSignal) /\ 1 .. Len(signals) = {}
    BY <1>2
  <2> QED
    BY <1>2, <1>4, <1>5, <2>1 DEF ProbeFits
<1>9. next \in 1 .. Len(events) + 1
  BY <1>1, <1>2
<1> QED
  BY <1>1, <1>3, <1>4, <1>6, <1>7, <1>8, <1>9 DEF Fits

\* One signal at most, and the tokens it was sent for.
LEMMA EmitKeeps ==
  ASSUME NEW st \in StateType, NEW t \in TokenSet, NEW target, NEW ts
  PROVE  LET r == Emit(st, t, target, ts) IN
         /\ r[1] \in StateType /\ r[1].cycles = st.cycles
         /\ r[1].emitted = st.emitted \cup {t} /\ r[2] = <<Signal(t, target, ts)>>
  BY DEF Emit, StateType

\* An event keeps the strategy consistent with what it has sent.
LEMMA EventFits ==
  ASSUME Fits, NEW flag \in MarketFlags, NEW filled \in BOOLEAN, DeliverEvent(flag, filled)
  PROVE  Fits'
<1> DEFINE e == events[next]
           result == OnEvent(e, flag)
<1>1. /\ Fed /\ Fed' /\ IsConfig(config) /\ kind \in {"stress", "probe", "bootstrap"}
  <2>1. Fed /\ Fed'
    BY StepFed DEF Fits, Next
  <2> QED
    BY <2>1, StrategyRunAssumption DEF Fed
<1>2. /\ next \in 1 .. Len(events) /\ next' \in 1 .. Len(events') + 1
      /\ e.token \in TokenSet /\ e.ts \in Nat /\ events' = events /\ next' = next + 1
      /\ config' = config /\ kind' = kind
  <2>1. /\ next <= Len(events) /\ next' = next + 1 /\ events' = events
        /\ config' = config /\ kind' = kind
    BY DEF DeliverEvent, run
  <2>2. next \in 1 .. Len(events)
    BY <1>1, <2>1, EndsOfFeed DEF Fits
  <2> QED
    BY <1>1, <2>1, <2>2, EndsOfFeed
<1>3. /\ state \in StateType /\ data \in [TokenSet -> MarketFlags]
      /\ data' = [data EXCEPT ![e.token] = flag]
      /\ state' = result[1] /\ signals' = signals \o Noted(result[2], data')
      /\ filled => ~replay /\ result[2] # <<>>
      /\ held' = IF filled THEN held \cup {e.token} ELSE held
  BY DEF DeliverEvent, Called, Fits
<1>4. data' \in [TokenSet -> MarketFlags] /\ data'[e.token] = flag
  BY <1>2, <1>3
<1> HIDE DEF result, e
<1>5. CASE kind = "stress"
  <2>1. result = StressOnEvent(config, state, e.token, e.ts, flag)
    BY <1>5 DEF OnEvent, result
  <2>2. CyclesFit(config, state, data) /\ SignalsFit(config, state.cycles, signals)
    BY <1>5 DEF Fits
  <2>3. EventKeeps(config, state, signals, data', e.token, e.ts, result)
    BY <1>1, <1>2, <1>3, <2>1, <2>2, StressEventKeeps
  <2>4. CyclesFit(config', state', data') /\ SignalsFit(config', state'.cycles, signals')
    BY <1>2, <1>3, <2>3 DEF EventKeeps
  <2>5. state' \in StateType
    BY <2>4 DEF CyclesFit
  <2> QED
    BY <1>1, <1>2, <1>4, <1>5, <2>4, <2>5 DEF Fits
<1>6. CASE kind = "probe"
  <2>1. result = ProbeOnEvent(config, state, e.token, e.ts, held, flag)
    BY <1>6 DEF OnEvent, result
  <2>2. ProbeFits /\ DOMAIN state.cycles = {}
    BY <1>6 DEF Fits
  <2>3. CASE result = <<state, <<>>>>
    <3>1. state' = state /\ result[2] = <<>>
      BY <1>3, <2>3
    <3>2. held' = held
      BY <1>3, <3>1
    <3>3. signals' = signals
      BY <1>3, <2>2, <3>1 DEF Noted, ProbeFits
    <3>4. ProbeFits'
      BY <2>2, <3>1, <3>2, <3>3 DEF ProbeFits
    <3> QED
      BY <1>1, <1>2, <1>3, <1>4, <1>6, <2>2, <3>1, <3>4 DEF Fits
  <2>4. CASE result # <<state, <<>>>>
    <3> DEFINE sig == Signal(e.token, config.stake, e.ts)
               note == [signal |-> sig, data |-> flag]
    <3>1. /\ result = Emit(state, e.token, config.stake, e.ts)
          /\ e.token \notin state.emitted /\ flag = "open"
          /\ Cardinality(held) + Cardinality(state.emitted) < config.positions
      BY <2>1, <2>4 DEF ProbeOnEvent, CanProbe
    <3>2. /\ result[1] \in StateType /\ result[1].cycles = state.cycles
          /\ result[1].emitted = state.emitted \cup {e.token} /\ result[2] = <<sig>>
      BY <1>2, <1>3, <3>1, EmitKeeps
    <3>3. config.positions = Positions /\ Positions \in Nat /\ config.stake \in Nat
      BY <1>1, StrategyRunAssumption DEF IsConfig
    <3>4. sig.token = e.token /\ sig \in [token : TokenSet, target : Nat, ts : Nat]
      BY <1>2, <3>3 DEF Signal
    <3> HIDE DEF sig
    <3>5. Noted(<<sig>>, data') = <<note>> /\ note \in NotedSignal /\ note.data = "open"
      BY <1>4, <3>1, <3>4 DEF Noted, NotedSignal, MarketFlags
    <3> HIDE DEF note
    <3>6. /\ signals \in Seq(NotedSignal) /\ held \subseteq state.emitted
          /\ \A i \in 1 .. Len(signals) : signals[i].data = "open"
      BY <2>2 DEF ProbeFits
    <3>7. /\ signals' = signals \o <<note>>
          /\ state'.emitted = state.emitted \cup {e.token} /\ state' \in StateType
          /\ state'.cycles = state.cycles
      BY <1>3, <3>2, <3>5
    <3>8. /\ signals' \in Seq(NotedSignal)
          /\ \A i \in 1 .. Len(signals') : signals'[i].data = "open"
      <4>1. /\ signals' \in Seq(NotedSignal) /\ Len(signals') = Len(signals) + 1
            /\ signals'[Len(signals) + 1] = note
            /\ \A i \in 1 .. Len(signals) : signals'[i] = signals[i]
        BY <3>5, <3>6, <3>7
      <4>2. ASSUME NEW i \in 1 .. Len(signals) + 1
            PROVE  signals'[i].data = "open"
        <5>1. CASE i = Len(signals) + 1
          BY <3>5, <4>1, <5>1
        <5>2. CASE i # Len(signals) + 1
          <6>1. i \in 1 .. Len(signals)
            BY <3>6, <5>2
          <6> QED
            BY <3>6, <4>1, <6>1
        <5> QED
          BY <5>1, <5>2
      <4> QED
        BY <4>1, <4>2
    <3>9. held' \subseteq state'.emitted
      BY <1>3, <3>6, <3>7
    <3>10. Cardinality(state'.emitted) <= Positions
      <4>1. /\ IsFiniteSet(state.emitted) /\ IsFiniteSet(held)
            /\ Cardinality(state.emitted) \in Nat /\ Cardinality(held) \in Nat
        <5>1. state.emitted \subseteq TokenSet
          BY <1>3, Stateful
        <5> QED
          BY <3>6, <5>1, TokensAreFinite, FS_Subset, FS_CardinalityType
      <4>2. Cardinality(state.emitted \cup {e.token}) = Cardinality(state.emitted) + 1
        BY <3>1, <4>1, FS_AddElement
      <4> QED
        BY <3>1, <3>3, <3>7, <4>1, <4>2
    <3>11. ProbeFits'
      BY <3>8, <3>9, <3>10 DEF ProbeFits
    <3> QED
      BY <1>1, <1>2, <1>4, <1>6, <2>2, <3>7, <3>11 DEF Fits
  <2> QED
    BY <2>3, <2>4
<1>7. CASE kind = "bootstrap"
  <2>1. result = BootstrapOnEvent(state, e.token, e.ts, flag)
    BY <1>7 DEF OnEvent, result
  <2>2. state' \in StateType /\ state'.cycles = state.cycles
    <3>1. CASE result = <<state, <<>>>>
      BY <1>3, <3>1
    <3>2. CASE result = Emit(state, e.token, 2, e.ts)
      BY <1>2, <1>3, <3>2, EmitKeeps
    <3> QED
      BY <2>1, <3>1, <3>2 DEF BootstrapOnEvent
  <2> QED
    BY <1>1, <1>2, <1>4, <1>7, <2>2 DEF Fits
<1> QED
  BY <1>1, <1>5, <1>6, <1>7

\* A tick of the clock keeps the strategy consistent with what it has sent.
LEMMA TickFits ==
  ASSUME Fits, Clocked, DeliverTick
  PROVE  Fits'
<1>1. Fed /\ Fed' /\ IsConfig(config)
  <2>1. Fed /\ Fed'
    BY StepFed DEF Fits, Next
  <2> QED
    BY <2>1 DEF Fed
<1> DEFINE result == IF kind = "stress" THEN StressOnClock(config, state, tick)
                     ELSE <<state, <<>>>>
<1>2. /\ state' = result[1] /\ signals' = signals \o Noted(result[2], data)
      /\ next' = next /\ held' = held /\ data' = data /\ config' = config
      /\ kind' = kind /\ events' = events
  BY DEF DeliverTick, Called, run
<1>3. /\ state \in StateType /\ data \in [TokenSet -> MarketFlags]
      /\ next \in 1 .. Len(events) + 1
  BY DEF Fits
<1>4. CASE kind = "stress"
  <2>1. tick \in Nat
    BY DEF Clocked
  <2>2. CyclesFit(config, state, data) /\ SignalsFit(config, state.cycles, signals)
    BY <1>4 DEF Fits
  <2>3. Keeps(config, state, signals, data, tick, result)
    BY <1>1, <1>3, <1>4, <2>1, <2>2, StressClockKeeps
  <2> HIDE DEF result
  <2>4. CyclesFit(config', state', data') /\ SignalsFit(config', state'.cycles, signals')
    BY <1>2, <2>3 DEF Keeps
  <2>5. state' \in StateType
    BY <2>4 DEF CyclesFit
  <2> QED
    BY <1>1, <1>2, <1>3, <1>4, <2>1, <2>4, <2>5 DEF Fits
<1>5. CASE kind # "stress"
  <2>1. state' = state /\ Noted(result[2], data) = <<>>
    BY <1>2, <1>5 DEF Noted
  <2>2. kind = "probe" => signals' = signals
    BY <1>2, <2>1 DEF Fits, ProbeFits
  <2>3. kind = "probe" => ProbeFits'
    BY <1>2, <2>1, <2>2 DEF Fits, ProbeFits
  <2> HIDE DEF result
  <2> QED
    BY <1>1, <1>2, <1>3, <1>5, <2>1, <2>3 DEF Fits
<1> QED
  BY <1>4, <1>5

\* Every step of the run does.
LEMMA StepFits == Fits /\ Clocked /\ [Next]_vars => Fits'
<1> SUFFICES ASSUME Fits, Clocked, [Next]_vars PROVE Fits'
  OBVIOUS
<1>1. CASE DeliverTick
  BY <1>1, TickFits
<1>2. ASSUME NEW flag \in MarketFlags, NEW filled \in BOOLEAN, DeliverEvent(flag, filled)
      PROVE  Fits'
  BY <1>2, EventFits
<1>3. CASE UNCHANGED vars
  <2>1. Fed'
    BY StepFed DEF Fits
  <2>2. /\ config' = config /\ kind' = kind /\ events' = events /\ next' = next
        /\ state' = state /\ held' = held /\ data' = data /\ signals' = signals
    BY <1>3 DEF vars
  <2> QED
    BY <2>1, <2>2 DEF Fits, ProbeFits
<1> QED
  BY <1>1, <1>2, <1>3 DEF Next

\* The strategy and its clock stay consistent with what was sent.
LEMMA AlwaysFits == Spec => [](Fits /\ Clocked)
<1>1. Init => Fits /\ Clocked
  BY InitFits, InitClocked
<1>2. Fits /\ Clocked /\ [Next]_vars => (Fits /\ Clocked)'
  BY StepFits, StepClocked
<1> QED
  BY <1>1, <1>2, PTL DEF Spec

-----------------------------------------------------------------------------
\* RaisesOnlyWhenOpen holds in every run of the strategies: whether an event
\* or the clock moves a cycle on, the data it decides on is the last the token
\* had an event with.
THEOREM RaisesAlwaysOnlyWhenOpen == Spec => []RaisesOnlyWhenOpen
<1>1. ASSUME Fits PROVE RaisesOnlyWhenOpen
  <2>1. kind \in {"stress", "probe", "bootstrap"}
    BY <1>1, StrategyRunAssumption DEF Fits, Fed
  <2>2. ASSUME NEW i \in DOMAIN signals, kind # "bootstrap"
        PROVE  LET earlier == {j \in SignalsOf(signals[i].signal.token) : j < i}
                   before == IF earlier = {} THEN 0
                             ELSE signals[CHOOSE j \in earlier :
                                            \A k \in earlier : k <= j].signal.target
               IN  signals[i].signal.target > before => ~Blocked(signals[i].data)
    <3> DEFINE earlier == {j \in SignalsOf(signals[i].signal.token) : j < i}
               before == IF earlier = {} THEN 0
                         ELSE signals[CHOOSE j \in earlier :
                                        \A k \in earlier : k <= j].signal.target
    <3>1. CASE kind = "stress"
      <4>1. SignalsFit(config, state.cycles, signals)
        BY <1>1, <3>1 DEF Fits
      <4>2. i \in 1 .. Len(signals)
        BY <4>1 DEF SignalsFit
      <4>3. signals[i].signal.target > LastTarget(signals, Earlier(signals, i))
              => ~Blocked(signals[i].data)
        BY <4>1, <4>2 DEF SignalsFit
      <4>4. earlier = Earlier(signals, i)
        BY DEF SignalsOf, OfToken, Earlier
      <4>5. before = LastTarget(signals, Earlier(signals, i))
        <5>1. before = LastTarget(signals, earlier)
          BY DEF LastTarget
        <5> HIDE DEF before, earlier
        <5> QED
          BY <4>4, <5>1
      <4> QED
        BY <4>3, <4>5
    <3>2. CASE kind = "probe"
      <4>1. signals \in Seq(NotedSignal)
            /\ \A k \in 1 .. Len(signals) : signals[k].data = "open"
        BY <1>1, <3>2 DEF Fits, ProbeFits
      <4>2. signals[i].data = "open"
        BY <4>1
      <4>3. ~Blocked(signals[i].data)
        BY <4>2 DEF Blocked
      <4> QED
        BY <4>3
    <3> QED
      BY <2>1, <2>2, <3>1, <3>2
  <2> QED
    BY <2>2 DEF RaisesOnlyWhenOpen
<1> QED
  BY <1>1, AlwaysFits, PTL

\* ExposureIsLimited holds in every run of the strategies: a cycle starts only
\* with room for it, and the probe counts what it has signalled.
THEOREM ExposureAlwaysLimited == Spec => []ExposureIsLimited
<1>1. ASSUME Fits PROVE ExposureIsLimited
  <2>1. IsConfig(config)
    BY <1>1 DEF Fits, Fed
  <2>2. Cardinality(Active(state.cycles)) <= config.active
    <3>1. CASE kind = "stress"
      BY <1>1, <3>1 DEF Fits, CyclesFit
    <3>2. CASE kind # "stress"
      <4>1. Active(state.cycles) = {}
        BY <1>1, <3>2 DEF Fits, Active
      <4> QED
        BY <2>1, <4>1, FS_EmptySet DEF IsConfig
    <3> QED
      BY <3>1, <3>2
  <2>3. kind = "probe" => Cardinality(held \cup state.emitted) <= Positions
    <3> SUFFICES ASSUME kind = "probe"
                 PROVE  Cardinality(held \cup state.emitted) <= Positions
      OBVIOUS
    <3>1. held \subseteq state.emitted /\ Cardinality(state.emitted) <= Positions
      BY <1>1 DEF Fits, ProbeFits
    <3>2. held \cup state.emitted = state.emitted
      BY <3>1
    <3> QED
      BY <3>1, <3>2
  <2> QED
    BY <2>2, <2>3 DEF ExposureIsLimited
<1> QED
  BY <1>1, AlwaysFits, PTL

-----------------------------------------------------------------------------
(***************************************************************************)
(* Staged events carry every cycle to its exit.                            *)
(***************************************************************************)
\* What is due moves the cycle of its token on by one stage, and no other.
Moves(c, st, t, ts, later) ==
  /\ Advances(c, st.cycles, t, ts, st.cycles[t].data)
       => later.cycles[t].stage = st.cycles[t].stage + 1
  /\ later.cycles[t].stage \in {st.cycles[t].stage, st.cycles[t].stage + 1}
  /\ \A u \in DOMAIN st.cycles : u # t => later.cycles[u] = st.cycles[u]

\* _advance_if_due moves the cycle of its token on, and no other.
LEMMA AdvanceMoves ==
  ASSUME NEW c, NEW st, NEW seen, CyclesFit(c, st, seen), NEW t \in DOMAIN st.cycles,
         NEW ts \in Nat
  PROVE  Moves(c, st, t, ts, AdvanceIfDue(c, st, t, ts)[1])
<1> DEFINE cycle == st.cycles[t]
           target == c.targets[cycle.stage + 1]
           done == target = 0
           sent == [cycle EXCEPT !.stage = @ + 1, !.target = target, !.at = ts,
                                 !.events = 0, !.complete = done]
           more == [st.cycles EXCEPT ![t] = sent]
           later == [st EXCEPT !.cycles = more]
           result == AdvanceIfDue(c, st, t, ts)
<1>1. st \in StateType
  BY DEF CyclesFit
<1>2. cycle \in Cycle /\ st.cycles \in [DOMAIN st.cycles -> Cycle]
  BY <1>1, Stateful
<1>3. CASE ~Advances(c, st.cycles, t, ts, cycle.data)
  <2>1. result = <<st, <<>>>>
    BY <1>3, NotDue
  <2> QED
    BY <1>3, <2>1 DEF Moves
<1>4. CASE Advances(c, st.cycles, t, ts, cycle.data)
  <2>1. result = <<later, <<Signal(t, target, ts)>>>>
    BY <1>4 DEF AdvanceIfDue
  <2>2. sent.stage = cycle.stage + 1
    <3> HIDE DEF cycle, target, done
    <3> QED
      BY <1>2 DEF Cycle
  <2> HIDE DEF sent
  <2>3. later.cycles = more
    <3> HIDE DEF more
    <3> QED
      BY <1>1 DEF StateType
  <2>4. more[t] = sent /\ \A u \in DOMAIN st.cycles : u # t => more[u] = st.cycles[u]
    BY <1>2
  <2> HIDE DEF later, more, result
  <2>5. result[1] = later
    BY <2>1
  <2> QED
    BY <2>2, <2>3, <2>4, <2>5 DEF Moves, result
<1> QED
  BY <1>3, <1>4

\* An event of stage s finds its token at that stage for the interval, or past
\* it, and leaves it past it.
Carries(st, t, ts, s, later) ==
  /\ t \in DOMAIN later.cycles
  /\ later.cycles[t].stage >= s + 1 /\ later.cycles[t].at <= ts
  /\ \A u \in DOMAIN st.cycles : u # t =>
       /\ u \in DOMAIN later.cycles
       /\ later.cycles[u].stage = st.cycles[u].stage
       /\ later.cycles[u].at = st.cycles[u].at

\* An event with open data that finds its token ready moves it past its stage.
LEMMA EventCarries ==
  ASSUME NEW c, IsConfig(c), NEW st, NEW seen \in [TokenSet -> MarketFlags],
         CyclesFit(c, st, seen), NEW list, SignalsFit(c, st.cycles, list),
         NEW t \in TokenSet, NEW ts \in Nat, NEW s \in 0 .. Len(c.targets) - 1,
         t \in DOMAIN st.cycles => st.cycles[t].at <= ts,
         s = 0 => Cardinality(Active(st.cycles) \ {t}) < c.active,
         s # 0 => /\ t \in DOMAIN st.cycles /\ st.cycles[t].stage >= s
                  /\ st.cycles[t].stage = s => ts - st.cycles[t].at >= c.interval
  PROVE  Carries(st, t, ts, s, StressOnEvent(c, st, t, ts, "open")[1])
<1> DEFINE k == Knowing(st, t, "open")
           seen2 == [seen EXCEPT ![t] = "open"]
           cycle == k.cycles[t]
           later == AdvanceIfDue(c, k, t, ts)[1]
           n == Len(c.targets)
<1>0. IsKnown(c, st, k, list, seen2, t, "open")
  <2>1. "open" \in MarketFlags
    BY DEF MarketFlags
  <2> QED
    BY <2>1, KnowingKeeps
<1>1. /\ CyclesFit(c, k, seen2) /\ SignalsFit(c, k.cycles, list)
      /\ DOMAIN k.cycles = DOMAIN st.cycles \cup {t} /\ cycle.data = "open"
      /\ \A u \in DOMAIN st.cycles : /\ k.cycles[u].stage = st.cycles[u].stage
                                     /\ k.cycles[u].at = st.cycles[u].at
      /\ t \notin DOMAIN st.cycles => cycle.stage = 0 /\ cycle.at = 0
  BY <1>0 DEF IsKnown
<1>2. n \in {4, 5} /\ n \in Nat /\ s \in 0 .. n - 1
  BY DEF IsConfig, IsTargets
<1>3. StressOnEvent(c, st, t, ts, "open")[1] = later
  BY DEF StressOnEvent
<1> HIDE DEF k, seen2
<1>4. t \in DOMAIN k.cycles
  BY <1>1
<1>5. Moves(c, k, t, ts, later) /\ Keeps(c, k, list, seen2, ts, AdvanceIfDue(c, k, t, ts))
  BY <1>1, <1>4, AdvanceMoves, AdvanceKeeps
<1>6. Forward(k, later, ts) /\ CyclesFit(c, later, seen2)
  BY <1>5 DEF Keeps
<1> HIDE DEF later
<1>7. /\ cycle \in Cycle /\ CycleFits(c, cycle)
      /\ later.cycles[t] \in Cycle /\ DOMAIN later.cycles = DOMAIN k.cycles
      /\ later.cycles[t].stage >= cycle.stage /\ later.cycles[t].at \in {cycle.at, ts}
  <2>1. k \in StateType /\ later \in StateType /\ CycleFits(c, cycle)
    BY <1>1, <1>4, <1>6 DEF CyclesFit
  <2>2. /\ DOMAIN later.cycles = DOMAIN k.cycles
        /\ later.cycles[t].stage >= cycle.stage /\ later.cycles[t].at \in {cycle.at, ts}
    BY <1>4, <1>6 DEF Forward
  <2> QED
    BY <1>4, <2>1, <2>2, Stateful
<1>8. Active(k.cycles) \ {t} \subseteq Active(st.cycles) \ {t}
  <2>1. ASSUME NEW u \in Active(k.cycles), u # t PROVE u \in Active(st.cycles)
    <3>1. u \in DOMAIN st.cycles /\ k.cycles[u].stage > 0 /\ ~k.cycles[u].complete
      BY <1>1, <2>1 DEF Active
    <3>2. CycleFits(c, k.cycles[u]) /\ CycleFits(c, st.cycles[u])
      BY <1>1, <3>1 DEF CyclesFit
    <3>3. st.cycles[u].stage > 0 /\ ~st.cycles[u].complete
      BY <1>1, <3>1, <3>2 DEF CycleFits
    <3> QED
      BY <3>1, <3>3 DEF Active
  <2> QED
    BY <2>1
<1>9. later.cycles[t].stage >= s + 1
  <2>1. cycle.stage \in Nat /\ later.cycles[t].stage \in Nat /\ cycle.at \in Nat
    BY <1>7 DEF Cycle
  <2>2. CASE cycle.stage >= s + 1
    BY <1>2, <1>7, <2>1, <2>2
  <2>3. CASE cycle.stage <= s
    <3>1. cycle.stage = s
      <4>1. CASE s = 0
        BY <2>1, <2>3, <4>1
      <4>2. CASE s # 0
        BY <1>1, <1>2, <2>1, <2>3, <4>2
      <4> QED
        BY <4>1, <4>2
    <3>2. s = 0 => CanStartNewCycle(c, k.cycles, t, "open")
      <4> SUFFICES ASSUME s = 0 PROVE CanStartNewCycle(c, k.cycles, t, "open")
        OBVIOUS
      <4>1. Cardinality(Active(st.cycles) \ {t}) < c.active
        OBVIOUS
      <4>2. IsFiniteSet(Active(st.cycles) \ {t})
        <5>1. st \in StateType
          BY DEF CyclesFit
        <5>2. Active(st.cycles) \ {t} \subseteq TokenSet
          BY <5>1, Stateful DEF Active
        <5> QED
          BY <5>2, TokensAreFinite, FS_Subset
      <4>3. Cardinality(Active(k.cycles) \ {t}) <= Cardinality(Active(st.cycles) \ {t})
            /\ Cardinality(Active(k.cycles) \ {t}) \in Nat
            /\ Cardinality(Active(st.cycles) \ {t}) \in Nat
        BY <1>8, <4>2, FS_Subset, FS_CardinalityType
      <4>4. Cardinality(Active(k.cycles) \ {t}) < c.active
        BY <4>1, <4>3 DEF IsConfig
      <4> QED
        BY <4>4 DEF CanStartNewCycle, Blocked
    <3>3. s # 0 => ReadyForNextStage(c, cycle, ts)
      <4> SUFFICES ASSUME s # 0 PROVE ReadyForNextStage(c, cycle, ts)
        OBVIOUS
      <4>1. ts - cycle.at >= c.interval
        BY <1>1, <3>1
      <4> QED
        BY <4>1 DEF ReadyForNextStage
    <3>4. ~BlocksIncrease(c, cycle, "open")
      BY DEF BlocksIncrease, Blocked
    <3>5. cycle.stage < n
      BY <1>2, <3>1
    <3> HIDE DEF cycle
    <3>6. Advances(c, k.cycles, t, ts, "open")
      BY <3>1, <3>2, <3>3, <3>4, <3>5 DEF Advances, cycle
    <3>7. later.cycles[t].stage = cycle.stage + 1
      BY <1>1, <1>5, <3>6 DEF Moves, cycle
    <3> QED
      BY <1>2, <3>1, <3>7
  <2> QED
    BY <1>2, <2>1, <2>2, <2>3
<1>10. later.cycles[t].at <= ts
  <2>1. cycle.at <= ts
    BY <1>1
  <2> QED
    BY <1>7, <2>1
<1>11. ASSUME NEW u \in DOMAIN st.cycles, u # t
       PROVE  /\ u \in DOMAIN later.cycles
              /\ later.cycles[u].stage = st.cycles[u].stage
              /\ later.cycles[u].at = st.cycles[u].at
  <2>1. u \in DOMAIN k.cycles
    BY <1>1
  <2>2. later.cycles[u] = k.cycles[u]
    BY <1>5, <1>11, <2>1 DEF Moves
  <2> QED
    BY <1>1, <1>7, <2>1, <2>2
<1> QED
  BY <1>3, <1>4, <1>7, <1>9, <1>10, <1>11 DEF Carries

\* A staged run of the stress strategy with room for all the tokens it may
\* open: those of the universe in a replay or without a stress_profile, one
\* after the other otherwise.
Roomy ==
  /\ staged /\ kind = "stress"
  /\ (IF replay \/ ~config.profiled THEN Len(Tokens) ELSE 1) <= config.active

\* What holds of such a run: the market data is open, every event so far has
\* moved the cycle of its token past its stage, at its time at the latest if
\* only just, and no cycle is ahead of the events to come.
Carried ==
  Roomy =>
    /\ \A t \in TokenSet : data[t] = "open"
    /\ \A t \in DOMAIN state.cycles :
         /\ \E k \in 1 .. next - 1 : events[k].token = t
         /\ \A k \in next .. Len(events) :
              events[k].token = t => state.cycles[t].at <= events[k].ts
    /\ \A k \in 1 .. next - 1 :
         LET t == events[k].token
             s == events[k].payload.stage IN
         /\ t \in DOMAIN state.cycles /\ state.cycles[t].stage >= s + 1
         /\ state.cycles[t].stage = s + 1 => state.cycles[t].at <= events[k].ts

\* Nothing is behind at first.
LEMMA InitCarried == Init => Carried
<1> SUFFICES ASSUME Init PROVE Carried
  OBVIOUS
<1>1. next = 1 /\ data = [t \in TokenSet |-> "open"] /\ state = FreshState
  BY DEF Init
<1>2. DOMAIN state.cycles = {} /\ 1 .. next - 1 = {}
  BY <1>1, FreshFits
<1> QED
  BY <1>1, <1>2 DEF Carried

\* The stages of the events are among those of the profile.
LEMMA Stages ==
  ASSUME IsConfig(config)
  PROVE  /\ StageCount \in Nat /\ Len(config.targets) \in Nat
         /\ StageCount <= Len(config.targets)
         /\ config.profiled => StageCount = Len(config.targets)
         /\ ~config.profiled => StageCount = 1
<1>1. Len(config.targets) \in {4, 5}
  BY DEF IsConfig, IsTargets
<1>2. CASE config.profiled
  BY <1>1, <1>2 DEF StageCount
<1>3. CASE ~config.profiled
  BY <1>1, <1>3 DEF StageCount
<1> QED
  BY <1>2, <1>3

\* There is room for the token of an event of the first stage: a replay has no
\* more tokens than may be active, nor has a run without a stress_profile, and
\* another realtime run has completed the others.
LEMMA RoomToStart ==
  ASSUME Fits, Carried, Roomy, next \in 1 .. Len(events),
         events[next].payload.stage = 0
  PROVE  Cardinality(Active(state.cycles) \ {events[next].token}) < config.active
<1> DEFINE e == events[next]
           others == Active(state.cycles) \ {e.token}
<1>1. /\ Fed /\ IsConfig(config) /\ kind = "stress" /\ staged
      /\ CyclesFit(config, state, data) /\ state \in StateType
      /\ e.token \in TokenSet /\ Len(events) \in Nat
  BY EndsOfFeed DEF Fits, Fed, Roomy
<1>2. others \subseteq TokenSet
  BY <1>1, Stateful DEF Active
<1>3. CASE replay \/ ~config.profiled
  <2>1. Len(Tokens) <= config.active
    BY <1>3 DEF Roomy
  <2>2. /\ IsFiniteSet(TokenSet \ {e.token})
        /\ Cardinality(TokenSet \ {e.token}) = Cardinality(TokenSet) - 1
    BY <1>1, TokensAreFinite, FS_RemoveElement
  <2>3. others \subseteq TokenSet \ {e.token}
    BY <1>2
  <2>4. Cardinality(others) <= Cardinality(TokenSet \ {e.token})
        /\ Cardinality(others) \in Nat
    BY <2>2, <2>3, FS_Subset, FS_CardinalityType
  <2> HIDE DEF others
  <2>5. Cardinality(others) < config.active
    BY <1>1, <2>1, <2>2, <2>4, TokensAreFinite DEF IsConfig
  <2> QED
    BY <2>5 DEF others
<1>4. CASE ~replay /\ config.profiled
  <2>1. 1 <= config.active
    BY <1>4 DEF Roomy
  <2>2. IsStaged(events, StageCount, config.interval) /\ OneByOne(events, StageCount)
    BY <1>1, <1>4 DEF Fed
  <2>3. StageCount = Len(config.targets) /\ StageCount \in Nat
    BY <1>1, <1>4, Stages
  <2>4. ASSUME NEW u \in others PROVE FALSE
    <3>1. u \in DOMAIN state.cycles /\ u # e.token /\ ~state.cycles[u].complete
      BY <2>4 DEF Active
    <3>2. PICK j \in 1 .. next - 1 : events[j].token = u
      BY <3>1 DEF Carried
    <3>3. j \in 1 .. Len(events) /\ j < next
      BY <1>1, <3>2
    <3>4. PICK l \in 1 .. next - 1 :
            events[l].token = u /\ events[l].payload.stage = StageCount - 1
      BY <2>2, <3>2, <3>3, SMTT(30) DEF OneByOne
    <3>5. state.cycles[u].stage >= (StageCount - 1) + 1
      BY <3>4 DEF Carried
    <3>6. CycleFits(config, state.cycles[u]) /\ state.cycles[u] \in Cycle
      BY <1>1, <3>1, Stateful DEF CyclesFit
    <3>7. state.cycles[u].stage = Len(config.targets)
      BY <2>3, <3>5, <3>6 DEF CycleFits, Cycle
    <3> QED
      BY <3>1, <3>6, <3>7 DEF CycleFits
  <2>5. others = {}
    BY <2>4
  <2>6. Cardinality(others) = 0
    BY <2>5, FS_EmptySet
  <2> QED
    BY <1>1, <2>1, <2>6 DEF IsConfig
<1> QED
  BY <1>3, <1>4

\* An event finds its token ready: the event of the stage before came an interval
\* earlier, and at the first stage there is room.
LEMMA EventCarried ==
  ASSUME Fits, Clocked, Carried, NEW flag \in MarketFlags, NEW filled \in BOOLEAN,
         DeliverEvent(flag, filled)
  PROVE  Carried'
<1> SUFFICES ASSUME Roomy' PROVE Carried'
  BY DEF Carried
<1> DEFINE e == events[next]
           t == e.token
           ts == e.ts
           s == e.payload.stage
           n == Len(events)
<1>1. /\ config' = config /\ kind' = kind /\ replay' = replay /\ staged' = staged
      /\ events' = events /\ next' = next + 1 /\ next <= n
      /\ data' = [data EXCEPT ![t] = flag] /\ state' = OnEvent(e, flag)[1]
      /\ staged => flag = "open"
  BY DEF DeliverEvent, Called, run
<1>2. Roomy /\ kind = "stress" /\ staged /\ flag = "open"
  BY <1>1 DEF Roomy
<1>3. /\ Fed /\ IsConfig(config) /\ n \in Nat \ {0} /\ next \in 1 .. n
      /\ t \in TokenSet /\ ts \in Nat /\ data \in [TokenSet -> MarketFlags]
      /\ CyclesFit(config, state, data) /\ SignalsFit(config, state.cycles, signals)
      /\ \A k \in 1 .. n : events[k].ts \in Nat
      /\ state \in StateType
  <2>1. Fed /\ IsConfig(config)
    BY DEF Fits, Fed
  <2>2. n \in Nat \ {0} /\ next \in 1 .. n
    BY <1>1, <2>1, EndsOfFeed DEF Fits
  <2> QED
    BY <1>2, <2>1, <2>2, EndsOfFeed DEF Fits
<1>4. /\ IsStaged(events, StageCount, config.interval)
      /\ StageCount \in Nat /\ Len(config.targets) \in Nat
      /\ StageCount <= Len(config.targets)
  BY <1>2, <1>3, Stages DEF Fed
<1>5. /\ s \in 0 .. Len(config.targets) - 1
      /\ \A k \in 1 .. n : events[k].payload.stage \in 0 .. Len(config.targets) - 1
  <2>1. \A k \in 1 .. n : events[k].payload.stage \in 0 .. StageCount - 1
    BY <1>4 DEF IsStaged
  <2>2. 0 .. StageCount - 1 \subseteq 0 .. Len(config.targets) - 1
    BY <1>4
  <2> QED
    BY <1>3, <2>1, <2>2
<1>6. state' = StressOnEvent(config, state, t, ts, "open")[1]
  BY <1>1, <1>2 DEF OnEvent
<1>7. t \in DOMAIN state.cycles => state.cycles[t].at <= ts
  BY <1>2, <1>3 DEF Carried
<1>8. s = 0 => Cardinality(Active(state.cycles) \ {t}) < config.active
  BY <1>2, <1>3, RoomToStart
<1>9. ASSUME s # 0
      PROVE  /\ t \in DOMAIN state.cycles /\ state.cycles[t].stage >= s
             /\ state.cycles[t].stage = s => ts - state.cycles[t].at >= config.interval
  <2>1. PICK j \in 1 .. next - 1 : Before(events, j, next, config.interval)
    BY <1>3, <1>4, <1>9 DEF IsStaged
  <2>2. /\ events[j].token = t /\ events[j].payload.stage = s - 1
        /\ ts = events[j].ts + config.interval
    BY <2>1 DEF Before
  <2> HIDE DEF t, s, ts
  <2>3. /\ t \in DOMAIN state.cycles /\ state.cycles[t].stage >= (s - 1) + 1
        /\ state.cycles[t].stage = (s - 1) + 1 => state.cycles[t].at <= events[j].ts
    BY <1>2, <2>1, <2>2 DEF Carried
  <2>4. state.cycles[t] \in Cycle
    BY <1>3, <2>3, Stateful
  <2>5. /\ (s - 1) + 1 = s /\ events[j].ts \in Nat /\ state.cycles[t].at \in Nat
        /\ config.interval \in Nat
    BY <1>3, <1>5, <2>1, <2>4 DEF Cycle, IsConfig
  <2> QED
    BY <2>2, <2>3, <2>5
<1>10. Carries(state, t, ts, s, state')
  BY <1>3, <1>5, <1>6, <1>7, <1>8, <1>9, EventCarries
<1>11. /\ t \in DOMAIN state'.cycles
       /\ state'.cycles[t].stage >= s + 1 /\ state'.cycles[t].at <= ts
       /\ \A u \in DOMAIN state.cycles : u # t =>
            /\ u \in DOMAIN state'.cycles
            /\ state'.cycles[u].stage = state.cycles[u].stage
            /\ state'.cycles[u].at = state.cycles[u].at
  BY <1>10 DEF Carries
<1>12. /\ DOMAIN state'.cycles = DOMAIN state.cycles \cup {t}
       /\ t \in DOMAIN state.cycles =>
            /\ state'.cycles[t].stage >= state.cycles[t].stage
            /\ state'.cycles[t].stage = state.cycles[t].stage
                 => state'.cycles[t].at = state.cycles[t].at
  <2>1. EventKeeps(config, state, signals, [data EXCEPT ![t] = "open"], t, ts,
                   StressOnEvent(config, state, t, ts, "open"))
    <3>1. "open" \in MarketFlags
      BY DEF MarketFlags
    <3> QED
      BY <1>3, <3>1, StressEventKeeps
  <2> QED
    BY <1>6, <2>1 DEF EventKeeps
<1>13. \A u \in DOMAIN state'.cycles : state'.cycles[u] \in Cycle
  <2>1. Fits'
    BY EventFits
  <2>2. state' \in StateType
    BY <2>1 DEF Fits
  <2> QED
    BY <2>2, Stateful
<1>14. \A u \in TokenSet : data'[u] = "open"
  BY <1>1, <1>2, <1>3 DEF Carried
<1> HIDE DEF t, ts, s, n
<1>15. ASSUME NEW u \in DOMAIN state'.cycles
       PROVE  /\ \E k \in 1 .. next : events[k].token = u
              /\ \A k \in next + 1 .. n :
                   events[k].token = u => state'.cycles[u].at <= events[k].ts
  <2>1. CASE u = t
    <3>1. next \in 1 .. next /\ events[next].token = u
      BY <1>3, <2>1 DEF t
    <3>2. ASSUME NEW k \in next + 1 .. n, events[k].token = u
          PROVE  state'.cycles[u].at <= events[k].ts
      <4>1. k \in 1 .. n /\ next < k /\ events[next].token = events[k].token
        BY <1>3, <2>1, <3>2 DEF t
      <4>2. events[next].ts <= events[k].ts
        BY <1>3, <1>4, <4>1 DEF IsStaged, n
      <4>3. state'.cycles[u].at \in Nat /\ events[k].ts \in Nat
        BY <1>3, <1>13, <4>1 DEF Cycle
      <4> QED
        BY <1>3, <1>11, <2>1, <4>2, <4>3 DEF ts
    <3> QED
      BY <3>1, <3>2
  <2>2. CASE u # t
    <3>1. u \in DOMAIN state.cycles /\ state'.cycles[u].at = state.cycles[u].at
      BY <1>11, <1>12, <1>15, <2>2
    <3>2. PICK k \in 1 .. next - 1 : events[k].token = u
      BY <1>2, <3>1 DEF Carried
    <3>3. k \in 1 .. next
      BY <1>3, <3>2
    <3>4. ASSUME NEW l \in next + 1 .. n, events[l].token = u
          PROVE  state'.cycles[u].at <= events[l].ts
      <4>1. l \in next .. n
        BY <1>3
      <4>2. state.cycles[u].at <= events[l].ts
        BY <1>2, <3>1, <3>4, <4>1 DEF Carried, n
      <4> QED
        BY <3>1, <4>2
    <3> QED
      BY <3>2, <3>3, <3>4
  <2> QED
    BY <2>1, <2>2
<1>16. ASSUME NEW k \in 1 .. next
       PROVE  LET u == events[k].token
                  r == events[k].payload.stage IN
              /\ u \in DOMAIN state'.cycles /\ state'.cycles[u].stage >= r + 1
              /\ state'.cycles[u].stage = r + 1 => state'.cycles[u].at <= events[k].ts
  <2> DEFINE u == events[k].token
             r == events[k].payload.stage
  <2>1. CASE k = next
    BY <1>11, <2>1 DEF t, s, ts
  <2>2. CASE k # next
    <3>1. k \in 1 .. next - 1 /\ k \in 1 .. n
      BY <1>3, <2>2
    <3>2. /\ u \in DOMAIN state.cycles /\ state.cycles[u].stage >= r + 1
          /\ state.cycles[u].stage = r + 1 => state.cycles[u].at <= events[k].ts
      BY <1>2, <3>1 DEF Carried
    <3>3. /\ u \in DOMAIN state'.cycles
          /\ state'.cycles[u].stage >= state.cycles[u].stage
          /\ state'.cycles[u].stage = state.cycles[u].stage
               => state'.cycles[u].at = state.cycles[u].at
          /\ state.cycles[u].stage \in Nat /\ state'.cycles[u].stage \in Nat
      <4>1. state.cycles[u] \in Cycle
        BY <1>3, <3>2, Stateful
      <4>2. u \in DOMAIN state'.cycles
        BY <1>12, <3>2
      <4>3. state'.cycles[u] \in Cycle
        BY <1>13, <4>2
      <4>4. state.cycles[u].stage \in Nat /\ state'.cycles[u].stage \in Nat
        BY <4>1, <4>3 DEF Cycle
      <4> HIDE DEF u
      <4>5. CASE u = t
        BY <1>12, <3>2, <4>2, <4>4, <4>5
      <4>6. CASE u # t
        BY <1>11, <3>2, <4>2, <4>4, <4>6
      <4> QED
        BY <4>5, <4>6
    <3>4. r \in Nat
      BY <1>4, <1>5, <3>1
    <3> HIDE DEF u, r
    <3>5. /\ state'.cycles[u].stage >= r + 1
          /\ state'.cycles[u].stage = r + 1 => state'.cycles[u].stage = state.cycles[u].stage
      BY <3>2, <3>3, <3>4
    <3>6. state'.cycles[u].stage = r + 1 => state'.cycles[u].at <= events[k].ts
      BY <3>2, <3>3, <3>5
    <3> QED
      BY <3>3, <3>5, <3>6 DEF u, r
  <2> QED
    BY <2>1, <2>2
<1>17. next' - 1 = next
  BY <1>1, <1>3
<1> QED
  BY <1>1, <1>14, <1>15, <1>16, <1>17 DEF Carried, n

\* A tick comes before the events still to come, so no cycle gets ahead of them.
LEMMA TickCarried ==
  ASSUME Fits, Clocked, Carried, DeliverTick
  PROVE  Carried'
<1> SUFFICES ASSUME Roomy' PROVE Carried'
  BY DEF Carried
<1>1. /\ config' = config /\ kind' = kind /\ replay' = replay /\ staged' = staged
      /\ events' = events /\ next' = next /\ data' = data
      /\ TickDue
  BY DEF DeliverTick, Called, run
<1>2. Roomy /\ kind = "stress" /\ replay
  BY <1>1 DEF Roomy, TickDue
<1>3. /\ Fed /\ IsConfig(config) /\ Len(events) \in Nat \ {0} /\ tick \in Nat
      /\ data \in [TokenSet -> MarketFlags] /\ state \in StateType
      /\ CyclesFit(config, state, data) /\ SignalsFit(config, state.cycles, signals)
      /\ next \in 1 .. Len(events) + 1
      /\ \A k \in 1 .. Len(events) : events[k].ts \in Nat
  <2>1. Fed /\ IsConfig(config)
    BY DEF Fits, Fed
  <2> QED
    BY <1>2, <2>1, EndsOfFeed DEF Fits, Clocked
<1>4. Keeps(config, state, signals, data, tick, StressOnClock(config, state, tick))
  BY <1>3, StressClockKeeps
<1>5. state' = StressOnClock(config, state, tick)[1]
  BY <1>2 DEF DeliverTick, Called
<1>6. Forward(state, state', tick) /\ state' \in StateType
  BY <1>4, <1>5 DEF Keeps, CyclesFit
<1>7. /\ DOMAIN state'.cycles = DOMAIN state.cycles
      /\ \A t \in DOMAIN state.cycles :
           /\ state'.cycles[t].stage >= state.cycles[t].stage
           /\ state'.cycles[t].stage = state.cycles[t].stage
                => state'.cycles[t].at = state.cycles[t].at
           /\ state'.cycles[t].at \in {state.cycles[t].at, tick}
           /\ state.cycles[t].stage \in Nat /\ state'.cycles[t].stage \in Nat
  <2>1. \A t \in DOMAIN state.cycles : state.cycles[t] \in Cycle
    BY <1>3, Stateful
  <2>2. \A t \in DOMAIN state'.cycles : state'.cycles[t] \in Cycle
    BY <1>6, Stateful
  <2> QED
    BY <1>6, <2>1, <2>2 DEF Forward, Cycle
<1>8. \A k \in next .. Len(events) : tick <= events[k].ts
  <2> SUFFICES ASSUME NEW k \in next .. Len(events) PROVE tick <= events[k].ts
    OBVIOUS
  <2>1. next \in 1 .. Len(events) /\ k \in 1 .. Len(events) /\ next <= k
    BY <1>3
  <2>2. tick < events[next].ts
    BY <1>1, <1>3, <2>1 DEF TickDue
  <2>3. events[next].ts <= events[k].ts
    BY <1>2, <1>3, <2>1, EndsOfFeed
  <2> QED
    BY <1>3, <2>1, <2>2, <2>3
<1>9. ASSUME NEW t \in DOMAIN state'.cycles
      PROVE  /\ \E k \in 1 .. next - 1 : events[k].token = t
             /\ \A k \in next .. Len(events) :
                  events[k].token = t => state'.cycles[t].at <= events[k].ts
  BY <1>2, <1>7, <1>8 DEF Carried
<1>10. ASSUME NEW k \in 1 .. next - 1
       PROVE  LET t == events[k].token
                  s == events[k].payload.stage IN
              /\ t \in DOMAIN state'.cycles /\ state'.cycles[t].stage >= s + 1
              /\ state'.cycles[t].stage = s + 1 => state'.cycles[t].at <= events[k].ts
  <2> DEFINE t == events[k].token
             s == events[k].payload.stage
  <2>1. k \in 1 .. Len(events)
    BY <1>3
  <2>2. s \in Nat
    <3>1. IsStaged(events, StageCount, config.interval) /\ StageCount \in Nat
      BY <1>2, <1>3, Stages DEF Roomy, Fed
    <3> QED
      BY <2>1, <3>1 DEF IsStaged
  <2>3. /\ t \in DOMAIN state.cycles /\ state.cycles[t].stage >= s + 1
        /\ state.cycles[t].stage = s + 1 => state.cycles[t].at <= events[k].ts
    BY <1>2 DEF Carried
  <2> HIDE DEF t, s
  <2>4. /\ state'.cycles[t].stage >= s + 1
        /\ state'.cycles[t].stage = s + 1 => state'.cycles[t].stage = state.cycles[t].stage
    BY <1>7, <2>2, <2>3
  <2>5. state'.cycles[t].stage = s + 1 => state'.cycles[t].at <= events[k].ts
    BY <1>7, <2>3, <2>4
  <2> QED
    BY <1>7, <2>3, <2>4, <2>5 DEF t, s
<1>11. \A t \in TokenSet : data'[t] = "open"
  BY <1>1, <1>2 DEF Carried
<1> QED
  BY <1>1, <1>9, <1>10, <1>11 DEF Carried

\* Every step of the run carries the cycles along.
LEMMA StepCarried == Carried /\ Fits /\ Clocked /\ [Next]_vars => Carried'
<1> SUFFICES ASSUME Carried, Fits, Clocked, [Next]_vars PROVE Carried'
  OBVIOUS
<1>1. CASE DeliverTick
  BY <1>1, TickCarried
<1>2. ASSUME NEW flag \in MarketFlags, NEW filled \in BOOLEAN, DeliverEvent(flag, filled)
      PROVE  Carried'
  BY <1>2, EventCarried
<1>3. CASE UNCHANGED vars
  BY <1>3 DEF vars, Carried, Roomy
<1> QED
  BY <1>1, <1>2, <1>3 DEF Next

\* Without a stress_profile, a token has one event and its cycle one stage, for
\* the clock has nothing to add: the events all have the same time.
Alone ==
  staged /\ kind = "stress" /\ ~config.profiled =>
    /\ FirstTs(events) < tick
    /\ \A t \in DOMAIN state.cycles : /\ state.cycles[t].stage \in {0, 1}
                                      /\ \E k \in 1 .. next - 1 : events[k].token = t

\* The first tick comes after the first event.
LEMMA InitAlone == Init => Alone
<1> SUFFICES ASSUME Init PROVE Alone
  OBVIOUS
<1>1. Fed
  BY InitFed
<1> DEFINE first == FirstTs(events)
           d == first \div TimeStep
<1>2. TimeStep \in Nat \ {0} /\ first \in Nat
  BY <1>1, EndsOfFeed, StrategyRunAssumption
<1>3. IsQuotient(d, first, TimeStep)
  BY <1>2, Quotient
<1>4. tick = (d + 1) * TimeStep /\ state = FreshState
  BY DEF Init, AlignFirstTick
<1> HIDE DEF d, first
<1>5. first < tick
  BY <1>3, <1>4 DEF IsQuotient
<1>6. DOMAIN state.cycles = {}
  BY <1>4, FreshFits
<1> QED
  BY <1>5, <1>6 DEF Alone, first

\* A cycle has begun at most, and no other has moved.
Begins(st, t, later) ==
  /\ DOMAIN later.cycles = DOMAIN st.cycles \cup {t}
  /\ later.cycles[t].stage \in {0, 1}
  /\ \A u \in DOMAIN st.cycles : later.cycles[u].stage = st.cycles[u].stage

\* The first event of a token starts its cycle at most, and moves no other.
LEMMA FirstEvent ==
  ASSUME NEW c, IsConfig(c), NEW st, NEW seen \in [TokenSet -> MarketFlags],
         CyclesFit(c, st, seen), NEW list, SignalsFit(c, st.cycles, list),
         NEW t \in TokenSet, NEW ts \in Nat, NEW d \in MarketFlags,
         t \notin DOMAIN st.cycles
  PROVE  Begins(st, t, StressOnEvent(c, st, t, ts, d)[1])
<1> DEFINE k == Knowing(st, t, d)
           seen2 == [seen EXCEPT ![t] = d]
           later == StressOnEvent(c, st, t, ts, d)[1]
<1>1. IsKnown(c, st, k, list, seen2, t, d)
  BY KnowingKeeps
<1>2. EventKeeps(c, st, list, seen2, t, ts, StressOnEvent(c, st, t, ts, d))
  BY StressEventKeeps
<1>3. later = AdvanceIfDue(c, k, t, ts)[1]
  BY DEF StressOnEvent
<1> HIDE DEF k, seen2, later
<1>4. /\ CyclesFit(c, k, seen2) /\ DOMAIN k.cycles = DOMAIN st.cycles \cup {t}
      /\ k.cycles[t].stage = 0
      /\ \A u \in DOMAIN st.cycles : k.cycles[u].stage = st.cycles[u].stage
  BY <1>1 DEF IsKnown
<1>5. Moves(c, k, t, ts, later)
  BY <1>3, <1>4, AdvanceMoves
<1>6. DOMAIN later.cycles = DOMAIN st.cycles \cup {t}
  BY <1>2 DEF EventKeeps, later
<1>7. later.cycles[t].stage \in {0, 1}
  BY <1>4, <1>5 DEF Moves
<1>8. ASSUME NEW u \in DOMAIN st.cycles
      PROVE  later.cycles[u].stage = st.cycles[u].stage
  BY <1>4, <1>5 DEF Moves
<1> QED
  BY <1>6, <1>7, <1>8 DEF Begins, later

\* No tick is due, and each event is the first of its token.
LEMMA StepAlone == Alone /\ Fits /\ Clocked /\ [Next]_vars => Alone'
<1> SUFFICES ASSUME Alone, Fits, Clocked, [Next]_vars, staged', kind' = "stress",
                    ~config'.profiled
             PROVE  Alone'
  BY DEF Alone
<1>1. /\ config' = config /\ kind' = kind /\ replay' = replay /\ staged' = staged
      /\ events' = events
  BY DEF Next, DeliverTick, DeliverEvent, vars, run
<1>2. /\ Fed /\ IsConfig(config) /\ Len(events) \in Nat \ {0} /\ tick \in Nat
      /\ data \in [TokenSet -> MarketFlags] /\ state \in StateType
      /\ CyclesFit(config, state, data) /\ SignalsFit(config, state.cycles, signals)
      /\ next \in 1 .. Len(events) + 1
      /\ \A k \in 1 .. Len(events) : /\ events[k].ts \in Nat
                                      /\ events[k].token \in TokenSet
  <2>1. Fed /\ IsConfig(config)
    BY DEF Fits, Fed
  <2> QED
    BY <1>1, <2>1, EndsOfFeed DEF Fits, Clocked
<1>3. AtOnce(events)
  <2>1. IsStaged(events, StageCount, config.interval) /\ StageCount = 1
    BY <1>1, <1>2, Stages DEF Fed
  <2> QED
    BY <2>1 DEF IsStaged
<1>4. /\ FirstTs(events) < tick
      /\ \A t \in DOMAIN state.cycles : /\ state.cycles[t].stage \in {0, 1}
                                        /\ \E k \in 1 .. next - 1 : events[k].token = t
  BY <1>1 DEF Alone
<1>5. ~TickDue
  <2>1. \A k \in 1 .. Len(events) : events[k].ts = FirstTs(events)
    BY <1>2, <1>3 DEF AtOnce, FirstTs
  <2>2. FirstTs(events) \in Nat /\ Len(events) \in 1 .. Len(events)
    BY <1>2, <2>1
  <2>3. ~(tick <= FirstTs(events)) /\ ~(tick < FirstTs(events))
    BY <1>2, <1>4, <2>2
  <2>4. next <= Len(events) => next \in 1 .. Len(events)
    BY <1>2
  <2> QED
    BY <2>1, <2>2, <2>3, <2>4 DEF TickDue, LastTs
<1>6. CASE DeliverTick
  BY <1>5, <1>6 DEF DeliverTick
<1>7. ASSUME NEW flag \in MarketFlags, NEW filled \in BOOLEAN, DeliverEvent(flag, filled)
      PROVE  Alone'
  <2> DEFINE t == events[next].token
             ts == events[next].ts
  <2>1. /\ next <= Len(events) /\ next' = next + 1 /\ tick' = tick
        /\ state' = StressOnEvent(config, state, t, ts, flag)[1]
    BY <1>1, <1>7 DEF DeliverEvent, Called, OnEvent
  <2>2. next \in 1 .. Len(events) /\ t \in TokenSet /\ ts \in Nat
    BY <1>2, <2>1
  <2>3. t \notin DOMAIN state.cycles
    <3> SUFFICES ASSUME t \in DOMAIN state.cycles PROVE FALSE
      OBVIOUS
    <3>1. PICK k \in 1 .. next - 1 : events[k].token = events[next].token
      BY <1>4
    <3>2. k \in 1 .. Len(events) /\ k # next
      BY <1>2, <2>2
    <3> QED
      BY <1>3, <2>2, <3>1, <3>2 DEF AtOnce
  <2> HIDE DEF t, ts
  <2>4. /\ DOMAIN state'.cycles = DOMAIN state.cycles \cup {t}
        /\ state'.cycles[t].stage \in {0, 1}
        /\ \A u \in DOMAIN state.cycles : state'.cycles[u].stage = state.cycles[u].stage
    <3>1. Begins(state, t, StressOnEvent(config, state, t, ts, flag)[1])
      BY <1>2, <1>7, <2>2, <2>3, FirstEvent
    <3> QED
      BY <2>1, <3>1 DEF Begins
  <2>5. ASSUME NEW u \in DOMAIN state'.cycles
        PROVE  /\ state'.cycles[u].stage \in {0, 1}
               /\ \E k \in 1 .. next' - 1 : events'[k].token = u
    <3>1. next' - 1 = next /\ 1 .. next - 1 \subseteq 1 .. next /\ next \in 1 .. next
      BY <1>2, <2>1
    <3>2. CASE u = t
      BY <1>1, <2>4, <3>1, <3>2 DEF t
    <3>3. CASE u # t
      <4>1. u \in DOMAIN state.cycles
        BY <2>4, <2>5, <3>3
      <4>2. PICK k \in 1 .. next - 1 : events[k].token = u
        BY <1>4, <4>1
      <4>3. k \in 1 .. next' - 1 /\ events'[k].token = u
        BY <1>1, <3>1, <4>2
      <4> QED
        BY <1>4, <2>4, <4>1, <4>3
    <3> QED
      BY <3>2, <3>3
  <2> QED
    BY <1>1, <1>4, <2>1, <2>5 DEF Alone, FirstTs
<1>8. CASE UNCHANGED vars
  BY <1>8 DEF vars, Alone
<1> QED
  BY <1>6, <1>7, <1>8 DEF Next

\* CyclesComplete holds in every run of the strategies: the signals of a token
\* are its targets in order, and where there is room for the tokens the staged
\* events carry every cycle to the signal of its exit, or without a
\* stress_profile to that of its entry and no further.
THEOREM CyclesAlwaysComplete == Spec => []CyclesComplete
<1>1. ASSUME Fits, Carried, Alone PROVE CyclesComplete
  <2> SUFFICES ASSUME kind = "stress" PROVE CyclesComplete
    BY DEF CyclesComplete
  <2>1. /\ Fed /\ IsConfig(config) /\ CyclesFit(config, state, data)
        /\ SignalsFit(config, state.cycles, signals) /\ state \in StateType
    BY <1>1 DEF Fits, Fed
  <2>2. ASSUME NEW i \in DOMAIN signals
        PROVE  /\ Place(i) <= Len(config.targets)
               /\ signals[i].signal.target = config.targets[Place(i)]
    <3>1. i \in 1 .. Len(signals)
      BY <2>1 DEF SignalsFit
    <3>2. Place(i) = PlaceIn(signals, i)
      BY DEF Place, PlaceIn, SignalsOf, OfToken
    <3>3. /\ PlaceIn(signals, i) \in 1 .. Len(config.targets)
          /\ signals[i].signal.target = config.targets[PlaceIn(signals, i)]
      BY <2>1, <3>1 DEF SignalsFit
    <3>4. PlaceIn(signals, i) <= Len(config.targets)
      BY <3>3
    <3> QED
      BY <3>2, <3>3, <3>4
  <2>3. ASSUME Roomy, Done, NEW t \in TokenSet
        PROVE  Cardinality(SignalsOf(t)) =
                 IF config.profiled THEN Len(config.targets) ELSE 1
    <3>1. /\ IsStaged(events, StageCount, config.interval)
          /\ StageCount \in Nat /\ Len(config.targets) \in Nat
          /\ config.profiled => StageCount = Len(config.targets)
          /\ ~config.profiled => StageCount = 1
      BY <2>1, <2>3, Stages DEF Roomy, Fed
    <3>2. PICK k \in 1 .. Len(events) :
            events[k].token = t /\ events[k].payload.stage = StageCount - 1
      BY <3>1 DEF IsStaged
    <3>3. k \in 1 .. next - 1
      <4>1. next > Len(events) /\ next \in 1 .. Len(events) + 1 /\ Len(events) \in Nat
        BY <1>1, <2>1, <2>3, EndsOfFeed DEF Done, Fits
      <4> QED
        BY <4>1
    <3>4. t \in DOMAIN state.cycles /\ state.cycles[t].stage >= (StageCount - 1) + 1
      BY <1>1, <2>3, <3>2, <3>3 DEF Carried
    <3>5. CycleFits(config, state.cycles[t]) /\ state.cycles[t] \in Cycle
      BY <2>1, <3>4, Stateful DEF CyclesFit
    <3>6. state.cycles[t].stage = IF config.profiled THEN Len(config.targets) ELSE 1
      <4>1. CASE config.profiled
        BY <3>1, <3>4, <3>5, <4>1 DEF CycleFits, Cycle
      <4>2. CASE ~config.profiled
        <5>1. state.cycles[t].stage \in {0, 1} /\ state.cycles[t].stage >= 1
          BY <1>1, <2>3, <3>1, <3>4, <4>2 DEF Alone, Roomy
        <5> QED
          BY <4>2, <5>1
      <4> QED
        BY <4>1, <4>2
    <3>7. Cardinality(OfToken(signals, t)) = StageIn(state.cycles, t)
      BY <2>1 DEF SignalsFit
    <3>8. SignalsOf(t) = OfToken(signals, t)
      BY DEF SignalsOf, OfToken
    <3> QED
      BY <3>4, <3>6, <3>7, <3>8 DEF StageIn
  <2> HIDE DEF Done
  <2> QED
    BY <2>2, <2>3 DEF CyclesComplete, Roomy
<1>2. Init => Carried /\ Alone
  BY InitCarried, InitAlone
<1>3. Carried /\ Alone /\ Fits /\ Clocked /\ [Next]_vars => (Carried /\ Alone)'
  BY StepCarried, StepAlone
<1>4. Spec => [](Fits /\ Clocked)
  BY AlwaysFits
<1> QED
  BY <1>1, <1>2, <1>3, <1>4, PTL DEF Spec

=============================================================================
