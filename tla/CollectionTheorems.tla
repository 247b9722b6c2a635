--------------------------- MODULE CollectionTheorems ---------------------------
(***************************************************************************)
(* Facts about sums over finite sets (SumFunctionOnSet) and about          *)
(* SortedPlaces, for sets of any size.                                     *)
(*                                                                         *)
(* Both are defined by recursion over a set.  Induction is proved here for *)
(* a set of numbers or of sets, P \in SUBSET, so no operator is a          *)
(* parameter; the recursion of a sum is unfolded from the definition, by   *)
(* showing that a function with the recursive equation exists and that two *)
(* such functions agree.                                                   *)
(***************************************************************************)
EXTENDS Sorting, Functions, FiniteSetTheorems, TLAPS

\* A set of naturals that is not empty has a least element.
LEMMA NatMin ==
  ASSUME NEW T, T \subseteq Nat, T # {}
  PROVE  \E n \in T : \A m \in T : n <= m
<1> DEFINE R == {ss \in Nat \X Nat : ss[1] < ss[2]}
<1>1. IsWellFoundedOn(R, Nat)
  BY NatLessThanWellFounded DEF OpToRel
<1> HIDE DEF R
<1>2. PICK n \in T : \A m \in T : ~(<<m, n>> \in R)
  BY <1>1, WFMin
<1>3. \A m \in T : ~(m < n)
  BY <1>2 DEF R
<1> QED
  BY <1>3

\* Induction over the naturals, for a set instead of an operator.
LEMMA NatSetInduction ==
  ASSUME NEW S, 0 \in S, \A n \in Nat : n \in S => n+1 \in S
  PROVE  Nat \subseteq S
<1> SUFFICES ASSUME Nat \ S # {} PROVE FALSE
  OBVIOUS
<1>1. PICK n \in Nat \ S : \A m \in Nat \ S : n <= m
  BY NatMin
<1>2. n # 0 /\ n-1 \in Nat
  BY <1>1
<1>3. n-1 \in S
  BY <1>1,<1>2
<1> QED BY <1>1, <1>2, <1>3

\* A finite set without one of its elements has one element less.
LEMMA OneLess ==
  ASSUME NEW S, IsFiniteSet(S), NEW x \in S
  PROVE  /\ IsFiniteSet(S \ {x})
         /\ Cardinality(S) \in Nat \ {0}
         /\ Cardinality(S \ {x}) = Cardinality(S) - 1
<1>1. IsFiniteSet(S \ {x}) /\ Cardinality(S \ {x}) = Cardinality(S) - 1
  BY FS_RemoveElement
<1>2. Cardinality(S) \in Nat /\ Cardinality(S \ {x}) \in Nat
  BY <1>1, FS_CardinalityType
<1> QED BY <1>1, <1>2

\* The first n indices.
LEMMA UptoIsFinite ==
  ASSUME NEW n \in Nat
  PROVE  IsFiniteSet(1 .. n) /\ Cardinality(1 .. n) = n
<1>1. 1 \in Int /\ n \in Int /\ (IF 1 > n THEN 0 ELSE n - 1 + 1) = n
  OBVIOUS
<1> QED BY <1>1, FS_Interval

\* Induction over the subsets of a finite set, for a set of sets.
LEMMA FinSetInduction ==
  ASSUME NEW S, IsFiniteSet(S), NEW P, {} \in P,
         \A T \in SUBSET S, x \in S : T \in P /\ x \notin T => T \cup {x} \in P
  PROVE  S \in P
<1> DEFINE N == {n \in Nat : \A T \in SUBSET S : Cardinality(T) = n => T \in P}
<1>1. 0 \in N
  BY FS_EmptySet, FS_Subset
<1>2. \A n \in Nat : n \in N => n+1 \in N
  <2> SUFFICES ASSUME NEW n \in Nat, n \in N, NEW T \in SUBSET S, Cardinality(T) = n + 1
               PROVE  T \in P
    OBVIOUS
  <2>1. IsFiniteSet(T) /\ T # {}
    BY FS_Subset, FS_EmptySet
  <2>2. PICK x \in T : TRUE
    BY <2>1
  <2>3. Cardinality(T \ {x}) = n
    BY <2>1, <2>2, OneLess
  <2>4. T \ {x} \in P
    BY <2>3
  <2>5. T = (T \ {x}) \cup {x}
    BY <2>2
  <2> QED BY <2>2, <2>4, <2>5
<1> HIDE DEF N
<1>3. Cardinality(S) \in N
  BY <1>1, <1>2, NatSetInduction, FS_CardinalityType
<1> QED BY <1>3 DEF N

-----------------------------------------------------------------------------
\* The element SumFunctionOnSet takes first.
Pick(s) == CHOOSE x \in s : TRUE

\* g sums f over the subsets of S, one element at a time.
Sums(g, f, S) ==
  g = [s \in SUBSET S |-> IF s = {} THEN 0 ELSE f[Pick(s)] + g[s \ {Pick(s)}]]

\* There is a function that sums f over every subset of a finite set.
LEMMA SumsExist ==
  ASSUME NEW S, IsFiniteSet(S), NEW f, \A x \in S : f[x] \in Int
  PROVE  \E g \in [SUBSET S -> Int] : Sums(g, f, S)
<1> DEFINE Upto(n) == {s \in SUBSET S : Cardinality(s) <= n}
           Fits(g, n) == \A s \in Upto(n) : g[s] = IF s = {} THEN 0 ELSE f[Pick(s)] + g[s \ {Pick(s)}]
           N == {n \in Nat : \E g \in [Upto(n) -> Int] : Fits(g, n)}
<1>0. \A s \in SUBSET S : IsFiniteSet(s) /\ Cardinality(s) \in Nat /\ (s # {} => Pick(s) \in s)
  BY FS_Subset, FS_CardinalityType DEF Pick
<1>1. 0 \in N
  <2>1. Upto(0) = {{}}
    BY <1>0, FS_EmptySet
  <2> DEFINE g == [s \in Upto(0) |-> 0]
  <2>2. g \in [Upto(0) -> Int] /\ Fits(g, 0)
    BY <2>1
  <2> QED BY <2>2
<1>2. \A n \in Nat : n \in N => n+1 \in N
  <2> SUFFICES ASSUME NEW n \in Nat, NEW g \in [Upto(n) -> Int], Fits(g, n)
               PROVE  n + 1 \in N
    OBVIOUS
  <2> DEFINE h == [s \in Upto(n + 1) |-> IF s \in Upto(n) THEN g[s] ELSE f[Pick(s)] + g[s \ {Pick(s)}]]
  <2>1. \A s \in Upto(n + 1) : s # {} => s \ {Pick(s)} \in Upto(n) /\ Pick(s) \in S
    <3> SUFFICES ASSUME NEW s \in Upto(n+1), s # {} PROVE s \ {Pick(s)} \in Upto(n) /\ Pick(s) \in S
      OBVIOUS
    <3>1. Pick(s) \in s
      BY <1>0
    <3> QED BY <3>1, <1>0, FS_RemoveElement
  <2>2. {} \in Upto(n)
    BY FS_EmptySet
  <2>3. \A s \in Upto(n) : s \in Upto(n+1)
    BY <1>0
  <2>4. h \in [Upto(n+1) -> Int]
    <3> SUFFICES ASSUME NEW s \in Upto(n+1) PROVE h[s] \in Int
      OBVIOUS
    <3>1. CASE s \in Upto(n)
      BY <3>1
    <3>2. CASE s \notin Upto(n)
      <4>1. s # {}
        BY <3>2, <2>2
      <4>2. f[Pick(s)] \in Int /\ g[s \ {Pick(s)}] \in Int
        BY <2>1, <4>1
      <4> QED BY <3>2, <4>2
    <3> QED BY <3>1, <3>2
  <2>5. Fits(h, n + 1)
    <3> SUFFICES ASSUME NEW s \in Upto(n+1) 
                 PROVE h[s] = IF s = {} THEN 0 ELSE f[Pick(s)] + h[s \ {Pick(s)}]
      OBVIOUS
    <3>1. CASE s = {}
      BY <2>2, <2>3, <3>1
    <3>2. CASE s # {}
      <4>1. h[s \ {Pick(s)}] = g[s \ {Pick(s)}]
        BY <2>1, <2>3, <3>2
      <4>2. h[s] = f[Pick(s)] + g[s \ {Pick(s)}]
        BY <2>3, <3>2
      <4> QED BY <4>1, <4>2, <3>2
    <3> QED BY <3>1, <3>2
  <2> HIDE DEF h, Upto, Fits
  <2> QED BY <2>4, <2>5
<1> HIDE DEF N
<1>3. Cardinality(S) \in N
  BY <1>0, <1>1, <1>2, NatSetInduction
<1>4. Upto(Cardinality(S)) = SUBSET S
  BY <1>0, FS_Subset
<1>5. PICK g \in [SUBSET S -> Int] : Fits(g, Cardinality(S))
  BY <1>3, <1>4 DEF N
<1> QED BY <1>4, <1>5 DEF Sums

\* SumFunctionOnSet computes the value of such a function.
LEMMA SumFunctionIs ==
  ASSUME NEW S, IsFiniteSet(S), NEW f, \A x \in S : f[x] \in Int
  PROVE  \E g : Sums(g, f, S) /\ SumFunctionOnSet(f, S) = g[S]
<1> DEFINE g == CHOOSE g : Sums(g, f, S)
<1>1. Sums(g, f, S)
  BY SumsExist
<1>2. SumFunctionOnSet(f, S) = g[S]
  BY DEF SumFunctionOnSet, FoldFunctionOnSet, MapThenFoldSet, Sums, Pick
<1> QED BY <1>1, <1>2

\* Two recursions over the same values agree wherever both are defined.
LEMMA SumsAgree ==
  ASSUME NEW S, IsFiniteSet(S), NEW T, IsFiniteSet(T), NEW f, NEW g, NEW h,
         Sums(g, f, S), Sums(h, f, T), NEW s \in SUBSET (S \cap T)
  PROVE  g[s] = h[s]
<1> DEFINE N == {n \in Nat : \A u \in SUBSET (S \cap T) : Cardinality(u) = n => g[u] = h[u]}
<1>1. 0 \in N
  <2> SUFFICES ASSUME NEW u \in SUBSET (S \cap T), Cardinality(u) = 0 PROVE g[u] = h[u]
    OBVIOUS
  <2>1. u = {}
    BY FS_EmptySet, FS_Subset
  <2> QED BY <2>1 DEF Sums
<1>2. \A n \in Nat : n \in N => n + 1 \in N
  <2> SUFFICES ASSUME NEW n \in Nat, n \in N, NEW u \in SUBSET (S \cap T), Cardinality(u) = n + 1
               PROVE  g[u] = h[u]
    OBVIOUS
  <2>1. IsFiniteSet(u) /\ u # {}
    BY FS_Subset, FS_EmptySet
  <2>2. Pick(u) \in u
    BY <2>1 DEF Pick
  <2>3. Cardinality(u \ {Pick(u)}) = n
    BY <2>1, <2>2, OneLess
  <2>4. g[u \ {Pick(u)}] = h[u \ {Pick(u)}]
    BY <2>3
  <2>5. u \in SUBSET S /\ u \in SUBSET T
    OBVIOUS
  <2>6. g[u] = f[Pick(u)] + g[u \ {Pick(u)}]
    BY <2>1, <2>5 DEF Sums
  <2>7. h[u] = f[Pick(u)] + h[u \ {Pick(u)}]
    BY <2>1, <2>5 DEF Sums
  <2> QED BY <2>4, <2>6, <2>7
<1> HIDE DEF N
<1>3. IsFiniteSet(s)
  BY FS_Subset
<1>4. Cardinality(s) \in N
  BY <1>1, <1>2, <1>3, NatSetInduction, FS_CardinalityType
<1> QED BY <1>4 DEF N

\* A sum over a subset is the value of the same recursion there.
LEMMA SumOfSubset ==
  ASSUME NEW S, IsFiniteSet(S), NEW f, \A x \in S : f[x] \in Int, NEW g, Sums(g, f, S),
         NEW T \in SUBSET S
  PROVE  SumFunctionOnSet(f, T) = g[T]
<1>1. IsFiniteSet(T)
  BY FS_Subset
<1>2. PICK h : Sums(h, f, T) /\ SumFunctionOnSet(f, T) = h[T]
  BY <1>1, SumFunctionIs
<1> QED BY <1>1, <1>2, SumsAgree

\* Nothing sums up to 0.
LEMMA SumEmpty ==
  ASSUME NEW f
  PROVE  SumFunctionOnSet(f, {}) = 0
<1>1. PICK g : Sums(g, f, {}) /\ SumFunctionOnSet(f, {}) = g[{}]
  BY SumFunctionIs, FS_EmptySet
<1> QED BY <1>1 DEF Sums

\* A sum is the term of the element picked first and the sum of the rest.
LEMMA SumStep ==
  ASSUME NEW S, IsFiniteSet(S), S # {}, NEW f, \A x \in S : f[x] \in Int
  PROVE  SumFunctionOnSet(f, S) = f[Pick(S)] + SumFunctionOnSet(f, S \ {Pick(S)})
<1>1. PICK g : Sums(g, f, S)
  BY SumsExist
<1>2. SumFunctionOnSet(f, S) = g[S] /\ SumFunctionOnSet(f, S \ {Pick(S)}) = g[S \ {Pick(S)}]
  BY <1>1, SumOfSubset
<1> QED BY <1>1, <1>2 DEF Sums

\* A sum of integers is an integer.
LEMMA SumType ==
  ASSUME NEW S, IsFiniteSet(S), NEW f, \A x \in S : f[x] \in Int
  PROVE  SumFunctionOnSet(f, S) \in Int
<1>1. PICK g \in [SUBSET S -> Int] : Sums(g, f, S)
  BY SumsExist
<1> QED BY <1>1, SumOfSubset

\* The order of summation does not matter: any element may go first.
LEMMA SumRemove ==
  ASSUME NEW S, IsFiniteSet(S), NEW f, \A x \in S : f[x] \in Int, NEW x \in S
  PROVE  SumFunctionOnSet(f, S) = f[x] + SumFunctionOnSet(f, S \ {x})
<1> DEFINE Sum(T) == SumFunctionOnSet(f, T)
           N == {n \in Nat : \A T \in SUBSET S : Cardinality(T) = n =>
                               \A y \in T : Sum(T) = f[y] + Sum(T \ {y})}
<1>1. 0 \in N
  BY FS_EmptySet, FS_Subset
<1>2. ASSUME NEW n \in Nat, n \in N, NEW T \in SUBSET S, Cardinality(T) = n + 1,
             NEW y \in T
      PROVE  Sum(T) = f[y] + Sum(T \ {y})
  <2> DEFINE p == Pick(T)
  <2>1. IsFiniteSet(T) /\ p \in T
    BY FS_Subset DEF Pick
  <2>2. Sum(T) = f[p] + Sum(T \ {p})
    BY <2>1, SumStep
  <2>3. CASE p = y
    BY <2>2, <2>3
  <2>4. CASE p # y
    <3>1. Cardinality(T \ {p}) = n /\ Cardinality(T \ {y}) = n
      BY <1>2, <2>1, OneLess
    <3>2. /\ Sum(T \ {p}) = f[y] + Sum((T \ {p}) \ {y})
          /\ Sum(T \ {y}) = f[p] + Sum((T \ {y}) \ {p})
      <4>1. T \ {p} \in SUBSET S /\ T \ {y} \in SUBSET S /\ y \in T \ {p} /\ p \in T \ {y}
        BY <2>1, <2>4
      <4> HIDE DEF p, Sum
      <4> QED BY <1>2, <3>1, <4>1
    <3>3. (T \ {p}) \ {y} = (T \ {y}) \ {p}
      OBVIOUS
    <3>4. IsFiniteSet((T \ {p}) \ {y}) /\ (T \ {p}) \ {y} \subseteq S
      BY FS_Subset
    <3>5. Sum((T \ {p}) \ {y}) \in Int
      BY <3>4, SumType
    <3>6. f[p] \in Int /\ f[y] \in Int
      BY <2>1
    <3> DEFINE U == (T \ {p}) \ {y}
               V == T \ {p}
               W == T \ {y}
    <3>7. /\ Sum(V) = f[y] + Sum(U) /\ Sum(W) = f[p] + Sum(U) /\ Sum(U) \in Int
          /\ Sum(T) = f[p] + Sum(V)
      BY <2>2, <3>2, <3>3, <3>5
    <3> HIDE DEF p, Sum, U, V, W
    <3>8. Sum(T) = f[y] + Sum(W)
      BY <3>6, <3>7
    <3> QED BY <3>8 DEF W
  <2> QED BY <2>3, <2>4
<1>3. \A n \in Nat : n \in N => n + 1 \in N
  <2> HIDE DEF Sum
  <2> QED BY <1>2
<1> HIDE DEF N
<1>4. Cardinality(S) \in N
  BY <1>1, <1>3, NatSetInduction, FS_CardinalityType
<1> QED BY <1>4 DEF N

\* The sum with one more element, whichever element is picked first.
LEMMA SumAdd ==
  ASSUME NEW S, IsFiniteSet(S), NEW f, NEW x, x \notin S, f[x] \in Int,
         \A y \in S : f[y] \in Int
  PROVE  SumFunctionOnSet(f, S \cup {x}) = f[x] + SumFunctionOnSet(f, S)
<1>1. IsFiniteSet(S \cup {x}) /\ (S \cup {x}) \ {x} = S
  BY FS_AddElement
<1>2. \A y \in S \cup {x} : f[y] \in Int
  OBVIOUS
<1>3. x \in S \cup {x}
  OBVIOUS
<1> QED BY <1>1, <1>2, <1>3, SumRemove

\* Equal values have equal sums.
LEMMA SumEqual ==
  ASSUME NEW S, IsFiniteSet(S), NEW f, NEW g, \A x \in S : f[x] \in Int /\ f[x] = g[x]
  PROVE  SumFunctionOnSet(f, S) = SumFunctionOnSet(g, S)
<1> DEFINE P == {T \in SUBSET S : SumFunctionOnSet(f, T) = SumFunctionOnSet(g, T)}
<1>1. {} \in P
  BY SumEmpty
<1>2. ASSUME NEW T \in SUBSET S, NEW x \in S, T \in P, x \notin T
      PROVE  T \cup {x} \in P
  <2>1. IsFiniteSet(T)
    BY FS_Subset
  <2>2. SumFunctionOnSet(f, T \cup {x}) = f[x] + SumFunctionOnSet(f, T)
    BY <1>2, <2>1, SumAdd
  <2>3. SumFunctionOnSet(g, T \cup {x}) = g[x] + SumFunctionOnSet(g, T)
    BY <1>2, <2>1, SumAdd
  <2> QED BY <1>2, <2>2, <2>3
<1> HIDE DEF P
<1>3. S \in P
  BY <1>1, <1>2, FinSetInduction
<1> QED BY <1>3 DEF P

\* A sum of combined values is the combination of the sums.
LEMMA SumCombine ==
  ASSUME NEW S, IsFiniteSet(S), NEW c \in Int, NEW f, NEW g, NEW h,
         \A x \in S : f[x] \in Int /\ g[x] \in Int /\ h[x] = f[x] + c * g[x]
  PROVE  SumFunctionOnSet(h, S) = SumFunctionOnSet(f, S) + c * SumFunctionOnSet(g, S)
<1> DEFINE P == {T \in SUBSET S : SumFunctionOnSet(h, T)
                                    = SumFunctionOnSet(f, T) + c * SumFunctionOnSet(g, T)}
<1>0. \A x \in S : h[x] \in Int
  OBVIOUS
<1>1. {} \in P
  BY SumEmpty
<1>2. ASSUME NEW T \in SUBSET S, NEW x \in S, T \in P, x \notin T
      PROVE  T \cup {x} \in P
  <2> DEFINE F == SumFunctionOnSet(f, T)
             G == SumFunctionOnSet(g, T)
  <2>1. IsFiniteSet(T)
    BY FS_Subset
  <2>2. /\ SumFunctionOnSet(f, T \cup {x}) = f[x] + F
        /\ SumFunctionOnSet(g, T \cup {x}) = g[x] + G
        /\ SumFunctionOnSet(h, T \cup {x}) = h[x] + SumFunctionOnSet(h, T)
    BY <1>0, <1>2, <2>1, SumAdd
  <2>3. F \in Int /\ G \in Int
    BY <2>1, SumType
  <2>4. SumFunctionOnSet(h, T) = F + c * G
    BY <1>2
  <2> HIDE DEF F, G
  <2>5. f[x] + c * g[x] + (F + c * G) = (f[x] + F) + c * (g[x] + G)
    BY <2>3
  <2> QED BY <2>2, <2>4, <2>5
<1> HIDE DEF P
<1>3. S \in P
  BY <1>1, <1>2, FinSetInduction
<1> QED BY <1>3 DEF P

\* The sum of values that are not negative is not negative.
LEMMA SumPositive ==
  ASSUME NEW S, IsFiniteSet(S), NEW f, \A x \in S : f[x] \in Nat
  PROVE  SumFunctionOnSet(f, S) \in Nat
<1> DEFINE P == {T \in SUBSET S : SumFunctionOnSet(f, T) \in Nat}
<1>1. {} \in P
  BY SumEmpty
<1>2. ASSUME NEW T \in SUBSET S, NEW x \in S, T \in P, x \notin T
      PROVE  T \cup {x} \in P
  <2>1. IsFiniteSet(T) /\ f[x] \in Int /\ \A y \in T : f[y] \in Int
    BY FS_Subset
  <2>2. SumFunctionOnSet(f, T \cup {x}) = f[x] + SumFunctionOnSet(f, T)
    BY <1>2, <2>1, SumAdd
  <2> QED BY <1>2, <2>2
<1> HIDE DEF P
<1>3. S \in P
  BY <1>1, <1>2, FinSetInduction
<1> QED BY <1>3 DEF P

\* Nothing adds up to nothing.
LEMMA SumOfZeros ==
  ASSUME NEW S, IsFiniteSet(S), NEW f, \A x \in S : f[x] = 0
  PROVE  SumFunctionOnSet(f, S) = 0
<1> DEFINE P == {T \in SUBSET S : SumFunctionOnSet(f, T) = 0}
<1>1. {} \in P
  BY SumEmpty
<1>2. ASSUME NEW T \in SUBSET S, NEW x \in S, T \in P, x \notin T
      PROVE  T \cup {x} \in P
  <2>1. IsFiniteSet(T) /\ f[x] \in Int /\ \A y \in T : f[y] \in Int
    BY FS_Subset
  <2>2. SumFunctionOnSet(f, T \cup {x}) = f[x] + SumFunctionOnSet(f, T)
    BY <1>2, <2>1, SumAdd
  <2> QED BY <1>2, <2>2
<1> HIDE DEF P
<1>3. S \in P
  BY <1>1, <1>2, FinSetInduction
<1> QED BY <1>3 DEF P

\* A common factor.
LEMMA SumScaled ==
  ASSUME NEW S, IsFiniteSet(S), NEW c \in Int, NEW f, NEW h,
         \A x \in S : f[x] \in Int /\ h[x] = c * f[x]
  PROVE  SumFunctionOnSet(h, S) = c * SumFunctionOnSet(f, S)
<1> DEFINE zero == [x \in S |-> 0]
<1>1. \A x \in S : zero[x] \in Int /\ zero[x] = 0 /\ h[x] = zero[x] + c * f[x]
  OBVIOUS
<1> HIDE DEF zero
<1>2. SumFunctionOnSet(h, S) = SumFunctionOnSet(zero, S) + c * SumFunctionOnSet(f, S)
  BY <1>1, SumCombine
<1>3. SumFunctionOnSet(zero, S) = 0
  BY <1>1, SumOfZeros
<1>4. SumFunctionOnSet(f, S) \in Int
  BY SumType
<1> DEFINE F == SumFunctionOnSet(f, S)
<1> HIDE DEF F
<1>5. F \in Int /\ SumFunctionOnSet(h, S) = 0 + c * F
  BY <1>2, <1>3, <1>4 DEF F
<1>6. 0 + c * F = c * F
  BY <1>5
<1> QED BY <1>5, <1>6 DEF F

\* The sum of two values.
LEMMA SumPlus ==
  ASSUME NEW S, IsFiniteSet(S), NEW f, NEW g, NEW h,
         \A x \in S : f[x] \in Int /\ g[x] \in Int /\ h[x] = f[x] + g[x]
  PROVE  SumFunctionOnSet(h, S) = SumFunctionOnSet(f, S) + SumFunctionOnSet(g, S)
<1> DEFINE one == 1
<1>1. one \in Int /\ \A y \in Int : one * y = y
  OBVIOUS
<1>2. SumFunctionOnSet(g, S) \in Int
  BY SumType
<1> HIDE DEF one
<1>3. \A x \in S : f[x] \in Int /\ g[x] \in Int /\ h[x] = f[x] + one * g[x]
  BY <1>1
<1>4. one \in Int
  BY <1>1
<1>5. SumFunctionOnSet(h, S) = SumFunctionOnSet(f, S) + one * SumFunctionOnSet(g, S)
  BY <1>3, <1>4, SumCombine
<1> QED BY <1>1, <1>2, <1>5

\* Quantities that are not negative and add up to nothing are all zero.
LEMMA SumZero ==
  ASSUME NEW S, IsFiniteSet(S), NEW f, \A x \in S : f[x] \in Nat,
         SumFunctionOnSet(f, S) = 0, NEW x \in S
  PROVE  f[x] = 0
<1>1. \A y \in S : f[y] \in Int
  OBVIOUS
<1>2. SumFunctionOnSet(f, S) = f[x] + SumFunctionOnSet(f, S \ {x})
  BY <1>1, SumRemove
<1>3. IsFiniteSet(S \ {x})
  BY FS_Subset
<1>4. SumFunctionOnSet(f, S \ {x}) \in Nat
  BY <1>3, SumPositive
<1> QED BY <1>2, <1>4

\* Smaller values have a smaller sum.
LEMMA SumMonotone ==
  ASSUME NEW S, IsFiniteSet(S), NEW f, NEW g,
         \A x \in S : f[x] \in Int /\ g[x] \in Int /\ f[x] <= g[x]
  PROVE  SumFunctionOnSet(f, S) <= SumFunctionOnSet(g, S)
<1> DEFINE h == [x \in S |-> g[x] + (-1) * f[x]]
<1>1. \A x \in S : h[x] \in Nat /\ h[x] = g[x] + (-1) * f[x]
  OBVIOUS
<1> HIDE DEF h
<1>2. SumFunctionOnSet(h, S) \in Nat
  BY <1>1, SumPositive
<1>3. SumFunctionOnSet(h, S) = SumFunctionOnSet(g, S) + (-1) * SumFunctionOnSet(f, S)
  BY <1>1, SumCombine
<1>4. SumFunctionOnSet(f, S) \in Int /\ SumFunctionOnSet(g, S) \in Int
  BY SumType
<1> QED BY <1>2, <1>3, <1>4

\* A sum splits into the sums of two parts.
LEMMA SumSplit ==
  ASSUME NEW S, IsFiniteSet(S), NEW f, \A x \in S : f[x] \in Int, NEW T \in SUBSET S
  PROVE  SumFunctionOnSet(f, S) = SumFunctionOnSet(f, T) + SumFunctionOnSet(f, S \ T)
<1> DEFINE P == {U \in SUBSET S : SumFunctionOnSet(f, U)
                   = SumFunctionOnSet(f, U \cap T) + SumFunctionOnSet(f, U \ T)}
<1>1. {} \in P
  <2>1. {} \cap T = {} /\ {} \ T = {}
    OBVIOUS
  <2> QED BY <2>1, SumEmpty
<1>2. ASSUME NEW U \in SUBSET S, NEW x \in S, U \in P, x \notin U
      PROVE  U \cup {x} \in P
  <2>1. IsFiniteSet(U) /\ IsFiniteSet(U \cap T) /\ IsFiniteSet(U \ T)
    BY FS_Subset
  <2>2. SumFunctionOnSet(f, U \cup {x}) = f[x] + SumFunctionOnSet(f, U)
    BY <1>2, <2>1, SumAdd
  <2>3. SumFunctionOnSet(f, U \cap T) \in Int /\ SumFunctionOnSet(f, U \ T) \in Int
    BY <2>1, SumType
  <2> DEFINE A == SumFunctionOnSet(f, U \cap T)
             B == SumFunctionOnSet(f, U \ T)
             V == U \cup {x}
  <2>a. SumFunctionOnSet(f, V) = f[x] + (A + B) /\ A \in Int /\ B \in Int
    BY <1>2, <2>2, <2>3
  <2>4. CASE x \in T
    <3>1. (U \cup {x}) \cap T = (U \cap T) \cup {x} /\ (U \cup {x}) \ T = U \ T
      BY <2>4
    <3>2. SumFunctionOnSet(f, (U \cap T) \cup {x}) = f[x] + SumFunctionOnSet(f, U \cap T)
      BY <1>2, <2>1, SumAdd
    <3>3. SumFunctionOnSet(f, V \cap T) = f[x] + A /\ SumFunctionOnSet(f, V \ T) = B
      BY <3>1, <3>2
    <3> HIDE DEF A, B, V
    <3>4. SumFunctionOnSet(f, V) = SumFunctionOnSet(f, V \cap T) + SumFunctionOnSet(f, V \ T)
      BY <2>a, <3>3
    <3> QED BY <3>4 DEF V
  <2>5. CASE x \notin T
    <3>1. (U \cup {x}) \ T = (U \ T) \cup {x} /\ (U \cup {x}) \cap T = U \cap T
      BY <2>5
    <3>2. SumFunctionOnSet(f, (U \ T) \cup {x}) = f[x] + SumFunctionOnSet(f, U \ T)
      BY <1>2, <2>1, SumAdd
    <3>3. SumFunctionOnSet(f, V \cap T) = A /\ SumFunctionOnSet(f, V \ T) = f[x] + B
      BY <3>1, <3>2
    <3> HIDE DEF A, B, V
    <3>4. SumFunctionOnSet(f, V) = SumFunctionOnSet(f, V \cap T) + SumFunctionOnSet(f, V \ T)
      BY <2>a, <3>3
    <3> QED BY <3>4 DEF V
  <2> QED BY <2>4, <2>5
<1> HIDE DEF P
<1>3. S \in P
  BY <1>1, <1>2, FinSetInduction
<1>4. S \cap T = T
  OBVIOUS
<1> QED BY <1>3, <1>4 DEF P

\* A part of values that are not negative has at most the sum of all.
LEMMA SumPart ==
  ASSUME NEW S, IsFiniteSet(S), NEW f, \A x \in S : f[x] \in Nat, NEW T \in SUBSET S
  PROVE  SumFunctionOnSet(f, T) <= SumFunctionOnSet(f, S)
<1>1. SumFunctionOnSet(f, S) = SumFunctionOnSet(f, T) + SumFunctionOnSet(f, S \ T)
  BY SumSplit
<1>2. IsFiniteSet(T) /\ IsFiniteSet(S \ T)
  BY FS_Subset
<1>3. SumFunctionOnSet(f, T) \in Nat /\ SumFunctionOnSet(f, S \ T) \in Nat
  BY <1>2, SumPositive
<1> QED BY <1>1, <1>3

\* Values carried over one to one to other indices have the same sum.
LEMMA SumRename ==
  ASSUME NEW S, IsFiniteSet(S), NEW f, NEW g, NEW m,
         \A x \in S : f[x] \in Int /\ g[m[x]] = f[x],
         \A x \in S, y \in S : m[x] = m[y] => x = y
  PROVE  SumFunctionOnSet(f, S) = SumFunctionOnSet(g, {m[x] : x \in S})
<1> DEFINE Image(T) == {m[x] : x \in T}
           P == {T \in SUBSET S : /\ IsFiniteSet(Image(T))
                                  /\ SumFunctionOnSet(f, T) = SumFunctionOnSet(g, Image(T))}
<1>1. {} \in P
  <2>1. Image({}) = {}
    OBVIOUS
  <2> QED BY <2>1, SumEmpty, FS_EmptySet
<1>2. ASSUME NEW T \in SUBSET S, NEW x \in S, T \in P, x \notin T
      PROVE  T \cup {x} \in P
  <2>1. IsFiniteSet(T)
    BY FS_Subset
  <2>2. Image(T \cup {x}) = Image(T) \cup {m[x]} /\ m[x] \notin Image(T)
    BY <1>2
  <2>3. SumFunctionOnSet(f, T \cup {x}) = f[x] + SumFunctionOnSet(f, T)
    BY <1>2, <2>1, SumAdd
  <2>4. \A y \in Image(T) : g[y] \in Int
    OBVIOUS
  <2>5. IsFiniteSet(Image(T)) /\ SumFunctionOnSet(f, T) = SumFunctionOnSet(g, Image(T))
    BY <1>2
  <2> HIDE DEF Image
  <2>6. SumFunctionOnSet(g, Image(T) \cup {m[x]}) = g[m[x]] + SumFunctionOnSet(g, Image(T))
    BY <2>2, <2>4, <2>5, SumAdd
  <2>7. IsFiniteSet(Image(T) \cup {m[x]})
    BY <2>5, FS_AddElement
  <2> QED BY <2>2, <2>3, <2>5, <2>6, <2>7
<1> HIDE DEF P
<1>3. S \in P
  BY <1>1, <1>2, FinSetInduction
<1> QED BY <1>3 DEF P

\* The same, where m takes each index of S to its own one of T.
Pairs(m, S, T) ==
  /\ \A x \in S : m[x] \in T
  /\ \A x \in S, y \in S : m[x] = m[y] => x = y
  /\ \A t \in T : \E x \in S : m[x] = t

\* The terms of f over S are those of g over T.
SameTerms(f, S, g, T) ==
  \E m : Pairs(m, S, T) /\ \A x \in S : f[x] \in Int /\ g[m[x]] = f[x]

\* A one-to-one correspondence that keeps the terms keeps the sum.
LEMMA SumCarriedOver ==
  ASSUME NEW S, IsFiniteSet(S), NEW T, NEW f, NEW g, SameTerms(f, S, g, T)
  PROVE  SumFunctionOnSet(f, S) = SumFunctionOnSet(g, T)
<1>1. PICK m : Pairs(m, S, T) /\ \A x \in S : f[x] \in Int /\ g[m[x]] = f[x]
  BY DEF SameTerms
<1>2. \A x \in S, y \in S : m[x] = m[y] => x = y
  BY <1>1 DEF Pairs
<1>3. SumFunctionOnSet(f, S) = SumFunctionOnSet(g, {m[x] : x \in S})
  BY <1>1, <1>2, SumRename, SMTT(60)
<1>4. {m[x] : x \in S} = T
  BY <1>1 DEF Pairs
<1> QED BY <1>3, <1>4

\* One more term of a sequence.
LEMMA SumUpto ==
  ASSUME NEW n \in Nat, NEW f, \A k \in 1 .. n + 1 : f[k] \in Int
  PROVE  SumFunctionOnSet(f, 1 .. n + 1) = SumFunctionOnSet(f, 1 .. n) + f[n + 1]
<1>1. IsFiniteSet(1 .. n) /\ 1 .. n + 1 = (1 .. n) \cup {n + 1} /\ n + 1 \notin 1 .. n
  BY FS_Interval
<1>2. SumFunctionOnSet(f, 1 .. n) \in Int /\ f[n + 1] \in Int
  BY <1>1, SumType
<1>3. SumFunctionOnSet(f, (1 .. n) \cup {n + 1}) = f[n + 1] + SumFunctionOnSet(f, 1 .. n)
  BY <1>1, SumAdd
<1> DEFINE A == SumFunctionOnSet(f, 1 .. n)
           b == f[n + 1]
<1> HIDE DEF A, b
<1>4. SumFunctionOnSet(f, 1 .. n + 1) = b + A /\ b \in Int /\ A \in Int
  BY <1>1, <1>2, <1>3 DEF A, b
<1>5. b + A = A + b
  BY <1>4
<1> QED BY <1>4, <1>5 DEF A, b

-----------------------------------------------------------------------------
\* The number of smaller elements is a rank: it is below the size of the set and
\* less for what precedes.
LEMMA RankGrows ==
  ASSUME NEW S, IsFiniteSet(S), S \subseteq Int, NEW key, \A i \in S : key[i] \in Int,
         NEW i \in S, NEW j \in S, Precedes(key, i, j)
  PROVE  /\ Rank(S, key, i) \in 0 .. Cardinality(S) - 1
         /\ Rank(S, key, i) < Rank(S, key, j)
<1> DEFINE B(x) == {y \in S : Precedes(key, y, x)}
<1>1. \A x \in S : IsFiniteSet(B(x)) /\ Cardinality(B(x)) \in Nat
  BY FS_Subset, FS_CardinalityType
<1>2. B(i) \cup {i} \subseteq B(j) /\ i \notin B(i)
  <2>1. \A x \in S : x \in Int /\ key[x] \in Int
    OBVIOUS
  <2>2. ~Precedes(key, i, i)
    BY <2>1 DEF Precedes
  <2>3. \A y \in S : Precedes(key, y, i) => Precedes(key, y, j)
    BY <2>1 DEF Precedes
  <2> QED BY <2>2, <2>3
<1>3. Cardinality(B(i) \cup {i}) = Cardinality(B(i)) + 1 /\ IsFiniteSet(B(i) \cup {i})
  BY <1>1, <1>2, FS_AddElement
<1>4. Cardinality(B(i) \cup {i}) <= Cardinality(B(j))
  BY <1>1, <1>2, FS_Subset
<1>5. Cardinality(B(j)) <= Cardinality(S) /\ Cardinality(S) \in Nat
  BY FS_Subset, FS_CardinalityType
<1> HIDE DEF B
<1>6. Cardinality(B(i)) \in 0 .. Cardinality(S) - 1 /\ Cardinality(B(i)) < Cardinality(B(j))
  BY <1>1, <1>3, <1>4, <1>5
<1> QED BY <1>6 DEF Rank, B

\* The ranks of n places are 0 to n - 1, each taken once.
LEMMA RanksAreTaken ==
  ASSUME NEW S, IsFiniteSet(S), S \subseteq Int, NEW key, \A i \in S : key[i] \in Int
  PROVE  /\ \A i \in S : Rank(S, key, i) \in 0 .. Cardinality(S) - 1
         /\ \A i \in S, j \in S : Rank(S, key, i) = Rank(S, key, j) => i = j
         /\ 0 .. Cardinality(S) - 1 \subseteq {Rank(S, key, i) : i \in S}
<1> DEFINE n == Cardinality(S)
           r == [i \in S |-> Rank(S, key, i)]
           R == 0 .. n - 1
<1>0. n \in Nat
  BY FS_CardinalityType
<1>1. ASSUME NEW i \in S PROVE Rank(S, key, i) \in R
  <2> DEFINE B == {j \in S : Precedes(key, j, i)}
  <2>1. B \in SUBSET S /\ B # S /\ IsFiniteSet(B)
    BY FS_Subset DEF Precedes
  <2>2. Cardinality(B) <= n /\ Cardinality(B) # n /\ Cardinality(B) \in Nat
    BY <2>1, FS_Subset, FS_CardinalityType
  <2> HIDE DEF n, B
  <2>3. Cardinality(B) \in R
    BY <1>0, <2>2
  <2> QED BY <2>3 DEF Rank, B
<1>2. ASSUME NEW i \in S, NEW j \in S, i # j PROVE Rank(S, key, i) # Rank(S, key, j)
  <2>1. Precedes(key, i, j) \/ Precedes(key, j, i)
    BY <1>2 DEF Precedes
  <2>2. Rank(S, key, i) \in Int /\ Rank(S, key, j) \in Int
    BY <1>0, <1>1
  <2>3. Rank(S, key, i) < Rank(S, key, j) \/ Rank(S, key, j) < Rank(S, key, i)
    BY <2>1, RankGrows
  <2> QED BY <2>2, <2>3
<1>3. IsFiniteSet(R) /\ Cardinality(R) = n
  <2>1. 0 \in Int /\ n - 1 \in Int /\ (IF 0 > n - 1 THEN 0 ELSE (n - 1) - 0 + 1) = n
    BY <1>0
  <2> HIDE DEF n
  <2> QED BY <2>1, FS_Interval
<1>4. r \in Injection(S, R)
  BY <1>1, <1>2 DEF Injection, IsInjective
<1>5. r \in Surjection(S, R)
  <2> HIDE DEF r, R
  <2> QED BY <1>3, <1>4, FS_Injection
<1>6. \A m \in R : \E i \in S : Rank(S, key, i) = m
  BY <1>5 DEF Surjection
<1> QED BY <1>1, <1>2, <1>6

\* SortedPlaces lists every place once, each before those it precedes.
LEMMA SortedPlacesSorts ==
  ASSUME NEW S, IsFiniteSet(S), S \subseteq Int, NEW key, \A i \in S : key[i] \in Int
  PROVE  LET s == SortedPlaces(S, key)
             n == Cardinality(S) IN
         /\ n \in Nat /\ s \in [1 .. n -> S]
         /\ \A i \in S : \E k \in 1 .. n : s[k] = i
         /\ \A k \in 1 .. n, l \in 1 .. n : k < l => Precedes(key, s[k], s[l])
         /\ \A k \in 1 .. n, l \in 1 .. n : s[k] = s[l] => k = l
<1> DEFINE s == SortedPlaces(S, key)
           n == Cardinality(S)
<1>0. n \in Nat
  BY FS_CardinalityType
<1>a. /\ \A i \in S : Rank(S, key, i) \in 0 .. n - 1
      /\ \A i \in S, j \in S : Rank(S, key, i) = Rank(S, key, j) => i = j
      /\ \A m \in 0 .. n - 1 : \E i \in S : Rank(S, key, i) = m
  <2>1. \A i \in S : Rank(S, key, i) \in 0 .. n - 1
    BY RanksAreTaken
  <2>2. \A i \in S, j \in S : Rank(S, key, i) = Rank(S, key, j) => i = j
    BY RanksAreTaken
  <2>3. 0 .. n - 1 \subseteq {Rank(S, key, i) : i \in S}
    BY RanksAreTaken
  <2> QED BY <2>1, <2>2, <2>3
<1>b. s = [k \in 1 .. n |-> CHOOSE i \in S : Rank(S, key, i) = k - 1]
  BY DEF SortedPlaces
<1> HIDE DEF n, s
<1>1. ASSUME NEW k \in 1 .. n PROVE s[k] \in S /\ Rank(S, key, s[k]) = k - 1
  <2>1. k - 1 \in 0 .. n - 1
    BY <1>0
  <2>2. \E i \in S : Rank(S, key, i) = k - 1
    BY <1>a, <2>1
  <2>3. s[k] = CHOOSE i \in S : Rank(S, key, i) = k - 1
    BY <1>b
  <2> QED BY <2>2, <2>3
<1>2. s \in [1 .. n -> S]
  BY <1>1, <1>b
<1>3. ASSUME NEW i \in S PROVE \E k \in 1 .. n : s[k] = i
  <2> DEFINE q == Rank(S, key, i)
  <2>1. q \in 0 .. n - 1
    BY <1>a
  <2> HIDE DEF q
  <2>2. q + 1 \in 1 .. n /\ (q + 1) - 1 = q
    BY <1>0, <2>1
  <2>3. Rank(S, key, s[q + 1]) = q /\ s[q + 1] \in S
    BY <1>1, <2>2
  <2>4. s[q + 1] = i
    BY <1>a, <2>3 DEF q
  <2> QED BY <2>2, <2>4
<1>4. ASSUME NEW k \in 1 .. n, NEW l \in 1 .. n, k < l PROVE Precedes(key, s[k], s[l])
  <2>1. s[k] \in S /\ s[l] \in S /\ Rank(S, key, s[k]) < Rank(S, key, s[l])
    BY <1>0, <1>1, <1>4
  <2>2. CASE Precedes(key, s[l], s[k])
    <3>1. Rank(S, key, s[l]) < Rank(S, key, s[k])
      BY <2>1, <2>2, RankGrows
    <3>2. Rank(S, key, s[k]) = k - 1 /\ Rank(S, key, s[l]) = l - 1
      BY <1>1
    <3> QED BY <1>0, <1>4, <3>1, <3>2
  <2>3. CASE s[k] = s[l]
    <3>1. k - 1 = l - 1
      BY <1>1, <2>3
    <3> QED BY <1>0, <1>4, <3>1
  <2>4. key[s[k]] \in Int /\ key[s[l]] \in Int /\ s[k] \in Int /\ s[l] \in Int
    BY <2>1
  <2> QED BY <2>2, <2>3, <2>4 DEF Precedes
<1>5. ASSUME NEW k \in 1 .. n, NEW l \in 1 .. n, s[k] = s[l] PROVE k = l
  <2>1. k - 1 = l - 1
    BY <1>1, <1>5
  <2> QED BY <1>0, <2>1
<1> QED BY <1>0, <1>2, <1>3, <1>4, <1>5 DEF n, s
=============================================================================
