-------------------------------- MODULE Sorting --------------------------------
(***************************************************************************)
(* Python's sorted(items, key=...), which keeps equal items in the order   *)
(* they have: by key, then by place.  `places` are the indices of the      *)
(* items that take part; the result lists them in their new order.         *)
(***************************************************************************)
EXTENDS Integers, FiniteSets

Precedes(key, j, i) == key[j] < key[i] \/ (key[j] = key[i] /\ j < i)

\* How many of the places come before place i.
Rank(places, key, i) == Cardinality({j \in places : Precedes(key, j, i)})

SortedPlaces(places, key) ==
  [k \in 1 .. Cardinality(places) |->
     CHOOSE i \in places : Rank(places, key, i) = k - 1]

=============================================================================
