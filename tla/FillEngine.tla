----------------------------- MODULE FillEngine -----------------------------
(***************************************************************************)
(* The depth-driven fill simulation of services/fill_engine.py, as pure    *)
(* operators: simulate_fills(order, snapshot, config, now).                *)
(*                                                                         *)
(* A book is [asks, bids], two sequences of levels [price, size] in the    *)
(* order the venue sent them.  Prices are ticks and sizes are whole        *)
(* shares.  The clock only enters through is_submission_effective, so it   *)
(* is the Boolean `effective`.  A fill is [price, size]; the copied        *)
(* columns (ids, side, timestamps, TAKER) are left out.                    *)
(***************************************************************************)
EXTENDS MatchingContract, Sorting

MinOf(a, b) == IF a <= b THEN a ELSE b

-----------------------------------------------------------------------------
\* The key of the sort: the price, from the best one on.
PriceKey(order, book) ==
  [k \in DOMAIN Opposite(order, book) |->
     IF order.side = "BUY" THEN Opposite(order, book)[k].price
                           ELSE -Opposite(order, book)[k].price]

LevelsAt(order, book, places) ==
  [k \in DOMAIN places |-> Opposite(order, book)[places[k]]]

\* The sort left out: levels are taken in the order they arrived.
EligibleLevelsUnsorted(order, book) ==
  LevelsAt(order, book,
           SortedPlaces(Reachable(order, book),
                        [k \in DOMAIN Opposite(order, book) |-> 0]))

\* The cut at the limit price left out.
EligibleLevelsNoLimit(order, book) ==
  LevelsAt(order, book,
           SortedPlaces(DOMAIN Opposite(order, book), PriceKey(order, book)))

\* _eligible_levels: the opposite side of the book, best price first, cut at
\* the limit price.
EligibleLevels(order, book) ==
  LevelsAt(order, book,
           SortedPlaces(Reachable(order, book), PriceKey(order, book)))

-----------------------------------------------------------------------------
\* Not reducing the remainder between levels.
RemainingBeforeStuck(levels, size) == [k \in 1 .. Len(levels) + 1 |-> size]

\* `remaining` when the loop of simulate_fills reaches level k; the loop
\* breaks as soon as nothing remains.
RemainingBefore(levels, size) ==
  LET rem[k \in 1 .. Len(levels) + 1] ==
        IF k = 1 THEN size
        ELSE rem[k - 1] - (IF rem[k - 1] <= 0 THEN 0
                           ELSE MinOf(rem[k - 1], levels[k - 1].size))
  IN  rem

\* `if remaining <= 0: break` left out.
LoopReachesAlways(before, k) == TRUE

LoopReaches(before, k) == before[k] > 0

NoFill(order) ==
  [fills |-> << >>, remaining_size |-> order.remaining_size, status |-> "OPEN"]

\* SimulatedFill refuses a size that is not positive, so a level without size
\* that the loop reaches makes simulate_fills raise.
RaisedResult(order) ==
  [fills |-> << >>, remaining_size |-> order.remaining_size,
   status |-> "RAISED"]

Classify(fills, remaining) ==
  CASE remaining = 0 -> "FILLED"
    [] remaining # 0 /\ fills # << >> -> "PARTIALLY_FILLED"
    [] OTHER -> "OPEN"

SimulateFills(order, book, effective) ==
  LET levels  == EligibleLevels(order, book)
      before  == RemainingBefore(levels, order.remaining_size)
      reached == {k \in 1 .. Len(levels) : LoopReaches(before, k)}
      fills   == [k \in 1 .. Cardinality(reached) |->
                    [price |-> levels[k].price,
                     size  |-> MinOf(before[k], levels[k].size)]]
      left    == before[Len(levels) + 1]
  IN  IF ~effective \/ levels = << >> THEN NoFill(order)
      ELSE IF \E k \in reached : levels[k].size <= 0 THEN RaisedResult(order)
      ELSE [fills |-> fills, remaining_size |-> left,
            status |-> Classify(fills, left)]

=============================================================================
