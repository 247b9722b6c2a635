--------------------------- MODULE MatchingContract ---------------------------
(***************************************************************************)
(* What a matching engine owes to an order, said without an algorithm.     *)
(* FillEngine keeps it, see RunnerProofs; PaperExchange and RealtimeRunner *)
(* rely on the part of it called Accounted.                                *)
(*                                                                         *)
(* A result is [fills, remaining_size, status]; the status is that of      *)
(* FillSimulationResult, or RAISED when the engine raises.                 *)
(***************************************************************************)
EXTENDS OrderLifecycle, Integers, Sequences, Functions

\* BookLevel does not constrain its size: a zero (or negative) size is a value
\* the model accepts.
Level == [price : Nat, size : Int]

FillTerms == [price : Nat, size : Nat \ {0}]

FillResult ==
  [fills : Seq(FillTerms), remaining_size : Nat,
   status : {"OPEN", "PARTIALLY_FILLED", "FILLED", "RAISED"}]

Sizes(list) == [k \in DOMAIN list |-> list[k].size]
Notionals(list) == [k \in DOMAIN list |-> list[k].price * list[k].size]
Filled(fills) == SumFunction(Sizes(fills))

\* No fill is lost or counted twice, and the status says what was filled.
Accounted(order, result) ==
  IF result.status = "RAISED" THEN result.fills = << >>
  ELSE /\ Filled(result.fills) + result.remaining_size = order.remaining_size
       /\ result.status = "FILLED" <=> result.remaining_size = 0
       /\ result.status = "OPEN" <=> result.fills = << >>

\* A price the order may trade at, and one that is better for it.
WithinLimit(order, price) ==
  IF order.side = "BUY" THEN price <= order.price ELSE price >= order.price
Better(order, p, q) == IF order.side = "BUY" THEN p < q ELSE p > q

\* No fill trades through the order's limit price.
RespectsTheLimit(order, result) ==
  \A k \in DOMAIN result.fills : WithinLimit(order, result.fills[k].price)

-----------------------------------------------------------------------------
\* The side of the book the order trades against, and what it offers there.
Opposite(order, book) == IF order.side = "BUY" THEN book.asks ELSE book.bids

Reachable(order, book) ==
  {k \in DOMAIN Opposite(order, book) :
     WithinLimit(order, Opposite(order, book)[k].price)}

Available(order, book) ==
  [k \in DOMAIN Opposite(order, book) |->
     IF Opposite(order, book)[k].size > 0 THEN Opposite(order, book)[k].size
                                          ELSE 0]

\* As much as the book allows within the limit is filled, and no more.
FillsWhatTheBookAllows(order, book, effective, result) ==
  LET allowed == IF effective
                 THEN SumFunctionOnSet(Available(order, book),
                                       Reachable(order, book)) ELSE 0
  IN  result.status # "RAISED" =>
        Filled(result.fills) = IF allowed <= order.remaining_size
                               THEN allowed ELSE order.remaining_size

\* No way of taking the same quantity from the reachable levels is better for
\* the order: a BUY pays the least possible, a SELL receives the most.
FillsAtTheBestPrice(order, book, result) ==
  LET levels == Reachable(order, book)
      paid == SumFunction(Notionals(result.fills))
  IN  result.status # "RAISED" =>
        \A take \in [levels -> 0 .. order.remaining_size] :
          LET cost == SumFunction([k \in levels |->
                                     Opposite(order, book)[k].price * take[k]])
          IN  (/\ \A k \in levels : take[k] <= Available(order, book)[k]
               /\ SumFunction(take) = Filled(result.fills)) =>
                IF order.side = "BUY" THEN paid <= cost ELSE paid >= cost

\* The engine raises only when a level without size comes before the order is
\* complete: one that the better priced levels do not already satisfy.
RaisesOnlyOnEmptyLevel(order, book, result) ==
  result.status = "RAISED" =>
    \E k \in Reachable(order, book) :
      LET side == Opposite(order, book)
          better == {m \in Reachable(order, book) :
                       Better(order, side[m].price, side[k].price)}
      IN  /\ side[k].size <= 0
          /\ SumFunctionOnSet(Available(order, book), better)
               < order.remaining_size

MatchingOwes(order, book, effective, result) ==
  /\ result \in FillResult
  /\ Accounted(order, result)
  /\ RespectsTheLimit(order, result)
  /\ FillsWhatTheBookAllows(order, book, effective, result)
  /\ FillsAtTheBestPrice(order, book, result)
  /\ RaisesOnlyOnEmptyLevel(order, book, result)

=============================================================================
