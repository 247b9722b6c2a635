------------------------------ MODULE StagedBooks ------------------------------
(***************************************************************************)
(* build_bootstrap_market_events (services/automation_cli.py): the market  *)
(* events an automated run is fed with.  Every token gets one event for    *)
(* each stage of the stress profile, with the order book the CLOB returned *)
(* deepened at its best prices, or with an invented one where it returned  *)
(* none or one side only.                                                  *)
(*                                                                         *)
(* A price is a whole number of units of 1/20000 dollar, and the prices    *)
(* and the tick of a reply are even numbers of them, so that halves are    *)
(* whole; 0 stands for a price that is missing, as the falsy values do in  *)
(* the code.  A size is the number of shares that `usdc` dollars buy at    *)
(* price `at`, which avoids the division of _depth_size.                   *)
(***************************************************************************)
EXTENDS Sorting, Sequences

CONSTANT NoBook   \* a token the CLOB returned no book for

Missing == 0
OrElse(a, b) == IF a # Missing THEN a ELSE b
Cent == 200
Lowest == Cent
Highest == 99 * Cent
MaxOf(a, b) == IF a >= b THEN a ELSE b
MinOf(a, b) == IF a <= b THEN a ELSE b
Clamp(price) == MaxOf(Lowest, MinOf(Highest, price))

\* _depth_size: at a price of 0 the size is the number of dollars.
Per(price) == IF price > 0 THEN price ELSE 100 * Cent

Level(price, usdc, at) == [price |-> price, usdc |-> usdc, at |-> at]
\* The size of a level is below what usdc buys at price at.
Below(level, usdc, at) == level.usdc * at < usdc * level.at

-----------------------------------------------------------------------------
(***************************************************************************)
(* _market_payload_from_book.  A book is [bids, asks, tick], its sides in  *)
(* the order of the reply; rows without a size are dropped.                *)
(***************************************************************************)
EvenUnits == {n \in Nat \ {0} : n % 2 = 0}
Row == [price : EvenUnits, usdc : Nat, at : Nat \ {0}]

\* A reply that is not crossed, with any tick.
IsBook(book) ==
  /\ book.bids \in Seq(Row) /\ book.asks \in Seq(Row) /\ book.tick \in EvenUnits
  /\ \A i \in DOMAIN book.bids, j \in DOMAIN book.asks :
       book.bids[i].usdc > 0 /\ book.asks[j].usdc > 0 =>
         book.bids[i].price < book.asks[j].price

Sized(rows) == {i \in DOMAIN rows : rows[i].usdc > 0}

Side(rows, key) ==
  LET places == SortedPlaces(Sized(rows), key)
  IN  [k \in DOMAIN places |-> rows[places[k]]]

\* sorted(...) by price, the bids with reverse=True: both keep equal prices in
\* the order they have.
BidSide(rows) == Side(rows, [i \in DOMAIN rows |-> -rows[i].price])
AskSide(rows) == Side(rows, [i \in DOMAIN rows |-> rows[i].price])

BookLevels(book) == [bids |-> BidSide(book.bids), asks |-> AskSide(book.asks)]

BestOf(levels) == IF levels = <<>> THEN Missing ELSE levels[1].price

MarketPayload(book) ==
  IF book = NoBook
  THEN [bid |-> 49 * Cent, ask |-> 51 * Cent, mid |-> 50 * Cent, tick |-> Cent,
        source |-> "synthetic_fallback", levels |-> [bids |-> <<>>, asks |-> <<>>]]
  ELSE LET levels == BookLevels(book)
           bid == BestOf(levels.bids)
           ask == BestOf(levels.asks) IN
       [bid |-> bid, ask |-> ask,
        mid |-> IF bid # Missing /\ ask # Missing THEN (bid + ask) \div 2
                ELSE OrElse(ask, OrElse(bid, 50 * Cent)),
        tick |-> book.tick, levels |-> levels,
        source |-> IF levels.bids # <<>> /\ levels.asks # <<>> THEN "clob"
                   ELSE "clob_incomplete"]

-----------------------------------------------------------------------------
(***************************************************************************)
(* _stage_market_payload.  Stages are counted from 0.                      *)
(***************************************************************************)
StageDepth(stage) == <<250, 300, 350, 300, 250>>[MinOf(stage, 4) + 1]
StageDelta(stage, tick) == <<0, tick, -tick, -2 * tick, tick>>[MinOf(stage, 4) + 1]

\* _align_price
AlignDown(price, tick) == (price \div tick) * tick
AlignUp(price, tick) == -((-price) \div tick) * tick

\* Only the price looked at: the depth of a level that is there stays.
EnsureTopDepthIfMissing(levels, price, usdc) ==
  IF \E i \in DOMAIN levels : levels[i].price = price THEN levels
  ELSE Append(levels, Level(price, usdc, price))

\* _ensure_top_depth: the first level at the price is raised to the depth.
EnsureTopDepth(levels, price, usdc) ==
  LET at == {i \in DOMAIN levels : levels[i].price = price} IN
  IF at = {} THEN Append(levels, Level(price, usdc, price))
  ELSE LET first == CHOOSE i \in at : \A k \in at : i <= k IN
       IF Below(levels[first], usdc, price)
       THEN [levels EXCEPT ![first] = Level(price, usdc, price)]
       ELSE levels

StageRealLevels(levels, stage, bid, ask) ==
  [bids |-> BidSide(EnsureTopDepth(levels.bids, bid, StageDepth(stage))),
   asks |-> AskSide(EnsureTopDepth(levels.asks, ask, StageDepth(stage)))]

\* _stage_book_levels: the second level has the size of the first, one tick
\* further out but within the scale.
StageLevels(stage, bid, ask, tick) ==
  [bids |-> <<Level(bid, StageDepth(stage), Per(bid)),
              Level(MaxOf(Lowest, bid - tick), StageDepth(stage), Per(bid))>>,
   asks |-> <<Level(ask, StageDepth(stage), Per(ask)),
              Level(MinOf(Highest, ask + tick), StageDepth(stage), Per(ask))>>]

\* The spread of an invented quote; at least a tick, so it is positive.
StagedSpread(payload, mid) ==
  MaxOf(payload.tick, OrElse(payload.ask, mid) - OrElse(payload.bid, mid))

\* The invented best prices around mid: the clamp comes before the rounding, so
\* a tick that divides no cent takes a price out of 0.01 .. 0.99 again.
StagedBid(payload, mid) ==
  AlignDown(MaxOf(Lowest, mid - StagedSpread(payload, mid) \div 2), payload.tick)

\* The rounding before the clamp.
StagedAskRoundedFirst(payload, mid) ==
  MinOf(Highest, AlignUp(mid + StagedSpread(payload, mid) \div 2, payload.tick))

StagedAsk(payload, mid) ==
  LET ask == AlignUp(MinOf(Highest, mid + StagedSpread(payload, mid) \div 2), payload.tick)
      bid == StagedBid(payload, mid) IN
  IF ask <= bid THEN AlignUp(MinOf(Highest, bid + payload.tick), payload.tick) ELSE ask

StagePayload(payload, stage) ==
  LET last == Clamp(payload.mid + StageDelta(stage, payload.tick))
      real == payload.source = "clob"
      bid == IF real THEN payload.bid ELSE StagedBid(payload, last)
      ask == IF real THEN payload.ask ELSE StagedAsk(payload, last) IN
  [bid |-> bid, ask |-> ask, mid |-> (bid + ask) \div 2, last |-> last,
   tick |-> payload.tick, stage |-> stage,
   source |-> IF real THEN "clob_augmented" ELSE "synthetic_staged",
   levels |-> IF real THEN StageRealLevels(payload.levels, stage, bid, ask)
              ELSE StageLevels(stage, bid, ask, payload.tick)]

-----------------------------------------------------------------------------
\* One event of a token: the offset of the stage and the staged payload.
StageEvent(token, book, start, interval, stage) ==
  [token |-> token, ts |-> start + stage * interval,
   payload |-> StagePayload(MarketPayload(book), stage)]

\* build_bootstrap_market_events: token by token, each with all its stages.
BootstrapEvents(tokens, books, start, interval, stages) ==
  [k \in 1 .. Len(tokens) * stages |->
     LET token == tokens[(k - 1) \div stages + 1] IN
     StageEvent(token, books[token], start, interval, (k - 1) % stages)]

=============================================================================
