----------------------------- MODULE MCStrategyRun -----------------------------
(***************************************************************************)
(* StrategyRun with three tokens: the CLOB may return any book of up to    *)
(* two levels a side for the first, none for the second and one side for   *)
(* the third, with ticks that divide a cent and one that does not.         *)
(***************************************************************************)
EXTENDS StrategyRun, TLC

CONSTANTS t1, t2, t3

MCTokens == <<t1, t2, t3>>

\* Shallow and deep levels at both ends of the scale, and rows without size.
Rows(prices) == {Level(p, usdc, p) : p \in prices, usdc \in {0, 10, 900}}
Singles(prices) == {<<>>} \cup {<<l>> : l \in Rows(prices)}
Sides(prices) == Singles(prices)
                 \cup {<<l, k>> : <<l, k>> \in {x \in Rows(prices) \X Rows(prices) :
                                                 x[1].price # x[2].price}}
Book(bids, asks, size) == [bids |-> bids, asks |-> asks, tick |-> size]

\* The tick 0.01, and some books with the ticks 0.001 and 0.1.
MCBooks ==
  {Book(b, a, 200) : b \in Sides({200, 9000}), a \in Sides({9400, 19800})}
  \cup {Book(b, a, 20) : b \in Singles({200, 9000}), a \in Singles({9400, 19800})}
  \cup {Book(b, a, 2000) : b \in Singles({2000, 8000}), a \in Singles({10000, 18000})}

\* One side: an ask at the end of the scale, and one at the first coarse tick.
HighAsk == Book(<<>>, <<Level(19980, 10, 19980)>>, 20)
CoarseAsk == Book(<<>>, <<Level(2000, 10, 2000)>>, 2000)

MCReplies ==
  {(t1 :> book) @@ (t2 :> NoBook) @@ (t3 :> IF book.tick = 200 THEN CoarseAsk ELSE HighAsk) :
     book \in MCBooks}

\* Where CanFill stops: the tick 0.1 gives a bid of 0 with a bid of 0.01 behind it.
ASSUME CoarseBidIsNothing ==
  LET p == StagePayload(MarketPayload(CoarseAsk), 0) IN
  p.bid = 0 /\ p.levels.bids[2].price = Lowest /\ ~CanFill(p)

MCFeeds ==
  {[i \in DOMAIN ts |-> [token |-> (<<t1, t2, t1, t3, t2, t1>>)[i], ts |-> ts[i]]] :
     ts \in {<<0, 0, 1, 2, 2, 4>>, <<3, 1, 2, 6, 2, 5>>}}

MCConfigured ==
  {[profile |-> "medium", overrides |-> [active |-> 2]],
   [profile |-> "light", overrides |-> [interval |-> 2, active |-> 3]],
   [profile |-> "heavy", overrides |-> [interval |-> 1]],
   [profile |-> NoProfile, overrides |-> [active |-> 3]]}
MCStarts == {0, 1}

=============================================================================
