-------------------------- MODULE MCRealtimeRunner --------------------------
(***************************************************************************)
(* Small instances of RealtimeRunner with FillEngine's matching.  A dollar *)
(* is 8 ticks and a share is one lot.                                      *)
(***************************************************************************)
EXTENDS RealtimeRunner, FillEngine

CONSTANTS t1, t2

MCTokens == {t1, t2}

Lvl(p, s) == [price |-> p, size |-> s]

\* Two sides with depth, whose best level holds one share; levels that have
\* moved past the best prices quoted with them, so that an order takes two; a
\* side missing, so that prices fall back to the other one; best prices without
\* levels; a market that accepts no orders; and a level without size.
Deep ==
  [best_bid |-> 2, best_ask |-> 4, midpoint |-> 3, last_trade_price |-> 3,
   tick |-> 1, min_order_size |-> 1, open |-> TRUE,
   bids |-> <<Lvl(1, 2), Lvl(2, 1)>>, asks |-> <<Lvl(4, 1), Lvl(5, 2)>>]
Moved ==
  [Deep EXCEPT !.bids = <<Lvl(2, 1), Lvl(3, 2)>>,
               !.asks = <<Lvl(4, 2), Lvl(3, 2)>>]
OneSided ==
  [Deep EXCEPT !.best_bid = 6, !.best_ask = 0, !.midpoint = 6,
               !.last_trade_price = 6, !.bids = <<Lvl(6, 3)>>, !.asks = << >>]
BestOnly ==
  [Deep EXCEPT !.min_order_size = 2, !.bids = << >>, !.asks = << >>]
Closed == [BestOnly EXCEPT !.open = FALSE]
Hollow == [Deep EXCEPT !.asks = <<Lvl(4, 0)>>]

MCQuotes == {Deep, Moved, OneSided, BestOnly, Closed, Hollow}

\* The engine's answers to the orders the limits let through, worked out once.
OpenOrders ==
  {OpenOrder([side |-> s, price |-> p, size |-> n]) :
     s \in OrderSide, p \in 0 .. One, n \in 1 .. MaxToken}
Answers ==
  [o \in OpenOrders, b \in {BookOf(q) : q \in MCQuotes \cup {NoQuote}} |->
     SimulateFills(o, b, TRUE)]
MCEngine(order, levels, effective) ==
  IF effective /\ order \in OpenOrders THEN Answers[order, levels]
  ELSE SimulateFills(order, levels, effective)

Hold(t, n) == [token |-> t, kind |-> "position", target |-> n]
Expose(t, n) == [token |-> t, kind |-> "exposure", target |-> n]

\* Entering, reducing and leaving; a target past the limit; a share of the
\* equity; a short position, which is always refused; two orders of one call
\* that compete for the cash, that trade the same token, and of which only one
\* has a quote.
MCBatches ==
  {<< >>} \cup
  {<<s>> : s \in {Hold(t1, 0), Hold(t1, 1), Hold(t1, 3), Hold(t1, 5),
                  Expose(t1, 60), Hold(t2, -1)}} \cup
  {<<Hold(t1, 3), Expose(t2, 100)>>, <<Hold(t2, 3), Hold(t1, 3)>>,
   <<Hold(t1, 0), Hold(t1, 3)>>, <<Expose(t2, 50), Hold(t2, 0)>>}

=============================================================================
