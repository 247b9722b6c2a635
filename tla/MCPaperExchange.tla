-------------------------- MODULE MCPaperExchange --------------------------
(***************************************************************************)
(* Small instances of PaperExchange, whose fill engine is FillEngine's and *)
(* whose fee policy is PortfolioLedger's, and the client that submits an   *)
(* order twice.                                                            *)
(***************************************************************************)
EXTENDS PaperExchange, FillEngine, TLC

MCEngine(order, book, effective) == SimulateFills(order, book, effective)

\* A dollar is 4 ticks.  With this rate a fill of one share at 1 or 3 ticks
\* has a fee of one unit and one at 4 ticks a fee of zero.
MCFee(price, size) == CalculateFee(1, 4, 3, price, size)

Lvl(p, s) == [price |-> p, size |-> s]

MCIntents == [side : OrderSide, price : {2}, size : {1, 2}]

\* For a BUY at 2 the books hold one share, two shares on two levels that
\* arrive in the wrong order, and none; for a SELL at 2 they hold two shares,
\* none, and one share above a level without size.
MCBooks ==
  { [asks |-> <<Lvl(2, 1)>>, bids |-> <<Lvl(3, 2)>>],
    [asks |-> <<Lvl(2, 1), Lvl(1, 1)>>, bids |-> << >>],
    [asks |-> <<Lvl(3, 1)>>, bids |-> <<Lvl(4, 1), Lvl(2, 0)>>] }

\* The part of them that the runs with failures use.
MCTwoIntents == [side : OrderSide, price : {2}, size : {2}]
MCTwoBooks ==
  { [asks |-> <<Lvl(2, 1), Lvl(1, 1)>>, bids |-> <<Lvl(3, 1)>>],
    [asks |-> <<Lvl(1, 1)>>, bids |-> <<Lvl(4, 1), Lvl(2, 0)>>] }

-----------------------------------------------------------------------------
\* A client that retries submits the same intent again under the same
\* client_order_id; submit_order_intent does not ask whether it knows the id.
Resubmit ==
  \E o \in Ids, i \in Intents, d \in RiskDecisionType, s \in Snapshots :
    /\ rows[o] # NoOrder
    /\ CreateOrder(i) = [rows[o] EXCEPT !.status = "PENDING",
                                        !.remaining_size = rows[o].size]
    /\ StartSubmit(o, i, d, s)

ResubmitSpec == Init /\ [][Next \/ Resubmit]_vars

\* D-07: client_order_id is there for idempotency, so however often an intent
\* is submitted its order is filled for at most its size.
FilledAtMostOnce ==
  \A o \in Ids : rows[o] # NoOrder => FilledOf(o) <= rows[o].size

Symmetry == Permutations(Ids)
=============================================================================
