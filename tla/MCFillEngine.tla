---------------------------- MODULE MCFillEngine ----------------------------
(***************************************************************************)
(* Every small order against every small book: simulate_fills compared     *)
(* with what MatchingContract demands of a result, none of it following    *)
(* the loop of the code.                                                   *)
(***************************************************************************)
EXTENDS OrderMatching

CONSTANTS MaxPrice, MaxSize, MaxDepth

Prices == 1 .. MaxPrice
Levels == [price : Prices, size : 0 .. MaxSize]
Depth  == UNION {[1 .. n -> Levels] : n \in 0 .. MaxDepth}

MCRequests == [side : OrderSide, price : Prices, size : 1 .. MaxSize]

\* Only the opposite side is read, so one list may stand for both.
MCSnapshots == {[asks |-> levels, bids |-> levels] : levels \in Depth}

=============================================================================
