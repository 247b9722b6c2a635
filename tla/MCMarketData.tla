------------------------------ MODULE MCMarketData ------------------------------
(***************************************************************************)
(* RealtimeCollector over three tokens, two of them in the universe, with  *)
(* a two-sided and an empty book.                                          *)
(***************************************************************************)
EXTENDS RealtimeCollector

CONSTANTS yes, no, other

MCTokens == {yes, no, other}
MCUniverse == <<no, yes>>
TwoSided == [bids |-> {1, 2}, asks |-> {3, 4}, trade |-> 3]
EmptyBook == [bids |-> {}, asks |-> {}, trade |-> NoPrice]
MCBooks ==
  [t \in MCTokens |-> CASE t = yes -> {TwoSided, EmptyBook}
                        [] t = other -> {TwoSided}
                        [] OTHER -> {}]
MCStarts == [p \in Processes |-> 1]

=============================================================================
