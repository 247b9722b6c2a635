------------------------------ MODULE ClobMarket ------------------------------
(***************************************************************************)
(* The exchange as the collectors see it: the order book of every token,   *)
(* what adapters/polymarket.py fetches from it over REST, and the messages *)
(* adapters/polymarket_ws.py yields from its socket.                       *)
(*                                                                         *)
(* The clock counts the changes of the books: a book carries the time it   *)
(* was last changed, and whoever asks the time gets the current count.     *)
(***************************************************************************)
EXTENDS Integers, Sequences

CONSTANTS
  Tokens,
  NoBook, NoPrice,   \* a token without an order book; an absent price
  Books,             \* the books each token may show: [bids, asks, trade]
  MaxClock           \* bound of the clock

VARIABLES
  clock,
  quote,   \* the current book of each token
  past     \* every book that was ever shown

market == <<clock, quote, past>>

OrderBooks == [bids : SUBSET Int, asks : SUBSET Int, trade : Int \cup {NoPrice}]

\* A side is a finite list of levels: unless it is empty it has a best price.
HasBestPrices(b) ==
  /\ b.bids # {} => \E p \in b.bids : \A q \in b.bids : q <= p
  /\ b.asks # {} => \E p \in b.asks : \A q \in b.asks : p <= q

\* A book of a token at the time it was posted.
Posted(t, time, b) ==
  [token |-> t, ts |-> time, bids |-> b.bids, asks |-> b.asks, trade |-> b.trade]

Posts ==
  [token : Tokens, ts : Nat, bids : SUBSET Int, asks : SUBSET Int,
   trade : Int \cup {NoPrice}]

ASSUME BooksAssumption ==
  /\ Books \in [Tokens -> SUBSET OrderBooks]
  /\ \A t \in Tokens : \A b \in Books[t] : HasBestPrices(b)
  /\ NoBook \notin Posts
  /\ MaxClock \in Nat

MarketInit ==
  /\ clock = 0
  /\ quote = [t \in Tokens |-> NoBook]
  /\ past = {}

Post(t, b) ==
  /\ clock < MaxClock
  /\ clock' = clock + 1
  /\ quote' = [quote EXCEPT ![t] = Posted(t, clock + 1, b)]
  /\ past' = past \cup {Posted(t, clock + 1, b)}

Now(tokens) == {quote[t] : t \in {u \in tokens : quote[u] # NoBook}}

\* fetch_order_books: the server leaves out the tokens it has no book for.
FetchOrderBooks(tokens) == Now(tokens)

\* fetch_prices_history_batch: what was posted from one time to another.
FetchPricesHistory(tokens, from, to) ==
  {q \in past : q.token \in tokens /\ from <= q.ts /\ q.ts <= to}

\* The events of the market channel.  A price_change lists the tokens of a
\* market, of which some may not be subscribed to; the others are about one.
Events ==
  [event_type : {"book", "price_change", "best_bid_ask", "last_trade_price",
                 "tick_size_change"},
   posts : SUBSET Posts]

Announced(kind, tokens) == [event_type |-> kind, posts |-> Now(tokens)]

=============================================================================
