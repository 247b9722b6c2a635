---------------------------- MODULE MarketDataStore ----------------------------
(***************************************************************************)
(* MarketDataStore (storage/market_data_store.py): the tables of the       *)
(* reference, raw and normalized schemas.  Each operator is one method,    *)
(* which is one transaction.  The rows keep the columns that say what was  *)
(* seen, when, from where, and whether it repairs a gap; spread and        *)
(* midpoint follow from the best prices and are left out.                  *)
(***************************************************************************)
EXTENDS ClobMarket

CONSTANT NoRow   \* a token without a row

VARIABLES
  reference,     \* reference.tokens: the selection_reason of each token
  events,        \* raw.websocket_events
  payloads,      \* raw.rest_payloads
  intervals,     \* raw.gap_fill_intervals
  history,       \* normalized.price_history
  snapshots,     \* normalized.book_snapshots with their book_levels
  bestBidAsk,    \* normalized.best_bid_ask, one row for a token
  lastTrades     \* normalized.last_trades, one row for a token

store == <<reference, events, payloads, intervals, history, snapshots,
           bestBidAsk, lastTrades>>

StoreInit ==
  /\ reference = [t \in Tokens |-> NoRow]
  /\ events = {} /\ payloads = {} /\ intervals = {}
  /\ history = {} /\ snapshots = {}
  /\ bestBidAsk = [t \in Tokens |-> NoRow]
  /\ lastTrades = [t \in Tokens |-> NoRow]

-----------------------------------------------------------------------------
\* ON CONFLICT (token_id) DO UPDATE, whatever the two rows say of their times.
Upserted(table, tokens, rows) ==
  [t \in Tokens |-> IF t \in tokens THEN rows[t] ELSE table[t]]

UpsertReferenceTokens(tokens, reason) ==
  /\ reference' = Upserted(reference, tokens, [t \in tokens |-> reason])
  /\ UNCHANGED <<events, payloads, intervals, history, snapshots, bestBidAsk,
                 lastTrades>>

InsertRawWsEvent(row) ==
  /\ events' = events \cup {row}
  /\ UNCHANGED <<reference, payloads, intervals, history, snapshots, bestBidAsk,
                 lastTrades>>

InsertRawRestPayload(row) ==
  /\ payloads' = payloads \cup {row}
  /\ UNCHANGED <<reference, events, intervals, history, snapshots, bestBidAsk,
                 lastTrades>>

\* The key is (token_id, source_ts, source, gap_fill): a repaired point never
\* replaces a collected one.
UpsertPriceHistoryPoints(rows) ==
  /\ history' = history \cup rows
  /\ UNCHANGED <<reference, events, payloads, intervals, snapshots, bestBidAsk,
                 lastTrades>>

InsertBookSnapshot(row) ==
  /\ snapshots' = snapshots \cup {row}
  /\ UNCHANGED <<reference, events, payloads, intervals, history, bestBidAsk,
                 lastTrades>>

UpsertBestBidAsk(tokens, rows) ==
  /\ bestBidAsk' = Upserted(bestBidAsk, tokens, rows)
  /\ UNCHANGED <<reference, events, payloads, intervals, history, snapshots,
                 lastTrades>>

UpsertLastTrades(tokens, rows) ==
  /\ lastTrades' = Upserted(lastTrades, tokens, rows)
  /\ UNCHANGED <<reference, events, payloads, intervals, history, snapshots,
                 bestBidAsk>>

RecordGapInterval(row) ==
  /\ intervals' = intervals \cup {row}
  /\ UNCHANGED <<reference, events, payloads, history, snapshots, bestBidAsk,
                 lastTrades>>

-----------------------------------------------------------------------------
(***************************************************************************)
(* The rows the services build from what they received.                    *)
(***************************************************************************)
\* Snapshot rows and price points keep what was posted, and the gap_fill mark.
Marked(post, source, gap) == [post |-> post, source |-> source, gap |-> gap]

BestBid(post) ==
  IF post.bids = {} THEN NoPrice
  ELSE CHOOSE p \in post.bids : \A q \in post.bids : q <= p

\* The ask furthest from the market.
BestAskHighest(post) ==
  IF post.asks = {} THEN NoPrice
  ELSE CHOOSE p \in post.asks : \A q \in post.asks : p >= q

BestAsk(post) ==
  IF post.asks = {} THEN NoPrice
  ELSE CHOOSE p \in post.asks : \A q \in post.asks : p <= q

BestBidAskRow(post, source, gap) ==
  [ts |-> post.ts, bid |-> BestBid(post), ask |-> BestAsk(post),
   source |-> source, gap |-> gap]

LastTradeRow(post, source, gap) ==
  [ts |-> post.ts, price |-> post.trade, source |-> source, gap |-> gap]

\* An empty book gives no best_bid_ask row, and the row of before stays.
HasBest(post) == post.bids # {} \/ post.asks # {}

=============================================================================
