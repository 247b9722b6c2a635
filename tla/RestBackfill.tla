----------------------------- MODULE RestBackfill -----------------------------
(***************************************************************************)
(* MarketDataBackfillService.backfill_top_tokens (services/backfill.py):   *)
(* price history and order books over REST, chunk by chunk.  It is run by  *)
(* the backfill command and by the collector that repairs a gap, each in   *)
(* its own process: run[p] is the local state of the call made by p.       *)
(*                                                                         *)
(* A step ends with one write.  A fetch is part of the step that stores    *)
(* its raw payload: to fail between the two is to fail before both.  What  *)
(* was fetched is normalized some steps later, and the latest rows are     *)
(* written at the very end.                                                *)
(***************************************************************************)
EXTENDS MarketDataStore

CONSTANTS
  Universe,                      \* the selected tokens, in order of rank
  HistoryChunkSize, BookChunkSize,
  HistoryInterval,               \* interval: how far back a history reaches that names no window
  Collector, Backfiller          \* the two processes

Processes == {Collector, Backfiller}

ASSUME UniverseAssumption ==
  /\ Universe \in Seq(Tokens) /\ Universe # <<>>
  /\ HistoryChunkSize \in Nat \ {0} /\ BookChunkSize \in Nat \ {0}
  /\ HistoryInterval \in Nat

VARIABLE run

UniverseTokens == {Universe[i] : i \in DOMAIN Universe}

\* The last chunk left out.
ChunkCountFull(size) == (Len(Universe) - 1) \div size

\* _chunks
ChunkCount(size) == (Len(Universe) + size - 1) \div size

ChunkTokens(i, size) ==
  {Universe[j] : j \in {k \in DOMAIN Universe : (i - 1) * size < k /\ k <= i * size}}

Stages == {"idle", "reference", "history", "points", "books", "snapshots",
           "best", "trades"}

\* gap is also the opposite of upsert_reference; from and to are start_ts and
\* end_ts of a repair; todo are the fetched books not yet stored.
IdleRun ==
  [stage |-> "idle", gap |-> FALSE, from |-> 0, to |-> 0, chunk |-> 1,
   todo |-> {}, points |-> {}, books |-> {}]

Runs ==
  [stage : Stages, gap : BOOLEAN, from : Int, to : Int, chunk : Nat,
   todo : SUBSET Posts, points : SUBSET Posts, books : SUBSET Posts]

CalledRun(gap, from, to) ==
  [IdleRun EXCEPT !.stage = "reference", !.gap = gap, !.from = from, !.to = to]

-----------------------------------------------------------------------------
At(p, stage) == run[p].stage = stage

\* The reason a token is in the universe: the repair of a gap makes up rows
\* of its own for the tokens it was given.
SelectionReason(gap) == IF gap THEN "gap_fill" ELSE "top_n"

\* The flag upsert_reference ignored.
UpsertReferenceAlways(p) ==
  /\ At(p, "reference")
  /\ UpsertReferenceTokens(UniverseTokens, SelectionReason(run[p].gap))
  /\ run' = [run EXCEPT ![p].stage = "history"]
  /\ UNCHANGED market

UpsertReference(p) ==
  /\ At(p, "reference")
  /\ IF run[p].gap THEN UNCHANGED store
     ELSE UpsertReferenceTokens(UniverseTokens, SelectionReason(FALSE))
  /\ run' = [run EXCEPT ![p].stage = "history"]
  /\ UNCHANGED market

\* The raw payload as it was received.
Payload(endpoint, posts, gap) == [endpoint |-> endpoint, posts |-> posts, gap |-> gap]

\* The window of a request.  A repair names it; the backfill command does not,
\* and gets the interval that ends with the request.
WindowStart(p) == IF run[p].gap THEN run[p].from ELSE clock - HistoryInterval
WindowEnd(p) == IF run[p].gap THEN run[p].to ELSE clock

\* One chunk of the history; _normalize_price_history keeps its points for
\* after the last chunk.
FetchHistory(p) ==
  LET reply == FetchPricesHistory(ChunkTokens(run[p].chunk, HistoryChunkSize),
                                  WindowStart(p), WindowEnd(p))
      last == run[p].chunk >= ChunkCount(HistoryChunkSize) IN
  /\ At(p, "history")
  /\ InsertRawRestPayload(Payload("/batch-prices-history", reply, run[p].gap))
  /\ run' = [run EXCEPT ![p].stage = IF last THEN "points" ELSE "history",
               ![p].chunk = IF last THEN 1 ELSE @ + 1,
               ![p].points = @ \cup reply]
  /\ UNCHANGED market

UpsertPoints(p) ==
  /\ At(p, "points")
  /\ UpsertPriceHistoryPoints({Marked(q, "CLOB_REST", run[p].gap) : q \in run[p].points})
  /\ run' = [run EXCEPT ![p].stage = "books"]
  /\ UNCHANGED market

\* On to the next book of the chunk, the next chunk, the latest rows.
AfterBook(r) ==
  IF r.todo # {} THEN [r EXCEPT !.stage = "snapshots"]
  ELSE IF r.chunk >= ChunkCount(BookChunkSize) THEN [r EXCEPT !.stage = "best"]
  ELSE [r EXCEPT !.stage = "books", !.chunk = @ + 1]

FetchBooks(p) ==
  LET reply == FetchOrderBooks(ChunkTokens(run[p].chunk, BookChunkSize)) IN
  /\ At(p, "books")
  /\ InsertRawRestPayload(Payload("/books", reply, run[p].gap))
  /\ run' = [run EXCEPT ![p] = AfterBook([@ EXCEPT !.todo = reply])]
  /\ UNCHANGED market

\* A book of the chunk is stored, and kept for the latest rows.
Stored(r, q) == [r EXCEPT !.todo = @ \ {q}, !.books = @ \cup {q}]

\* The loop over the books of a chunk, in the order of the reply.
InsertSnapshot(p) ==
  /\ At(p, "snapshots")
  /\ \E q \in run[p].todo :
       /\ InsertBookSnapshot(Marked(q, "CLOB_REST", run[p].gap))
       /\ run' = [run EXCEPT ![p] = AfterBook(Stored(@, q))]
  /\ UNCHANGED market

TokensOf(posts) == {q.token : q \in posts}
PostOf(posts, t) == CHOOSE q \in posts : q.token = t

\* The best_bid_ask rows carry the source Normalized.
UpsertBest(p) ==
  LET books == {q \in run[p].books : HasBest(q)} IN
  /\ At(p, "best")
  /\ UpsertBestBidAsk(TokensOf(books),
       [t \in TokensOf(books) |->
          BestBidAskRow(PostOf(books, t), "Normalized", run[p].gap)])
  /\ run' = [run EXCEPT ![p].stage = "trades"]
  /\ UNCHANGED market

UpsertTrades(p) ==
  LET books == {q \in run[p].books : q.trade # NoPrice} IN
  /\ At(p, "trades")
  /\ UpsertLastTrades(TokensOf(books),
       [t \in TokensOf(books) |->
          LastTradeRow(PostOf(books, t), "CLOB_REST", run[p].gap)])
  /\ run' = [run EXCEPT ![p] = IdleRun]
  /\ UNCHANGED market

BackfillStep(p) ==
  \/ UpsertReference(p) \/ FetchHistory(p) \/ UpsertPoints(p)
  \/ FetchBooks(p) \/ InsertSnapshot(p)
  \/ UpsertBest(p) \/ UpsertTrades(p)

=============================================================================
