----------------------------- MODULE CollectorProofs -----------------------------
(***************************************************************************)
(* What the collection of market data never gets wrong, for every set of   *)
(* tokens and books, every universe and chunk size, and any number of      *)
(* failures, kills and restarts of the collector and of the backfill       *)
(* command beside it.                                                      *)
(*                                                                         *)
(* None of it is inductive alone, because a row is written some steps      *)
(* after what it is made of was received.  CollectorInv adds                *)
(*   Shown: everything received, stored or on its way was once shown by    *)
(*     the exchange;                                                       *)
(*   Held: what a process holds in its local state is in a raw row         *)
(*     already, and a process that repairs a gap finds the interval of     *)
(*     each of its tokens on record;                                       *)
(*   Spans: a session is named by the time it started.                     *)
(* RowsStep then says once, for every step, what new rows are made of.     *)
(***************************************************************************)
EXTENDS RealtimeCollector, TLAPS

Shown ==
  /\ \A t \in Tokens : quote[t] # NoBook => quote[t] \in past /\ quote[t].token = t
  /\ \A q \in past : HasBestPrices(q)
  /\ \A i \in DOMAIN inbox : inbox[i].posts \subseteq past
  /\ session.message.posts \subseteq past
  /\ \A r \in payloads : r.posts \subseteq past
  /\ \A e \in events : e.message.posts \subseteq past

Explained(t) == \E i \in intervals : t \in i.tokens

HeldBy(r) == r.points \cup r.todo \cup r.books

\* A post that was received in a reply of a run with this mark.
Replied(q, gap) ==
  /\ q.token \in UniverseTokens
  /\ \E r \in payloads : q \in r.posts /\ r.gap = gap

Held ==
  /\ \A p \in Processes :
       /\ \A q \in HeldBy(run[p]) : Replied(q, run[p].gap)
       /\ run[p].gap => \A t \in UniverseTokens : Explained(t)
  /\ session.stage \in {"normalize", "best"} => \E e \in events : e.message = session.message

Spans ==
  /\ session.started = session.connection /\ session.connection <= clock
  /\ \A e \in events : e.connection <= e.received
  /\ \A i \in intervals : i.started = i.connection

CollectorInv == TypeOK /\ Shown /\ Held /\ Spans

-----------------------------------------------------------------------------
(***************************************************************************)
(* Types of what the operators build.                                      *)
(***************************************************************************)
LEMMA UniverseType == UniverseTokens \subseteq Tokens
  BY UniverseAssumption DEF UniverseTokens

\* A chunk of the universe holds tokens of the universe.
LEMMA ChunkType ==
  ASSUME NEW i, NEW size
  PROVE  ChunkTokens(i, size) \subseteq UniverseTokens
  BY DEF ChunkTokens, UniverseTokens

\* What a market posts is a post of its token with its best prices.
LEMMA PostedType ==
  ASSUME clock \in Nat, NEW t \in Tokens, NEW b \in Books[t]
  PROVE  /\ Posted(t, clock + 1, b) \in Posts
         /\ HasBestPrices(Posted(t, clock + 1, b))
         /\ Posted(t, clock + 1, b).token = t
<1>1. b \in OrderBooks /\ HasBestPrices(b)
  BY BooksAssumption
<1> QED
  BY <1>1 DEF Posted, Posts, OrderBooks, HasBestPrices

\* The state of the market is a set of posts.
LEMMA NowType ==
  ASSUME TypeOK, NEW tokens \in SUBSET Tokens
  PROVE  Now(tokens) \subseteq Posts
  BY DEF TypeOK, Now

\* What the market shows now has been posted, by the tokens asked for.
LEMMA NowShown ==
  ASSUME Shown, NEW tokens \in SUBSET Tokens
  PROVE  Now(tokens) \subseteq past /\ \A q \in Now(tokens) : q.token \in tokens
  BY DEF Shown, Now

\* A price history holds what those tokens posted.
LEMMA HistoryShown ==
  ASSUME NEW tokens, NEW from, NEW to
  PROVE  /\ FetchPricesHistory(tokens, from, to) \subseteq past
         /\ \A q \in FetchPricesHistory(tokens, from, to) : q.token \in tokens
  BY DEF FetchPricesHistory

\* The end of a book changes nothing a backfill holds.
LEMMA AfterBookKeeps ==
  ASSUME NEW r \in Runs
  PROVE  /\ AfterBook(r) \in Runs /\ AfterBook(r).gap = r.gap
         /\ HeldBy(AfterBook(r)) = HeldBy(r)
<1>1. AfterBook(r) \in {[r EXCEPT !.stage = "snapshots"], [r EXCEPT !.stage = "best"],
                        [r EXCEPT !.stage = "books", !.chunk = @ + 1]}
  BY DEF AfterBook
<1>2. \A s \in Stages, c \in Nat :
        LET n == [r EXCEPT !.stage = s, !.chunk = c] IN
        /\ n \in Runs /\ n.gap = r.gap
        /\ n.points = r.points /\ n.todo = r.todo /\ n.books = r.books
  BY DEF Runs
<1>3. \A s \in Stages : [r EXCEPT !.stage = s] = [r EXCEPT !.stage = s, !.chunk = r.chunk]
  BY DEF Runs
<1>4. \E s \in Stages, c \in Nat : AfterBook(r) = [r EXCEPT !.stage = s, !.chunk = c]
  <2>1. r.chunk \in Nat /\ r.chunk + 1 \in Nat
    BY DEF Runs
  <2>2. {"snapshots", "best", "books"} \subseteq Stages
    BY DEF Stages
  <2> QED
    BY <1>1, <1>3, <2>1, <2>2
<1>5. PICK s \in Stages, c \in Nat : AfterBook(r) = [r EXCEPT !.stage = s, !.chunk = c]
  BY <1>4
<1> DEFINE n == [r EXCEPT !.stage = s, !.chunk = c]
<1>6. /\ n \in Runs /\ n.gap = r.gap
      /\ n.points = r.points /\ n.todo = r.todo /\ n.books = r.books
  BY <1>2
<1> HIDE DEF n
<1>7. AfterBook(r) = n
  BY <1>5 DEF n
<1> QED
  BY <1>6, <1>7 DEF HeldBy

\* An idle backfill holds nothing.
LEMMA IdleType == IdleRun \in Runs /\ HeldBy(IdleRun) = {} /\ IdleRun.gap = FALSE
  BY DEF IdleRun, Runs, Stages, HeldBy

\* A backfill just called holds nothing yet and knows what it is called for.
LEMMA CalledType ==
  ASSUME NEW gap \in BOOLEAN, NEW from \in Int, NEW to \in Int
  PROVE  /\ CalledRun(gap, from, to) \in Runs /\ HeldBy(CalledRun(gap, from, to)) = {}
         /\ CalledRun(gap, from, to).gap = gap
  BY DEF CalledRun, IdleRun, Runs, Stages, HeldBy

\* A message that was handled is gone, and the connection stays.
LEMMA HandledKeeps ==
  ASSUME session \in Sessions
  PROVE  /\ Handled \in Sessions /\ Handled.started = session.started
         /\ Handled.connection = session.connection
         /\ Handled.stage \notin {"normalize", "best"} /\ Handled.message.posts = {}
<1>1. NoMessage.posts = {}
  BY DEF NoMessage
<1> QED
  BY <1>1 DEF Handled, Sessions, SessionStages, Outcomes

-----------------------------------------------------------------------------
(***************************************************************************)
(* A call of the backfill, step by step: what it holds afterwards was held *)
(* before or is in the payload just stored.                                *)
(***************************************************************************)
\* The raw payload of a step with its posts.
Fetches(p, q) ==
  \E r \in payloads' : q \in r.posts /\ r.gap = run[p].gap

\* A step of a backfill holds what it held or has fetched, and only adds payloads.
LEMMA BackfillHolds ==
  ASSUME TypeOK, Shown, NEW p \in Processes, BackfillStep(p)
  PROVE  /\ run' = [run EXCEPT ![p] = run'[p]] /\ run'[p] \in Runs
         /\ run'[p] = IdleRun \/ run'[p].gap = run[p].gap
         /\ \A q \in HeldBy(run'[p]) :
              q \in HeldBy(run[p]) \/ (q.token \in UniverseTokens /\ Fetches(p, q))
         /\ payloads \subseteq payloads' /\ payloads' \subseteq RawPayloads
         /\ \A r \in payloads' : r.posts \subseteq past
<1> DEFINE Goal ==
      /\ run' = [run EXCEPT ![p] = run'[p]] /\ run'[p] \in Runs
      /\ run'[p] = IdleRun \/ run'[p].gap = run[p].gap
      /\ \A q \in HeldBy(run'[p]) :
           q \in HeldBy(run[p]) \/ (q.token \in UniverseTokens /\ Fetches(p, q))
      /\ payloads \subseteq payloads' /\ payloads' \subseteq RawPayloads
      /\ \A r \in payloads' : r.posts \subseteq past
<1>1. run \in [Processes -> Runs] /\ run[p] \in Runs /\ payloads \subseteq RawPayloads
  BY DEF TypeOK
<1>2. \A r \in payloads : r.posts \subseteq past
  BY DEF Shown
<1>3. past \subseteq Posts
  BY DEF TypeOK
<1>4. CASE UpsertReference(p)
  <2>1. run' = [run EXCEPT ![p].stage = "history"] /\ payloads' = payloads
    BY <1>4 DEF UpsertReference, UpsertReferenceTokens, store
  <2> QED
    BY <1>1, <1>2, <2>1 DEF Runs, Stages, HeldBy
<1>5. CASE FetchHistory(p)
  <2> DEFINE reply == FetchPricesHistory(ChunkTokens(run[p].chunk, HistoryChunkSize),
                                         WindowStart(p), WindowEnd(p))
             last == run[p].chunk >= ChunkCount(HistoryChunkSize)
             next == [run[p] EXCEPT !.stage = IF last THEN "points" ELSE "history",
                        !.chunk = IF last THEN 1 ELSE @ + 1, !.points = @ \cup reply]
  <2>1. reply \subseteq past /\ \A q \in reply : q.token \in UniverseTokens
    BY HistoryShown, ChunkType
  <2> HIDE DEF reply, last
  <2>2. run' = [run EXCEPT ![p] = next]
    BY <1>1, <1>5 DEF FetchHistory, reply, last
  <2>3. payloads' = payloads \cup {Payload("/batch-prices-history", reply, run[p].gap)}
    BY <1>5 DEF FetchHistory, InsertRawRestPayload, reply
  <2>4. next \in Runs /\ next.gap = run[p].gap /\ HeldBy(next) = HeldBy(run[p]) \cup reply
    <3>1. reply \in SUBSET Posts
      BY <1>3, <2>1
    <3>2. (IF last THEN "points" ELSE "history") \in Stages
      BY DEF Stages
    <3>3. (IF last THEN 1 ELSE run[p].chunk + 1) \in Nat
      BY <1>1 DEF Runs
    <3>4. next \in Runs /\ next.gap = run[p].gap
      BY <1>1, <3>1, <3>2, <3>3 DEF Runs
    <3>5. next.points = run[p].points \cup reply /\ next.todo = run[p].todo
          /\ next.books = run[p].books
      BY <1>1 DEF Runs
    <3> HIDE DEF next
    <3> QED
      BY <3>4, <3>5 DEF HeldBy
  <2>5. Payload("/batch-prices-history", reply, run[p].gap) \in RawPayloads
    BY <1>1, <1>3, <2>1 DEF Payload, RawPayloads, Runs
  <2>6. \A q \in reply : Fetches(p, q)
    <3> DEFINE row == Payload("/batch-prices-history", reply, run[p].gap)
    <3>1. row \in payloads' /\ row.posts = reply /\ row.gap = run[p].gap
      BY <2>3 DEF Payload
    <3> QED
      BY <3>1 DEF Fetches
  <2>7. \A r \in payloads' : r.posts \subseteq past
    BY <1>2, <2>1, <2>3 DEF Payload
  <2> HIDE DEF next
  <2>8. run'[p] = next /\ run' = [run EXCEPT ![p] = run'[p]]
    BY <1>1, <2>2
  <2> QED
    BY <1>1, <2>1, <2>3, <2>4, <2>5, <2>6, <2>7, <2>8
<1>6. CASE UpsertPoints(p)
  <2>1. run' = [run EXCEPT ![p].stage = "books"] /\ payloads' = payloads
    BY <1>6 DEF UpsertPoints, UpsertPriceHistoryPoints
  <2> QED
    BY <1>1, <1>2, <2>1 DEF Runs, Stages, HeldBy
<1>7. CASE FetchBooks(p)
  <2> DEFINE tokens == ChunkTokens(run[p].chunk, BookChunkSize)
             reply == FetchOrderBooks(tokens)
             before == [run[p] EXCEPT !.todo = reply]
  <2>1. tokens \subseteq UniverseTokens /\ tokens \in SUBSET Tokens
    BY ChunkType, UniverseType
  <2> HIDE DEF tokens
  <2>2. reply \subseteq past /\ \A q \in reply : q.token \in UniverseTokens
    BY <2>1, NowShown DEF FetchOrderBooks
  <2> HIDE DEF reply
  <2>3. run' = [run EXCEPT ![p] = AfterBook(before)]
    BY <1>1, <1>7 DEF FetchBooks, reply, tokens
  <2>4. payloads' = payloads \cup {Payload("/books", reply, run[p].gap)}
    BY <1>7 DEF FetchBooks, InsertRawRestPayload, reply, tokens
  <2>5. /\ before \in Runs /\ before.gap = run[p].gap
        /\ HeldBy(before) \subseteq HeldBy(run[p]) \cup reply
    BY <1>1, <1>3, <2>2 DEF Runs, HeldBy
  <2>6. Payload("/books", reply, run[p].gap) \in RawPayloads
    BY <1>1, <1>3, <2>2 DEF Payload, RawPayloads, Runs
  <2>7. \A q \in reply : Fetches(p, q)
    <3> DEFINE row == Payload("/books", reply, run[p].gap)
    <3>1. row \in payloads' /\ row.posts = reply /\ row.gap = run[p].gap
      BY <2>4 DEF Payload
    <3> QED
      BY <3>1 DEF Fetches
  <2>8. \A r \in payloads' : r.posts \subseteq past
    BY <1>2, <2>2, <2>4 DEF Payload
  <2> HIDE DEF before
  <2>9. run'[p] = AfterBook(before) /\ run' = [run EXCEPT ![p] = run'[p]]
    BY <1>1, <2>3
  <2> QED
    BY <1>1, <2>2, <2>4, <2>5, <2>6, <2>7, <2>8, <2>9, AfterBookKeeps
<1>8. CASE InsertSnapshot(p)
  <2>1. PICK q \in run[p].todo : run' = [run EXCEPT ![p] = AfterBook(Stored(run[p], q))]
    BY <1>1, <1>8 DEF InsertSnapshot
  <2> DEFINE before == Stored(run[p], q)
  <2>2. before \in Runs /\ before.gap = run[p].gap /\ HeldBy(before) \subseteq HeldBy(run[p])
    BY <1>1 DEF Runs, HeldBy, Stored
  <2>3. payloads' = payloads
    BY <1>8 DEF InsertSnapshot, InsertBookSnapshot
  <2>4. run' = [run EXCEPT ![p] = AfterBook(before)]
    BY <2>1
  <2> HIDE DEF before
  <2>5. run'[p] = AfterBook(before) /\ run' = [run EXCEPT ![p] = run'[p]]
    BY <1>1, <2>4
  <2> QED
    BY <1>1, <1>2, <2>2, <2>3, <2>5, AfterBookKeeps
<1>9. CASE UpsertBest(p)
  <2>1. run' = [run EXCEPT ![p].stage = "trades"] /\ payloads' = payloads
    BY <1>9 DEF UpsertBest, UpsertBestBidAsk
  <2> QED
    BY <1>1, <1>2, <2>1 DEF Runs, Stages, HeldBy
<1>10. CASE UpsertTrades(p)
  <2>1. run' = [run EXCEPT ![p] = IdleRun] /\ payloads' = payloads
    BY <1>10 DEF UpsertTrades, UpsertLastTrades
  <2> QED
    BY <1>1, <1>2, <2>1, IdleType
<1> QED
  BY <1>4, <1>5, <1>6, <1>7, <1>8, <1>9, <1>10 DEF BackfillStep

-----------------------------------------------------------------------------
(***************************************************************************)
(* Every step keeps the invariant.                                         *)
(***************************************************************************)
LEMMA InitCollector == Init => CollectorInv
<1> SUFFICES ASSUME Init PROVE CollectorInv
  OBVIOUS
<1> USE DEF Init, MarketInit, StoreInit
<1>1. OffSession \in Sessions /\ OffSession.message.posts = {}
  BY DEF OffSession, Sessions, SessionStages, Outcomes, NoMessage
<1>2. TypeOK
  BY <1>1, IdleType DEF TypeOK
<1>3. Shown
  BY <1>1 DEF Shown
<1>4. Held
  BY IdleType DEF Held, OffSession
<1>5. Spans
  BY DEF Spans, OffSession
<1> QED
  BY <1>2, <1>3, <1>4, <1>5 DEF CollectorInv

\* The exchange shows a new book.
LEMMA PostBookKeeps ==
  ASSUME CollectorInv, NEW t \in Tokens, NEW b \in Books[t], PostBook(t, b)
  PROVE  CollectorInv'
<1> USE DEF CollectorInv
<1> DEFINE q == Posted(t, clock + 1, b)
<1>1. UNCHANGED <<store, run, session, inbox, starts>>
  BY DEF PostBook
<1>2. /\ clock' = clock + 1 /\ quote' = [quote EXCEPT ![t] = q] /\ past' = past \cup {q}
  BY DEF PostBook, Post
<1>3. clock \in Nat /\ q \in Posts /\ HasBestPrices(q) /\ q.token = t
  BY PostedType DEF TypeOK
<1> HIDE DEF q
<1>4. TypeOK'
  BY <1>1, <1>2, <1>3 DEF TypeOK, store
<1>5. Shown'
  BY <1>1, <1>2, <1>3 DEF Shown, store, TypeOK
<1>6. Held'
  BY <1>1 DEF Held, store, Replied, Explained
<1>7. Spans'
  BY <1>1, <1>2, <1>3 DEF Spans, store, TypeOK, Sessions
<1> QED
  BY <1>4, <1>5, <1>6, <1>7

\* A message of the exchange keeps the invariant.
LEMMA AnnounceKeeps ==
  ASSUME CollectorInv, NEW tokens \in SUBSET Tokens,
         NEW kind \in {"book", "price_change", "best_bid_ask", "last_trade_price",
                       "tick_size_change"},
         Announce(kind, tokens)
  PROVE  CollectorInv'
<1> USE DEF CollectorInv
<1> DEFINE m == Announced(kind, tokens)
<1>1. UNCHANGED <<market, store, run, session, starts>> /\ inbox' = Append(inbox, m)
  BY DEF Announce
<1>2. m \in Events /\ m.posts \subseteq past
  BY NowType, NowShown DEF Announced, Events
<1> HIDE DEF m
<1>3. TypeOK'
  BY <1>1, <1>2 DEF TypeOK, store, market
<1>4. Shown'
  BY <1>1, <1>2 DEF Shown, store, market, TypeOK
<1>5. Held'
  BY <1>1 DEF Held, store, Replied, Explained
<1>6. Spans'
  BY <1>1 DEF Spans, store, market
<1> QED
  BY <1>3, <1>4, <1>5, <1>6

\* The session goes to a stage with no message at hand, and the inbox loses
\* messages: nothing else has to be known of the step.
LEMMA SessionMoves ==
  ASSUME CollectorInv, UNCHANGED <<clock, quote, past, payloads, events, intervals, run>>,
         UNCHANGED <<reference>>, history' \subseteq StoredPosts, snapshots' \subseteq StoredPosts,
         session' \in Sessions, session'.message.posts \subseteq past,
         session'.stage \in {"normalize", "best"} =>
           \E e \in events : e.message = session'.message,
         session'.started = session'.connection, session'.connection <= clock,
         inbox' \in Seq(Events), \A i \in DOMAIN inbox' : inbox'[i].posts \subseteq past,
         starts' \in [Processes -> Nat]
  PROVE  CollectorInv'
<1> USE DEF CollectorInv
<1>1. TypeOK'
  BY DEF TypeOK
<1>2. Shown'
  BY DEF Shown
<1>3. Held'
  BY DEF Held, Replied, Explained
<1>4. Spans'
  BY DEF Spans
<1> QED
  BY <1>1, <1>2, <1>3, <1>4

\* A subscription keeps the invariant.
LEMMA SubscribeKeeps ==
  ASSUME CollectorInv, Subscribe
  PROVE  CollectorInv'
<1> USE DEF CollectorInv
<1>1. /\ session' \in Sessions /\ session'.stage = "receive" /\ session'.message.posts = {}
      /\ session'.started = clock /\ session'.connection = clock
  BY DEF Subscribe, OffSession, Sessions, SessionStages, Outcomes, NoMessage, TypeOK
<1>2. inbox' = <<>> /\ UNCHANGED <<market, store, run>>
  BY DEF Subscribe
<1>3. starts' \in [Processes -> Nat]
  <2>1. starts' = [starts EXCEPT ![Collector] = @ + 1] /\ starts \in [Processes -> Nat]
    BY DEF Subscribe, TypeOK
  <2>2. Collector \in Processes /\ starts[Collector] + 1 \in Nat
    BY <2>1 DEF Processes
  <2> QED
    BY <2>1, <2>2
<1>4. clock <= clock
  BY DEF TypeOK
<1> QED
  BY <1>1, <1>2, <1>3, <1>4, SessionMoves DEF market, store, TypeOK

\* Receiving a message keeps the invariant.
LEMMA ReceiveKeeps ==
  ASSUME CollectorInv, Receive
  PROVE  CollectorInv'
<1> USE DEF CollectorInv
<1> DEFINE m == Head(inbox)
           row == [message |-> m, received |-> clock, connection |-> session.connection]
<1>1. m \in Events /\ m.posts \subseteq past /\ Tail(inbox) \in Seq(Events)
      /\ \A i \in DOMAIN Tail(inbox) : Tail(inbox)[i].posts \subseteq past
  BY DEF Receive, TypeOK, Shown
<1>2. session \in Sessions /\ clock \in Nat
  BY DEF TypeOK
<1>3. events' = events \cup {row} /\ UNCHANGED <<market, run, starts>>
      /\ UNCHANGED <<reference, payloads, intervals, history, snapshots, bestBidAsk, lastTrades>>
  BY DEF Receive, InsertRawWsEvent
<1>4. /\ session' = [session EXCEPT !.stage = "normalize", !.message = m, !.count = @ + 1]
      /\ inbox' = Tail(inbox)
  BY DEF Receive
<1>5. row \in RawEvents /\ row.message = m /\ row.received = clock
      /\ row.connection = session.connection
  BY <1>1, <1>2 DEF RawEvents, Sessions
<1> HIDE DEF m, row
<1>6. session' \in Sessions /\ session'.message = m /\ session'.started = session.started
      /\ session'.connection = session.connection
  <2>1. m \in Events \cup {NoMessage} /\ "normalize" \in SessionStages
    BY <1>1 DEF SessionStages
  <2>2. session.count + 1 \in Nat
    BY <1>2 DEF Sessions
  <2> QED
    BY <1>2, <1>4, <2>1, <2>2 DEF Sessions
<1>7. TypeOK'
  BY <1>1, <1>3, <1>4, <1>5, <1>6 DEF TypeOK, market
<1>8. Shown'
  BY <1>1, <1>3, <1>4, <1>5, <1>6 DEF Shown, market
<1>9. Held'
  BY <1>3, <1>5, <1>6 DEF Held, Replied, Explained
<1>10. Spans'
  BY <1>3, <1>5, <1>6 DEF Spans, market
<1> QED
  BY <1>7, <1>8, <1>9, <1>10

\* The posts of the message at hand that are about subscribed tokens.
LEMMA KnownType ==
  ASSUME CollectorInv
  PROVE  /\ KnownPosts \subseteq Posts /\ KnownPosts \subseteq past
         /\ \A q \in KnownPosts : q.token \in UniverseTokens
<1>1. session.message.posts \subseteq past /\ past \subseteq Posts
  BY DEF CollectorInv, TypeOK, Shown
<1> QED
  BY <1>1 DEF KnownPosts

\* Normalizing a message keeps the invariant.
LEMMA NormalizeKeeps ==
  ASSUME CollectorInv, Normalize \/ NormalizeBest
  PROVE  CollectorInv'
<1> USE DEF CollectorInv
<1>1. session.stage \in {"normalize", "best"} /\ UNCHANGED <<market, run, inbox, starts>>
  BY DEF Normalize, NormalizeBest
<1>2. session' \in {Handled, [session EXCEPT !.stage = "best"]}
  BY DEF Normalize, NormalizeBest, NormalizeBook, NormalizeQuotes, NormalizeLastTrade, KeepRawOnly
<1>3. session \in Sessions
  BY DEF TypeOK
<1>4. [session EXCEPT !.stage = "best"] \in Sessions
  BY <1>3 DEF Sessions, SessionStages
<1>5. /\ session' \in Sessions /\ session'.started = session.started
      /\ session'.connection = session.connection
      /\ session'.message.posts \subseteq session.message.posts
      /\ session'.stage \in {"normalize", "best"} => session'.message = session.message
  <2>1. CASE session' = Handled
    BY <1>3, <2>1, HandledKeeps
  <2>2. CASE session' = [session EXCEPT !.stage = "best"]
    BY <1>3, <1>4, <2>2 DEF Sessions
  <2> QED
    BY <1>2, <2>1, <2>2
<1>6. /\ UNCHANGED <<reference, events, payloads, intervals, history>>
      /\ snapshots' \subseteq StoredPosts
  <2>1. CASE Normalize /\ NormalizeBook
    <3>1. PICK q \in KnownPosts : InsertBookSnapshot(Marked(q, "CLOB_WS", FALSE))
      BY <2>1 DEF NormalizeBook
    <3>2. Marked(q, "CLOB_WS", FALSE) \in StoredPosts
      BY KnownType DEF Marked, StoredPosts, Sources
    <3> QED
      BY <3>1, <3>2 DEF InsertBookSnapshot, TypeOK
  <2>2. CASE (Normalize /\ NormalizeQuotes) \/ NormalizeBest
    BY <2>2 DEF NormalizeQuotes, NormalizeBest, UpsertQuotes, UpsertBestBidAsk, TypeOK
  <2>3. CASE Normalize /\ NormalizeLastTrade
    BY <2>3 DEF NormalizeLastTrade, UpsertLastTrades, TypeOK
  <2>4. CASE Normalize /\ KeepRawOnly
    BY <2>4 DEF KeepRawOnly, store, TypeOK
  <2> QED
    BY <2>1, <2>2, <2>3, <2>4 DEF Normalize
<1>7. session'.stage \in {"normalize", "best"} => \E e \in events : e.message = session'.message
  BY <1>1, <1>5 DEF Held
<1>8. session'.started = session'.connection /\ session'.connection <= clock
  BY <1>5 DEF Spans
<1>9. session'.message.posts \subseteq past /\ history' \subseteq StoredPosts
      /\ inbox' \in Seq(Events) /\ (\A i \in DOMAIN inbox' : inbox'[i].posts \subseteq past)
      /\ starts' \in [Processes -> Nat]
  BY <1>1, <1>5, <1>6 DEF Shown, TypeOK
<1> QED
  BY <1>1, <1>5, <1>6, <1>7, <1>8, <1>9, SessionMoves DEF market

\* Close and Fail end the listening with no message at hand.
LEMMA StopKeeps ==
  ASSUME CollectorInv, Close \/ Fail
  PROVE  CollectorInv'
<1> USE DEF CollectorInv
<1>1. session \in Sessions /\ clock \in Nat /\ NoMessage.posts = {}
  BY DEF TypeOK, NoMessage
<1>2. UNCHANGED <<market, store, run, starts>> /\ inbox' \in {inbox, <<>>}
  BY DEF Close, Fail
<1>3. /\ session' \in Sessions /\ session'.started = session.started
      /\ session'.connection = session.connection
      /\ session'.message \in {session.message, NoMessage}
      /\ session'.stage \notin {"normalize", "best"}
  BY <1>1 DEF Close, Fail, Sessions, SessionStages, Outcomes
<1>4. /\ inbox' \in Seq(Events) /\ \A i \in DOMAIN inbox' : inbox'[i].posts \subseteq past
      /\ session'.message.posts \subseteq past
      /\ session'.started = session'.connection /\ session'.connection <= clock
  <2>1. <<>> \in Seq(Events) /\ DOMAIN <<>> = {}
    OBVIOUS
  <2>2. inbox' \in Seq(Events) /\ \A i \in DOMAIN inbox' : inbox'[i].posts \subseteq past
    BY <1>2, <2>1 DEF TypeOK, Shown
  <2>3. session'.message.posts \subseteq past
    BY <1>1, <1>3 DEF Shown
  <2> QED
    BY <1>3, <2>2, <2>3 DEF Spans
<1> QED
  BY <1>2, <1>3, <1>4, SessionMoves DEF market, store, TypeOK

\* Recording a gap keeps the invariant.
LEMMA RecordGapKeeps ==
  ASSUME CollectorInv, RecordGap
  PROVE  CollectorInv'
<1> USE DEF CollectorInv
<1> DEFINE row == [tokens |-> UniverseTokens, started |-> session.started,
                   ended |-> session.ended, connection |-> session.connection]
           called == CalledRun(TRUE, session.ended - RecentHistory, session.ended)
<1>1. session \in Sessions /\ session.ended \in Nat /\ run \in [Processes -> Runs]
  BY DEF TypeOK, Sessions
<1>2. intervals' = intervals \cup {row} /\ UNCHANGED <<market, inbox, starts>>
      /\ UNCHANGED <<reference, events, payloads, history, snapshots, bestBidAsk, lastTrades>>
  BY DEF RecordGap, RecordGapInterval
<1>3. session' = [session EXCEPT !.stage = "repair"] /\ run' = [run EXCEPT ![Collector] = called]
  BY DEF RecordGap
<1>4. row \in GapIntervals /\ row.started = session.started
      /\ row.connection = session.connection /\ row.tokens = UniverseTokens
  BY <1>1, UniverseType DEF GapIntervals, Sessions
<1>5. called \in Runs /\ HeldBy(called) = {}
  <2>1. session.ended - RecentHistory \in Int /\ session.ended \in Int
    BY <1>1, CollectorAssumption
  <2> QED
    BY <2>1, CalledType
<1>6. session' \in Sessions /\ session'.started = session.started
      /\ session'.connection = session.connection /\ session'.message = session.message
      /\ session'.stage = "repair"
  BY <1>1, <1>3 DEF Sessions, SessionStages
<1> HIDE DEF row, called
<1>7. TypeOK'
  BY <1>2, <1>3, <1>4, <1>5, <1>6 DEF TypeOK, market
<1>8. Shown'
  BY <1>2, <1>6 DEF Shown, market
<1>9. Held'
  <2>1. \A t \in UniverseTokens : Explained(t)'
    BY <1>2, <1>4 DEF Explained
  <2>2. \A p \in Processes : (p = Collector /\ run'[p] = called) \/ run'[p] = run[p]
    BY <1>1, <1>3
  <2>3. \A p \in Processes : \A q \in HeldBy(run'[p]) : Replied(q, run[p].gap)'
    BY <1>2, <1>5, <2>2 DEF Held, Replied
  <2> QED
    BY <1>6, <2>1, <2>3 DEF Held
<1>10. Spans'
  BY <1>2, <1>4, <1>6 DEF Spans, market
<1> QED
  BY <1>7, <1>8, <1>9, <1>10

\* What a step of a backfill leaves alone, and the types of its rows.
LEMMA BackfillStores ==
  ASSUME CollectorInv, NEW p \in Processes, BackfillStep(p)
  PROVE  /\ UNCHANGED <<market, events, intervals>>
         /\ history' \subseteq StoredPosts /\ snapshots' \subseteq StoredPosts
         /\ reference' \in [Tokens -> {NoRow, "gap_fill", "top_n"}]
<1> USE DEF CollectorInv
<1>1. run[p] \in Runs
  BY DEF TypeOK
<1>2. \A q \in HeldBy(run[p]) : Marked(q, "CLOB_REST", run[p].gap) \in StoredPosts
  BY <1>1 DEF Marked, StoredPosts, Sources, HeldBy, Runs
<1>3. CASE UpsertReference(p)
  BY <1>3 DEF UpsertReference, UpsertReferenceTokens, store, TypeOK, Upserted, SelectionReason
<1>4. CASE FetchHistory(p) \/ FetchBooks(p)
  BY <1>4 DEF FetchHistory, FetchBooks, InsertRawRestPayload, TypeOK
<1>5. CASE UpsertPoints(p)
  BY <1>2, <1>5 DEF UpsertPoints, UpsertPriceHistoryPoints, TypeOK, HeldBy
<1>6. CASE InsertSnapshot(p)
  BY <1>2, <1>6 DEF InsertSnapshot, InsertBookSnapshot, TypeOK, HeldBy
<1>7. CASE UpsertBest(p) \/ UpsertTrades(p)
  BY <1>7 DEF UpsertBest, UpsertTrades, UpsertBestBidAsk, UpsertLastTrades, TypeOK
<1> QED
  BY <1>3, <1>4, <1>5, <1>6, <1>7 DEF BackfillStep

\* A step of a backfill, by the collector or another process, keeps the invariant.
LEMMA BackfillKeeps ==
  ASSUME CollectorInv, NEW p \in Processes, BackfillStep(p), UNCHANGED <<inbox, starts>>,
         session' \in {session, [session EXCEPT !.stage = "ended", !.outcome = "repaired"]}
  PROVE  CollectorInv'
<1> USE DEF CollectorInv
<1>1. UNCHANGED <<clock, quote, past, events, intervals>>
  BY BackfillStores DEF market
<1>2. /\ session' \in Sessions /\ session'.started = session.started
      /\ session'.connection = session.connection /\ session'.message = session.message
      /\ session'.stage \in {"normalize", "best"} => session'.stage = session.stage
  BY DEF TypeOK, Sessions, SessionStages, Outcomes
<1>3. run \in [Processes -> Runs] /\ run' = [run EXCEPT ![p] = run'[p]] /\ run'[p] \in Runs
  BY BackfillHolds DEF TypeOK
<1>4. TypeOK'
  BY <1>1, <1>2, <1>3, BackfillHolds, BackfillStores DEF TypeOK
<1>5. Shown'
  BY <1>1, <1>2, BackfillHolds DEF Shown
<1>6. \A x \in Processes : x = p \/ run'[x] = run[x]
  BY <1>3
<1>7. \A x \in Processes : run'[x].gap => run[x].gap
  BY <1>6, BackfillHolds, IdleType
<1>8. \A x \in Processes : \A q \in HeldBy(run'[x]) : Replied(q, run[x].gap)'
  <2>1. ASSUME NEW q \in HeldBy(run'[p]) PROVE Replied(q, run[p].gap)'
    <3>1. run'[p].gap = run[p].gap
      <4>1. run'[p] # IdleRun
        BY <2>1, IdleType
      <4>2. run'[p] = IdleRun \/ run'[p].gap = run[p].gap
        BY BackfillHolds
      <4> QED
        BY <4>1, <4>2
    <3>2. CASE q \in HeldBy(run[p])
      <4>1. Replied(q, run[p].gap)
        BY <3>2 DEF Held
      <4>2. payloads \subseteq payloads'
        BY BackfillHolds
      <4> QED
        BY <3>1, <4>1, <4>2 DEF Replied
    <3>3. CASE q.token \in UniverseTokens /\ Fetches(p, q)
      BY <3>1, <3>3 DEF Replied, Fetches
    <3> QED
      BY <3>2, <3>3, BackfillHolds
  <2>2. ASSUME NEW x \in Processes, x # p, NEW q \in HeldBy(run'[x])
        PROVE  Replied(q, run[x].gap)'
    BY <1>6, <2>2, BackfillHolds DEF Held, Replied
  <2> QED
    BY <2>1, <2>2
<1>9. Held'
  BY <1>1, <1>2, <1>7, <1>8 DEF Held, Explained
<1>10. Spans'
  BY <1>1, <1>2 DEF Spans
<1> QED
  BY <1>4, <1>5, <1>9, <1>10

\* A process is called or dies: it holds nothing afterwards.
LEMMA RunReplaced ==
  ASSUME CollectorInv, NEW p \in Processes, NEW r \in Runs, HeldBy(r) = {}, ~r.gap,
         run' = [run EXCEPT ![p] = r], UNCHANGED <<market, store>>,
         session' = session \/ session' = [session EXCEPT !.stage = "ended", !.message = NoMessage],
         inbox' = inbox \/ inbox' = <<>>, starts' \in [Processes -> Nat]
  PROVE  CollectorInv'
<1> USE DEF CollectorInv
<1>1. /\ session' \in Sessions /\ session'.started = session.started
      /\ session'.connection = session.connection
      /\ session'.message \in {session.message, NoMessage}
      /\ session'.stage \in {"normalize", "best"} => session' = session
  BY DEF TypeOK, Sessions, SessionStages
<1>2. inbox' \in Seq(Events) /\ \A i \in DOMAIN inbox' : inbox'[i].posts \subseteq past
  <2>1. <<>> \in Seq(Events) /\ DOMAIN <<>> = {}
    OBVIOUS
  <2> QED
    BY <2>1 DEF TypeOK, Shown
<1>3. \A x \in Processes : (x = p /\ run'[x] = r) \/ run'[x] = run[x]
  BY DEF TypeOK
<1>4. TypeOK'
  BY <1>1, <1>2 DEF TypeOK, market, store
<1>5. Shown'
  BY <1>1, <1>2 DEF Shown, market, store, NoMessage
<1>6. \A x \in Processes :
        /\ \A q \in HeldBy(run'[x]) : Replied(q, run[x].gap)'
        /\ run'[x].gap => \A t \in UniverseTokens : Explained(t)'
  <2>1. ASSUME NEW x \in Processes, run'[x] = r
        PROVE  HeldBy(run'[x]) = {} /\ ~run'[x].gap
    BY <2>1
  <2>2. ASSUME NEW x \in Processes, run'[x] = run[x]
        PROVE  /\ \A q \in HeldBy(run'[x]) : Replied(q, run[x].gap)'
               /\ run'[x].gap => \A t \in UniverseTokens : Explained(t)'
    <3>1. payloads' = payloads /\ intervals' = intervals
      BY DEF store
    <3>2. /\ \A q \in HeldBy(run[x]) : Replied(q, run[x].gap)
          /\ run[x].gap => \A t \in UniverseTokens : Explained(t)
      BY DEF Held
    <3>3. \A q : Replied(q, run[x].gap) => Replied(q, run[x].gap)'
      BY <2>2, <3>1 DEF Replied
    <3>4. \A t : Explained(t)' <=> Explained(t)
      BY <3>1 DEF Explained
    <3> QED
      BY <2>2, <3>2, <3>3, <3>4
  <2> QED
    BY <1>3, <2>1, <2>2
<1>7. Held'
  BY <1>1, <1>6 DEF Held, store
<1>8. Spans'
  BY <1>1 DEF Spans, market, store
<1> QED
  BY <1>4, <1>5, <1>7, <1>8

\* Every step of the collector and the markets keeps the invariant.
LEMMA NextCollector == CollectorInv /\ [Next]_vars => CollectorInv'
<1> SUFFICES ASSUME CollectorInv, [Next]_vars PROVE CollectorInv'
  OBVIOUS
<1>1. Collector \in Processes /\ Backfiller \in Processes
  BY DEF Processes
<1>2. CASE Exchange
  BY <1>2, PostBookKeeps, AnnounceKeeps DEF Exchange
<1>3. CASE Close \/ Fail
  BY <1>3, StopKeeps
<1>4. CASE CollectorDies
  BY <1>1, <1>4, IdleType, RunReplaced DEF CollectorDies, CollectorInv, TypeOK
<1>5. CASE BackfillDies
  BY <1>1, <1>5, IdleType, RunReplaced DEF BackfillDies, CollectorInv, TypeOK
<1>6. CASE Subscribe \/ Receive \/ Normalize \/ NormalizeBest \/ RecordGap
  BY <1>6, SubscribeKeeps, ReceiveKeeps, NormalizeKeeps, RecordGapKeeps
<1>7. CASE Repair
  BY <1>1, <1>7, BackfillKeeps DEF Repair
<1>8. CASE StartBackfill
  <2>1. CalledRun(FALSE, 0, 0) \in Runs /\ HeldBy(CalledRun(FALSE, 0, 0)) = {}
        /\ ~CalledRun(FALSE, 0, 0).gap
    <3>1. 0 \in Int
      OBVIOUS
    <3> QED
      BY <3>1, CalledType
  <2>2. starts' \in [Processes -> Nat]
    <3>1. starts[Backfiller] + 1 \in Nat /\ starts \in [Processes -> Nat]
      BY <1>1 DEF CollectorInv, TypeOK
    <3> QED
      BY <1>8, <3>1 DEF StartBackfill
  <2> QED
    BY <1>1, <1>8, <2>1, <2>2, RunReplaced DEF StartBackfill
<1>9. CASE Backfill
  BY <1>1, <1>9, BackfillKeeps DEF Backfill
<1>10. CASE UNCHANGED vars
  BY <1>10 DEF CollectorInv, vars, market, store, TypeOK, Shown, Held, Spans, Replied, Explained
<1> QED
  BY <1>2, <1>3, <1>4, <1>5, <1>6, <1>7, <1>8, <1>9, <1>10 DEF Next, Faults

-----------------------------------------------------------------------------
(***************************************************************************)
(* What new rows are made of.                                              *)
(***************************************************************************)
RowSources == {"CLOB_WS", "CLOB_REST", "Normalized"}

\* A post from which a row may be made: it was shown, it is in a raw row, and
\* its token is explained where the row is marked.
Sound(q, source, gap) ==
  /\ q \in past /\ InRaw(q, source, gap)
  /\ gap => Explained(q.token)

\* Rows appear only as the copy of a sound post, or its best prices or trade.
NewRows ==
  /\ \A row \in history' \cup snapshots' :
       row \in history \cup snapshots \/ Sound(row.post, row.source, row.gap)
  /\ \A t \in Tokens :
       \/ bestBidAsk'[t] = bestBidAsk[t]
       \/ \E q \in past, source \in RowSources, gap \in BOOLEAN :
            q.token = t /\ Sound(q, source, gap)
              /\ bestBidAsk'[t] = BestBidAskRow(q, source, gap)
  /\ \A t \in Tokens :
       \/ lastTrades'[t] = lastTrades[t]
       \/ \E q \in past, source \in RowSources, gap \in BOOLEAN :
            q.token = t /\ Sound(q, source, gap)
              /\ lastTrades'[t] = LastTradeRow(q, source, gap)

\* Each token of a batch of posts has one of them.
LEMMA PostOfToken ==
  ASSUME NEW posts, NEW t \in TokensOf(posts)
  PROVE  PostOf(posts, t) \in posts /\ PostOf(posts, t).token = t
  BY DEF PostOf, TokensOf

\* What a backfill holds is sound under either of its sources.
LEMMA HeldSound ==
  ASSUME CollectorInv, NEW p \in Processes, NEW q \in HeldBy(run[p]),
         NEW source \in {"CLOB_REST", "Normalized"}
  PROVE  Sound(q, source, run[p].gap)
<1>1. Replied(q, run[p].gap)
  BY DEF CollectorInv, Held
<1>2. PICK r \in payloads : q \in r.posts /\ r.gap = run[p].gap
  BY <1>1 DEF Replied
<1>3. q \in past
  BY <1>2 DEF CollectorInv, Shown
<1>4. InRaw(q, source, run[p].gap)
  BY <1>2 DEF InRaw
<1>5. run[p].gap => Explained(q.token)
  BY <1>1 DEF CollectorInv, Held, Replied
<1> QED
  BY <1>3, <1>4, <1>5 DEF Sound

\* What a message showed is sound as a row of the stream.
LEMMA KnownSound ==
  ASSUME CollectorInv, session.stage \in {"normalize", "best"}, NEW q \in KnownPosts
  PROVE  Sound(q, "CLOB_WS", FALSE)
<1>1. q \in session.message.posts
  BY DEF KnownPosts
<1>2. PICK e \in events : e.message = session.message
  BY DEF CollectorInv, Held
<1>3. q \in past
  BY KnownType
<1> QED
  BY <1>1, <1>2, <1>3 DEF Sound, InRaw

\* An upsert of the best prices, or of the last trades, of sound posts.
LEMMA UpsertBestSound ==
  ASSUME NEW posts, NEW source \in RowSources, NEW gap \in BOOLEAN,
         \A q \in posts : Sound(q, source, gap),
         UpsertBestBidAsk(TokensOf(posts),
           [t \in TokensOf(posts) |-> BestBidAskRow(PostOf(posts, t), source, gap)])
  PROVE  NewRows
<1>1. UNCHANGED <<history, snapshots, lastTrades>>
  BY DEF UpsertBestBidAsk
<1>2. ASSUME NEW t \in Tokens, t \notin TokensOf(posts)
      PROVE  bestBidAsk'[t] = bestBidAsk[t]
  BY <1>2 DEF UpsertBestBidAsk, Upserted
<1>3. ASSUME NEW t \in Tokens, t \in TokensOf(posts)
      PROVE  \E q \in past, s \in RowSources, g \in BOOLEAN :
               q.token = t /\ Sound(q, s, g) /\ bestBidAsk'[t] = BestBidAskRow(q, s, g)
  <2> DEFINE q == PostOf(posts, t)
  <2>1. q \in posts /\ q.token = t
    BY <1>3, PostOfToken
  <2>2. bestBidAsk'[t] = BestBidAskRow(q, source, gap)
    BY <1>3 DEF UpsertBestBidAsk, Upserted
  <2> HIDE DEF q
  <2>3. Sound(q, source, gap) /\ q \in past
    BY <2>1 DEF Sound
  <2> QED
    BY <2>1, <2>2, <2>3
<1> QED
  BY <1>1, <1>2, <1>3 DEF NewRows

\* Upserting last trades from sound posts writes only sound rows.
LEMMA UpsertTradeSound ==
  ASSUME NEW posts, NEW source \in RowSources, NEW gap \in BOOLEAN,
         \A q \in posts : Sound(q, source, gap),
         UpsertLastTrades(TokensOf(posts),
           [t \in TokensOf(posts) |-> LastTradeRow(PostOf(posts, t), source, gap)])
  PROVE  NewRows
<1>1. UNCHANGED <<history, snapshots, bestBidAsk>>
  BY DEF UpsertLastTrades
<1>2. ASSUME NEW t \in Tokens, t \notin TokensOf(posts)
      PROVE  lastTrades'[t] = lastTrades[t]
  BY <1>2 DEF UpsertLastTrades, Upserted
<1>3. ASSUME NEW t \in Tokens, t \in TokensOf(posts)
      PROVE  \E q \in past, s \in RowSources, g \in BOOLEAN :
               q.token = t /\ Sound(q, s, g) /\ lastTrades'[t] = LastTradeRow(q, s, g)
  <2> DEFINE q == PostOf(posts, t)
  <2>1. q \in posts /\ q.token = t
    BY <1>3, PostOfToken
  <2>2. lastTrades'[t] = LastTradeRow(q, source, gap)
    BY <1>3 DEF UpsertLastTrades, Upserted
  <2> HIDE DEF q
  <2>3. Sound(q, source, gap) /\ q \in past
    BY <2>1 DEF Sound
  <2> QED
    BY <2>1, <2>2, <2>3
<1> QED
  BY <1>1, <1>2, <1>3 DEF NewRows

\* A step that writes no row writes no unsound one.
LEMMA SameRows ==
  ASSUME UNCHANGED <<history, snapshots, bestBidAsk, lastTrades>>
  PROVE  NewRows
  BY DEF NewRows

\* A step of a backfill writes only sound rows.
LEMMA BackfillRows ==
  ASSUME CollectorInv, NEW p \in Processes, BackfillStep(p)
  PROVE  NewRows
<1>1. run[p].gap \in BOOLEAN /\ "CLOB_REST" \in RowSources /\ "Normalized" \in RowSources
  BY DEF CollectorInv, TypeOK, Runs, RowSources
<1>2. CASE UpsertReference(p) \/ FetchHistory(p) \/ FetchBooks(p)
  <2>1. UNCHANGED <<history, snapshots, bestBidAsk, lastTrades>>
    BY <1>2 DEF UpsertReference, UpsertReferenceTokens, FetchHistory, FetchBooks,
                InsertRawRestPayload, store
  <2> QED
    BY <2>1, SameRows
<1>3. CASE UpsertPoints(p)
  <2>1. /\ history' = history \cup {Marked(q, "CLOB_REST", run[p].gap) : q \in run[p].points}
        /\ UNCHANGED <<snapshots, bestBidAsk, lastTrades>>
    BY <1>3 DEF UpsertPoints, UpsertPriceHistoryPoints
  <2>2. \A q \in run[p].points :
          LET row == Marked(q, "CLOB_REST", run[p].gap) IN Sound(row.post, row.source, row.gap)
    BY HeldSound DEF HeldBy, Marked
  <2> QED
    BY <2>1, <2>2 DEF NewRows
<1>4. CASE InsertSnapshot(p)
  <2>1. PICK q \in run[p].todo : InsertBookSnapshot(Marked(q, "CLOB_REST", run[p].gap))
    BY <1>4 DEF InsertSnapshot
  <2>2. Sound(q, "CLOB_REST", run[p].gap)
    BY HeldSound DEF HeldBy
  <2> QED
    BY <2>1, <2>2 DEF NewRows, InsertBookSnapshot, Marked
<1>5. CASE UpsertBest(p)
  <2> DEFINE books == {q \in run[p].books : HasBest(q)}
  <2>1. \A q \in books : Sound(q, "Normalized", run[p].gap)
    BY HeldSound DEF HeldBy
  <2>2. UpsertBestBidAsk(TokensOf(books),
          [t \in TokensOf(books) |->
             BestBidAskRow(PostOf(books, t), "Normalized", run[p].gap)])
    BY <1>5 DEF UpsertBest
  <2> HIDE DEF books
  <2> QED
    BY <1>1, <2>1, <2>2, UpsertBestSound
<1>6. CASE UpsertTrades(p)
  <2> DEFINE books == {q \in run[p].books : q.trade # NoPrice}
  <2>1. \A q \in books : Sound(q, "CLOB_REST", run[p].gap)
    BY HeldSound DEF HeldBy
  <2>2. UpsertLastTrades(TokensOf(books),
          [t \in TokensOf(books) |->
             LastTradeRow(PostOf(books, t), "CLOB_REST", run[p].gap)])
    BY <1>6 DEF UpsertTrades
  <2> HIDE DEF books
  <2> QED
    BY <1>1, <2>1, <2>2, UpsertTradeSound
<1> QED
  BY <1>2, <1>3, <1>4, <1>5, <1>6 DEF BackfillStep

\* Normalizing a message writes only sound rows.
LEMMA NormalizeRows ==
  ASSUME CollectorInv, Normalize \/ NormalizeBest
  PROVE  NewRows
<1>1. session.stage \in {"normalize", "best"}
  BY DEF Normalize, NormalizeBest
<1>2. \A q \in KnownPosts : Sound(q, "CLOB_WS", FALSE)
  BY <1>1, KnownSound
<1>3. "CLOB_WS" \in RowSources
  BY DEF RowSources
<1>4. CASE Normalize /\ NormalizeBook
  <2>1. PICK q \in KnownPosts : InsertBookSnapshot(Marked(q, "CLOB_WS", FALSE))
    BY <1>4 DEF NormalizeBook
  <2> DEFINE row == Marked(q, "CLOB_WS", FALSE)
  <2>2. Sound(row.post, row.source, row.gap)
    BY <1>2 DEF Marked
  <2> HIDE DEF row
  <2>3. snapshots' = snapshots \cup {row} /\ UNCHANGED <<history, bestBidAsk, lastTrades>>
    BY <2>1 DEF InsertBookSnapshot, row
  <2> QED
    BY <2>2, <2>3 DEF NewRows
<1>5. CASE (Normalize /\ NormalizeQuotes) \/ NormalizeBest
  <2>1. UpsertBestBidAsk(TokensOf(KnownPosts),
          [t \in TokensOf(KnownPosts) |->
             BestBidAskRow(PostOf(KnownPosts, t), "CLOB_WS", FALSE)])
    BY <1>5 DEF NormalizeQuotes, NormalizeBest, UpsertQuotes
  <2> QED
    BY <1>2, <1>3, <2>1, UpsertBestSound
<1>6. CASE Normalize /\ NormalizeLastTrade
  <2> DEFINE traded == {q \in KnownPosts : q.trade # NoPrice}
  <2>1. UpsertLastTrades(TokensOf(traded),
          [t \in TokensOf(traded) |-> LastTradeRow(PostOf(traded, t), "CLOB_WS", FALSE)])
    BY <1>6 DEF NormalizeLastTrade
  <2>2. \A q \in traded : Sound(q, "CLOB_WS", FALSE)
    BY <1>2
  <2> HIDE DEF traded
  <2> QED
    BY <1>3, <2>1, <2>2, UpsertTradeSound
<1>7. CASE Normalize /\ KeepRawOnly
  BY <1>7, SameRows DEF KeepRawOnly, store
<1> QED
  BY <1>4, <1>5, <1>6, <1>7 DEF Normalize

\* Every step: the raw tables and the past only grow, and new rows are sound.
LEMMA RowsStep ==
  ASSUME CollectorInv, [Next]_vars
  PROVE  /\ NewRows /\ past \subseteq past' /\ events \subseteq events'
         /\ payloads \subseteq payloads' /\ intervals \subseteq intervals'
<1> DEFINE Goal == /\ NewRows /\ past \subseteq past' /\ events \subseteq events'
                   /\ payloads \subseteq payloads' /\ intervals \subseteq intervals'
<1>1. Collector \in Processes /\ Backfiller \in Processes
  BY DEF Processes
<1>2. ASSUME NEW t \in Tokens, NEW b \in Books[t], PostBook(t, b) PROVE Goal
  BY <1>2, SameRows DEF PostBook, Post, store
<1>3. ASSUME UNCHANGED <<market, store>> PROVE Goal
  BY <1>3, SameRows DEF market, store
<1>4. CASE Receive
  BY <1>4, SameRows DEF Receive, InsertRawWsEvent, market
<1>5. CASE RecordGap
  BY <1>5, SameRows DEF RecordGap, RecordGapInterval, market
<1>6. CASE Normalize \/ NormalizeBest
  <2>1. UNCHANGED <<past, events, payloads, intervals>>
    BY <1>6 DEF Normalize, NormalizeBest, NormalizeBook, NormalizeQuotes, NormalizeLastTrade,
                KeepRawOnly, InsertBookSnapshot, UpsertQuotes, UpsertBestBidAsk,
                UpsertLastTrades, market, store
  <2> QED
    BY <1>6, <2>1, NormalizeRows
<1>7. ASSUME NEW p \in Processes, BackfillStep(p) PROVE Goal
  BY <1>7, BackfillRows, BackfillHolds, BackfillStores DEF market, CollectorInv
<1>8. CASE Close \/ Fail \/ CollectorDies \/ BackfillDies \/ Subscribe
           \/ StartBackfill \/ UNCHANGED vars
  BY <1>3, <1>8 DEF Close, Fail, CollectorDies, BackfillDies, Subscribe,
                    StartBackfill, vars
<1>9. CASE Exchange
  BY <1>2, <1>3, <1>9 DEF Exchange, Announce
<1>10. CASE Repair \/ Backfill
  BY <1>1, <1>7, <1>10 DEF Repair, Backfill
<1> QED
  BY <1>4, <1>5, <1>6, <1>8, <1>9, <1>10 DEF Next, Faults

-----------------------------------------------------------------------------
(***************************************************************************)
(* The theorems.                                                           *)
(***************************************************************************)
\* Tables, sessions and calls keep their types.
THEOREM CollectorTypeCorrect == Spec => []TypeOK
<1>1. CollectorInv => TypeOK
  BY DEF CollectorInv
<1> QED
  BY InitCollector, NextCollector, <1>1, PTL DEF Spec

-----------------------------------------------------------------------------
BestFrom(t) ==
  \E q \in past, source \in RowSources, gap \in BOOLEAN :
    /\ q.token = t /\ Sound(q, source, gap)
    /\ bestBidAsk[t] = BestBidAskRow(q, source, gap)

TradeFrom(t) ==
  \E q \in past, source \in RowSources, gap \in BOOLEAN :
    /\ q.token = t /\ Sound(q, source, gap)
    /\ lastTrades[t] = LastTradeRow(q, source, gap)

\* Every row is made of a sound post.
RowsInv ==
  /\ \A row \in history \cup snapshots : Sound(row.post, row.source, row.gap)
  /\ \A t \in Tokens : bestBidAsk[t] = NoRow \/ BestFrom(t)
  /\ \A t \in Tokens : lastTrades[t] = NoRow \/ TradeFrom(t)

\* There are no rows at first.
LEMMA InitRows == Init => RowsInv
  BY DEF Init, StoreInit, RowsInv

\* Every step keeps all rows sound.
LEMMA NextRows == CollectorInv /\ RowsInv /\ [Next]_vars => RowsInv'
<1> SUFFICES ASSUME CollectorInv, RowsInv, [Next]_vars PROVE RowsInv'
  OBVIOUS
<1>1. /\ NewRows /\ past \subseteq past' /\ events \subseteq events'
      /\ payloads \subseteq payloads' /\ intervals \subseteq intervals'
  BY RowsStep
<1>2. ASSUME NEW q, NEW source, NEW gap, Sound(q, source, gap)
      PROVE  Sound(q, source, gap)'
  <2>1. InRaw(q, source, gap) => InRaw(q, source, gap)'
    BY <1>1 DEF InRaw
  <2>2. Explained(q.token) => Explained(q.token)'
    BY <1>1 DEF Explained
  <2> QED
    BY <1>1, <1>2, <2>1, <2>2 DEF Sound
<1>3. \A row \in history' \cup snapshots' : Sound(row.post, row.source, row.gap)'
  <2>1. \A row \in history' \cup snapshots' : Sound(row.post, row.source, row.gap)
    BY <1>1 DEF NewRows, RowsInv
  <2> QED
    BY <1>2, <2>1
<1>4. ASSUME NEW t \in Tokens PROVE bestBidAsk'[t] = NoRow \/ BestFrom(t)'
  <2>1. bestBidAsk'[t] = NoRow \/
          \E q \in past, source \in RowSources, gap \in BOOLEAN :
            /\ q.token = t /\ Sound(q, source, gap)
            /\ bestBidAsk'[t] = BestBidAskRow(q, source, gap)
    BY <1>1 DEF NewRows, RowsInv, BestFrom
  <2> QED
    BY <1>1, <1>2, <2>1 DEF BestFrom
<1>5. ASSUME NEW t \in Tokens PROVE lastTrades'[t] = NoRow \/ TradeFrom(t)'
  <2>1. lastTrades'[t] = NoRow \/
          \E q \in past, source \in RowSources, gap \in BOOLEAN :
            /\ q.token = t /\ Sound(q, source, gap)
            /\ lastTrades'[t] = LastTradeRow(q, source, gap)
    BY <1>1 DEF NewRows, RowsInv, TradeFrom
  <2> QED
    BY <1>1, <1>2, <2>1 DEF TradeFrom
<1> QED
  BY <1>3, <1>4, <1>5 DEF RowsInv

\* Both invariants hold in every state of the collector.
LEMMA CollectorAlways == Spec => [](CollectorInv /\ RowsInv)
  BY InitCollector, NextCollector, InitRows, NextRows, PTL DEF Spec

\* The post behind a latest row, field by field.
LEMMA BestPost ==
  ASSUME RowsInv, NEW t \in Tokens, bestBidAsk[t] # NoRow
  PROVE  \E q \in past :
           /\ Sound(q, bestBidAsk[t].source, bestBidAsk[t].gap)
           /\ q.token = t /\ q.ts = bestBidAsk[t].ts
           /\ bestBidAsk[t].bid = BestBid(q) /\ bestBidAsk[t].ask = BestAsk(q)
<1>1. PICK q \in past, source \in RowSources, gap \in BOOLEAN :
        /\ q.token = t /\ Sound(q, source, gap)
        /\ bestBidAsk[t] = BestBidAskRow(q, source, gap)
  BY DEF RowsInv, BestFrom
<1> DEFINE row == BestBidAskRow(q, source, gap)
<1>2. row.ts = q.ts /\ row.bid = BestBid(q) /\ row.ask = BestAsk(q)
      /\ row.source = source /\ row.gap = gap
  BY DEF BestBidAskRow
<1> HIDE DEF row
<1>3. bestBidAsk[t] = row
  BY <1>1 DEF row
<1>4. Sound(q, bestBidAsk[t].source, bestBidAsk[t].gap)
  BY <1>1, <1>2, <1>3
<1> QED
  BY <1>1, <1>2, <1>3, <1>4

\* The last trade of a token is that of a post of the token.
LEMMA TradePost ==
  ASSUME RowsInv, NEW t \in Tokens, lastTrades[t] # NoRow
  PROVE  \E q \in past :
           /\ Sound(q, lastTrades[t].source, lastTrades[t].gap)
           /\ q.token = t /\ q.ts = lastTrades[t].ts /\ q.trade = lastTrades[t].price
<1>1. PICK q \in past, source \in RowSources, gap \in BOOLEAN :
        /\ q.token = t /\ Sound(q, source, gap)
        /\ lastTrades[t] = LastTradeRow(q, source, gap)
  BY DEF RowsInv, TradeFrom
<1> DEFINE row == LastTradeRow(q, source, gap)
<1>2. row.ts = q.ts /\ row.price = q.trade /\ row.source = source /\ row.gap = gap
  BY DEF LastTradeRow
<1> HIDE DEF row
<1>3. lastTrades[t] = row
  BY <1>1 DEF row
<1>4. Sound(q, lastTrades[t].source, lastTrades[t].gap)
  BY <1>1, <1>2, <1>3
<1> QED
  BY <1>1, <1>2, <1>3, <1>4

\* README.md: raw before normalized.  Whichever write fails and wherever a
\* process is killed, every row is made of a payload stored before.
THEOREM CollectorRawFirst == Spec => []RawFirst
<1>1. RowsInv => RawFirst
  <2> SUFFICES ASSUME RowsInv PROVE RawFirst
    OBVIOUS
  <2>1. \A row \in history \cup snapshots : InRaw(row.post, row.source, row.gap)
    BY DEF RowsInv, Sound
  <2>2. ASSUME NEW t \in Tokens, bestBidAsk[t] # NoRow
        PROVE  \E post \in past : post.token = t /\ post.ts = bestBidAsk[t].ts
                 /\ InRaw(post, bestBidAsk[t].source, bestBidAsk[t].gap)
    BY <2>2, BestPost DEF Sound
  <2>3. ASSUME NEW t \in Tokens, lastTrades[t] # NoRow
        PROVE  \E post \in past : post.token = t /\ post.ts = lastTrades[t].ts
                 /\ InRaw(post, lastTrades[t].source, lastTrades[t].gap)
    BY <2>3, TradePost DEF Sound
  <2> QED
    BY <2>1, <2>2, <2>3 DEF RawFirst
<1> QED
  BY CollectorAlways, <1>1, PTL

\* fill_gap marks what it stores: no row is marked without an interval of its
\* token on record, also when the repair stops half way.
THEOREM CollectorGapRowsExplained == Spec => []GapRowsAreExplained
<1>1. RowsInv => GapRowsAreExplained
  <2> SUFFICES ASSUME RowsInv PROVE GapRowsAreExplained
    OBVIOUS
  <2>1. \A row \in history \cup snapshots : row.gap => Explained(row.post.token)
    BY DEF RowsInv, Sound
  <2>2. ASSUME NEW t \in Tokens, bestBidAsk[t] # NoRow, bestBidAsk[t].gap
        PROVE  Explained(t)
    BY <2>2, BestPost DEF Sound
  <2>3. ASSUME NEW t \in Tokens, lastTrades[t] # NoRow, lastTrades[t].gap
        PROVE  Explained(t)
    BY <2>3, TradePost DEF Sound
  <2> QED
    BY <2>1, <2>2, <2>3 DEF GapRowsAreExplained, Explained
<1> QED
  BY CollectorAlways, <1>1, PTL

\* The latest rows of best_bid_ask and last_trades show the best prices, or
\* the last price, of a book their token had at the time of the row.
THEOREM CollectorLatestRowsTrue == Spec => []LatestRowsWereTrue
<1>1. ASSUME NEW q, HasBestPrices(q)
      PROVE  /\ BestBid(q) \in q.bids \/ (BestBid(q) = NoPrice /\ q.bids = {})
             /\ BestAsk(q) \in q.asks \/ (BestAsk(q) = NoPrice /\ q.asks = {})
             /\ \A p \in q.bids : p <= BestBid(q)
             /\ \A p \in q.asks : BestAsk(q) <= p
  <2>1. q.bids # {} => BestBid(q) \in q.bids /\ \A p \in q.bids : p <= BestBid(q)
    BY <1>1 DEF HasBestPrices, BestBid
  <2>2. q.bids = {} => BestBid(q) = NoPrice
    BY DEF BestBid
  <2>3. q.asks # {} => BestAsk(q) \in q.asks /\ \A p \in q.asks : BestAsk(q) <= p
    BY <1>1 DEF HasBestPrices, BestAsk
  <2>4. q.asks = {} => BestAsk(q) = NoPrice
    BY DEF BestAsk
  <2> QED
    BY <2>1, <2>2, <2>3, <2>4
<1>2. CollectorInv /\ RowsInv => LatestRowsWereTrue
  <2> SUFFICES ASSUME CollectorInv, RowsInv PROVE LatestRowsWereTrue
    OBVIOUS
  <2>1. ASSUME NEW t \in Tokens, bestBidAsk[t] # NoRow
        PROVE  \E post \in past :
                 /\ post.token = t /\ post.ts = bestBidAsk[t].ts
                 /\ bestBidAsk[t].bid \in post.bids
                      \/ (bestBidAsk[t].bid = NoPrice /\ post.bids = {})
                 /\ bestBidAsk[t].ask \in post.asks
                      \/ (bestBidAsk[t].ask = NoPrice /\ post.asks = {})
                 /\ \A p \in post.bids : p <= bestBidAsk[t].bid
                 /\ \A p \in post.asks : bestBidAsk[t].ask <= p
    <3>1. PICK q \in past :
            /\ q.token = t /\ q.ts = bestBidAsk[t].ts
            /\ bestBidAsk[t].bid = BestBid(q) /\ bestBidAsk[t].ask = BestAsk(q)
      BY <2>1, BestPost
    <3>2. HasBestPrices(q)
      BY DEF CollectorInv, Shown
    <3> QED
      BY <1>1, <3>1, <3>2
  <2>2. ASSUME NEW t \in Tokens, lastTrades[t] # NoRow
        PROVE  \E post \in past : post.token = t /\ post.ts = lastTrades[t].ts
                                  /\ post.trade = lastTrades[t].price
    BY <2>2, TradePost DEF Sound
  <2> QED
    BY <2>1, <2>2 DEF LatestRowsWereTrue
<1> QED
  BY CollectorAlways, <1>2, PTL

\* collect_once: the interval recorded for a connection starts before all the
\* connection has delivered.
THEOREM CollectorGapsCover == Spec => []GapsCoverTheSession
<1>1. CollectorInv => GapsCoverTheSession
  BY DEF CollectorInv, Spans, GapsCoverTheSession
<1> QED
  BY CollectorAlways, <1>1, PTL

\* upsert_reference = FALSE in fill_gap: no interleaving of repairs and
\* backfills turns a token back into a placeholder.
THEOREM CollectorKeepsTheUniverse == Spec => KeepsTheUniverse
<1> DEFINE Keeps == \A t \in Tokens : reference[t] = "top_n" => reference'[t] = "top_n"
<1>1. reference' = reference => Keeps
  OBVIOUS
<1>2. ASSUME NEW p \in Processes, BackfillStep(p) PROVE Keeps
  <2>1. CASE UpsertReference(p)
    BY <2>1 DEF UpsertReference, UpsertReferenceTokens, Upserted, SelectionReason, store
  <2>2. CASE ~UpsertReference(p)
    <3>1. reference' = reference
      BY <1>2, <2>2 DEF BackfillStep, FetchHistory, UpsertPoints, FetchBooks, InsertSnapshot,
         UpsertBest, UpsertTrades, InsertRawRestPayload, UpsertPriceHistoryPoints,
         InsertBookSnapshot, UpsertBestBidAsk, UpsertLastTrades
    <3> QED
      BY <1>1, <3>1
  <2> QED
    BY <2>1, <2>2
<1>3. ASSUME Next, ~Repair, ~Backfill PROVE reference' = reference
  <2>1. CASE Exchange \/ Faults \/ Subscribe \/ StartBackfill
    <3>1. UNCHANGED store
      BY <2>1 DEF Exchange, PostBook, Announce, Faults, Close, Fail, CollectorDies,
         BackfillDies, Subscribe, StartBackfill
    <3> QED
      BY <3>1 DEF store
  <2>2. CASE Receive \/ RecordGap
    BY <2>2 DEF Receive, InsertRawWsEvent, RecordGap, RecordGapInterval
  <2>3. CASE NormalizeBest
    BY <2>3 DEF NormalizeBest, UpsertQuotes, UpsertBestBidAsk
  <2>4. CASE Normalize
    BY <2>4 DEF Normalize, NormalizeBook, NormalizeQuotes, NormalizeLastTrade, KeepRawOnly,
       InsertBookSnapshot, UpsertQuotes, UpsertBestBidAsk, UpsertLastTrades, store
  <2> QED
    BY <1>3, <2>1, <2>2, <2>3, <2>4 DEF Next
<1> HIDE DEF Keeps
<1>4. ASSUME Repair \/ Backfill PROVE Keeps
  <2>1. BackfillStep(Collector) \/ BackfillStep(Backfiller)
    BY <1>4 DEF Repair, Backfill
  <2> QED
    BY <1>2, <2>1 DEF Processes
<1>5. [Next]_vars => [Keeps]_vars
  BY <1>1, <1>3, <1>4
<1> QED
  BY <1>5, PTL DEF Spec, KeepsTheUniverse, Keeps

-----------------------------------------------------------------------------
(***************************************************************************)
(* A repair that ran to its end is complete, for every universe and every  *)
(* pair of chunk sizes, while the exchange goes on posting and the         *)
(* backfill command writes the same tables.                                *)
(*                                                                         *)
(* RepairInv follows the call through its stages: after chunk c of the     *)
(* history everything of the tokens of the first c chunks is held, and     *)
(* later stored; after chunk c of the books each of these tokens has a     *)
(* snapshot at least as late as the end of the gap, or its fetched book    *)
(* still waits to be stored.  That the chunks add up to the universe is a  *)
(* fact of arithmetic (LastChunk).                                         *)
(***************************************************************************)

\* The token is in one of the chunks before chunk c.
Before(t, c, size) == \E j \in DOMAIN Universe : Universe[j] = t /\ j <= (c - 1) * size

\* The posts a repair of this session has to bring back.
Relevant == {post \in past : post.token \in UniverseTokens /\ post.ts <= session.ended}
Recent(post) == post.ts >= session.ended - RecentHistory

InHistory(post) == Marked(post, "CLOB_REST", TRUE) \in history
Copied(post) ==
  \E s \in snapshots : s.gap /\ s.post.token = post.token /\ s.post.ts >= post.ts
Awaited(post) == \E q \in run[Collector].todo : q.token = post.token /\ q.ts >= post.ts

\* The call of the collector, with the window it was given.
CallInv ==
  LET r == run[Collector] IN
  /\ r.stage # "idle" /\ r.gap
  /\ r.from = session.ended - RecentHistory /\ r.to = session.ended
  /\ r.chunk >= 1 /\ (r.stage \in {"reference", "points"} => r.chunk = 1)

HistoryInv ==
  LET r == run[Collector] IN
  /\ r.stage = "history" =>
       \A post \in Relevant :
         Recent(post) /\ Before(post.token, r.chunk, HistoryChunkSize) => post \in r.points
  /\ r.stage = "points" => \A post \in Relevant : Recent(post) => post \in r.points
  /\ r.stage \in {"books", "snapshots", "best", "trades"} =>
       \A post \in Relevant : Recent(post) => InHistory(post)

BooksInv ==
  LET r == run[Collector] IN
  /\ r.stage = "books" =>
       \A post \in Relevant : Before(post.token, r.chunk, BookChunkSize) => Copied(post)
  /\ r.stage = "snapshots" =>
       \A post \in Relevant :
         Before(post.token, r.chunk + 1, BookChunkSize) => Copied(post) \/ Awaited(post)
  /\ r.stage \in {"best", "trades"} => \A post \in Relevant : Copied(post)

Complete == \A post \in Relevant : Copied(post) /\ (Recent(post) => InHistory(post))

RepairInv ==
  /\ \A post \in past : post.ts <= clock
  /\ \A post \in past : quote[post.token] # NoBook /\ post.ts <= quote[post.token].ts
  /\ session.stage \in {"gap", "repair"} \/ session.outcome = "repaired" =>
       session.ended <= clock
  /\ session.stage = "repair" =>
       CallInv /\ HistoryInv /\ BooksInv
  /\ session.outcome = "repaired" => session.stage = "ended" /\ Complete

-----------------------------------------------------------------------------
(***************************************************************************)
(* Chunks.                                                                 *)
(***************************************************************************)
LEMMA FirstChunk ==
  ASSUME NEW t, NEW size \in Nat \ {0}
  PROVE  ~Before(t, 1, size)
<1>1. (1 - 1) * size = 0
  OBVIOUS
<1>2. \A j \in DOMAIN Universe : j \in Nat /\ j >= 1
  BY UniverseAssumption
<1> SUFFICES ASSUME Before(t, 1, size) PROVE FALSE
  OBVIOUS
<1>3. PICK j \in DOMAIN Universe : j <= (1 - 1) * size
  BY DEF Before
<1> QED
  BY <1>1, <1>2, <1>3

\* The tokens before the next chunk are those before this one and those in it.
LEMMA NextChunk ==
  ASSUME NEW t, NEW c \in Nat, NEW size \in Nat \ {0}, Before(t, c + 1, size)
  PROVE  Before(t, c, size) \/ t \in ChunkTokens(c, size)
<1>1. PICK j \in DOMAIN Universe : Universe[j] = t /\ j <= ((c + 1) - 1) * size
  BY DEF Before
<1>2. (c + 1) - 1 = c
  OBVIOUS
<1>3. j <= c * size
  BY <1>1, <1>2
<1>4. CASE j <= (c - 1) * size
  BY <1>1, <1>4 DEF Before
<1>5. CASE ~(j <= (c - 1) * size)
  <2>1. j \in Nat /\ (c - 1) * size \in Int
    BY UniverseAssumption
  <2>2. (c - 1) * size < j
    BY <1>5, <2>1
  <2> QED
    BY <1>1, <1>3, <2>2 DEF ChunkTokens
<1> QED
  BY <1>4, <1>5

\* Every token comes before the end of the last chunk.
LEMMA LastChunk ==
  ASSUME NEW t \in UniverseTokens, NEW c \in Nat, NEW size \in Nat \ {0},
         c >= ChunkCount(size)
  PROVE  Before(t, c + 1, size)
<1> DEFINE n == Len(Universe)
           d == (n + size - 1) \div size
           m == (n + size - 1) % size
<1>1. n \in Nat
  BY UniverseAssumption
<1>2. n + size - 1 = size * d + m /\ m \in 0 .. size - 1 /\ d \in Int
  BY <1>1
<1>3. c >= d
  BY DEF ChunkCount
<1> HIDE DEF d, m
<1>4. n <= size * d
  BY <1>1, <1>2
<1>5. size * d <= c * size
  BY <1>2, <1>3
<1>6. PICK j \in DOMAIN Universe : Universe[j] = t
  BY DEF UniverseTokens
<1>7. j \in Nat /\ j <= n
  BY <1>6, UniverseAssumption
<1>8. j <= c * size
  <2>1. c * size \in Int /\ size * d \in Int
    BY <1>2
  <2> QED
    BY <1>1, <1>4, <1>5, <1>7, <2>1
<1>9. (c + 1) - 1 = c
  OBVIOUS
<1> QED
  BY <1>6, <1>8, <1>9 DEF Before

-----------------------------------------------------------------------------
(***************************************************************************)
(* The steps of the repair.                                                *)
(***************************************************************************)
\* What the stages of a call rest on does not move while it runs.
LEMMA Stays ==
  ASSUME UNCHANGED <<past, session>>, history \subseteq history', snapshots \subseteq snapshots'
  PROVE  /\ Relevant' = Relevant
         /\ \A post : /\ Recent(post)' <=> Recent(post)
                      /\ InHistory(post) => InHistory(post)'
                      /\ Copied(post) => Copied(post)'
  BY DEF Relevant, Recent, InHistory, Copied

\* A backfill removes no row and moves no market.
LEMMA RowsStay ==
  ASSUME NEW p \in Processes, BackfillStep(p)
  PROVE  history \subseteq history' /\ snapshots \subseteq snapshots' /\ UNCHANGED market
  BY DEF BackfillStep, UpsertReference, UpsertReferenceTokens, FetchHistory, UpsertPoints,
     FetchBooks, InsertSnapshot, UpsertBest, UpsertTrades, InsertRawRestPayload,
     UpsertPriceHistoryPoints, InsertBookSnapshot, UpsertBestBidAsk, UpsertLastTrades, store

\* The facts every step of the repair begins with.
LEMMA StepFacts ==
  ASSUME CollectorInv, RepairInv, session.stage = "repair", BackfillStep(Collector),
         UNCHANGED session
  PROVE  /\ Collector \in Processes /\ run \in [Processes -> Runs] /\ run[Collector] \in Runs
         /\ CallInv /\ HistoryInv /\ BooksInv
         /\ Relevant' = Relevant
         /\ \A post : /\ Recent(post)' <=> Recent(post)
                      /\ InHistory(post) => InHistory(post)'
                      /\ Copied(post) => Copied(post)'
<1>1. Collector \in Processes
  BY DEF Processes
<1>2. run \in [Processes -> Runs] /\ run[Collector] \in Runs
  BY <1>1 DEF CollectorInv, TypeOK
<1>3. CallInv /\ HistoryInv /\ BooksInv
  BY DEF RepairInv
<1>4. history \subseteq history' /\ snapshots \subseteq snapshots' /\ past' = past
  BY <1>1, RowsStay DEF market
<1>5. /\ Relevant' = Relevant
      /\ \A post : /\ Recent(post)' <=> Recent(post)
                   /\ InHistory(post) => InHistory(post)'
                   /\ Copied(post) => Copied(post)'
  BY <1>4, Stays
<1> QED
  BY <1>1, <1>2, <1>3, <1>5

\* The reference stage writes nothing and starts with the first chunk.
LEMMA ReferenceStep ==
  ASSUME CollectorInv, RepairInv, session.stage = "repair", UpsertReference(Collector),
         UNCHANGED session
  PROVE  (CallInv /\ HistoryInv /\ BooksInv)'
<1> DEFINE r == run[Collector]
           s == [r EXCEPT !.stage = "history"]
<1>1. BackfillStep(Collector)
  BY DEF BackfillStep
<1>2. r \in Runs /\ CallInv /\ r.stage = "reference" /\ run'[Collector] = s
  BY <1>1, StepFacts DEF UpsertReference, At
<1>3. /\ s.stage = "history" /\ s.chunk = r.chunk /\ s.gap = r.gap
      /\ s.from = r.from /\ s.to = r.to
  BY <1>2 DEF Runs
<1> HIDE DEF s
<1>4. s.chunk = 1 /\ CallInv'
  BY <1>2, <1>3 DEF CallInv
<1>5. \A post : ~Before(post.token, s.chunk, HistoryChunkSize)
  BY <1>4, FirstChunk, UniverseAssumption
<1>6. HistoryInv'
  BY <1>2, <1>3, <1>5 DEF HistoryInv, Before
<1>7. BooksInv'
  BY <1>2, <1>3 DEF BooksInv
<1> QED
  BY <1>4, <1>6, <1>7

\* The fetched history of a chunk holds every recent post of its tokens.
LEMMA HistoryStep ==
  ASSUME CollectorInv, RepairInv, session.stage = "repair", FetchHistory(Collector),
         UNCHANGED session
  PROVE  (CallInv /\ HistoryInv /\ BooksInv)'
<1> DEFINE r == run[Collector]
           reply == FetchPricesHistory(ChunkTokens(r.chunk, HistoryChunkSize),
                                       WindowStart(Collector), WindowEnd(Collector))
           last == r.chunk >= ChunkCount(HistoryChunkSize)
           s == [r EXCEPT !.stage = IF last THEN "points" ELSE "history",
                   !.chunk = IF last THEN 1 ELSE @ + 1, !.points = @ \cup reply]
<1>1. BackfillStep(Collector)
  BY DEF BackfillStep
<1>2. r \in Runs /\ CallInv /\ HistoryInv /\ r.stage = "history" /\ run'[Collector] = s
  BY <1>1, StepFacts DEF FetchHistory, At
<1>3. /\ s.stage = (IF last THEN "points" ELSE "history")
      /\ s.chunk = (IF last THEN 1 ELSE r.chunk + 1) /\ s.points = r.points \cup reply
      /\ s.gap = r.gap /\ s.from = r.from /\ s.to = r.to /\ r.chunk \in Nat
  BY <1>2 DEF Runs
<1>4. HistoryChunkSize \in Nat \ {0}
  BY UniverseAssumption
<1>5. ASSUME NEW post \in Relevant, Recent(post),
             Before(post.token, r.chunk + 1, HistoryChunkSize)
      PROVE  post \in s.points
  <2>1. CASE Before(post.token, r.chunk, HistoryChunkSize)
    BY <1>2, <1>3, <1>5, <2>1 DEF HistoryInv
  <2>2. CASE post.token \in ChunkTokens(r.chunk, HistoryChunkSize)
    <3>1. post \in reply
      BY <1>2, <1>5, <2>2
      DEF FetchPricesHistory, CallInv, Relevant, Recent, WindowStart, WindowEnd
    <3> QED
      BY <1>3, <3>1
  <2> QED
    BY <1>3, <1>4, <1>5, <2>1, <2>2, NextChunk
<1>6. last => \A post \in Relevant : Before(post.token, r.chunk + 1, HistoryChunkSize)
  BY <1>3, <1>4, LastChunk DEF Relevant
<1> HIDE DEF s, last
<1>7. CallInv'
  BY <1>2, <1>3 DEF CallInv
<1>8. Relevant' = Relevant /\ \A post : Recent(post)' <=> Recent(post)
  BY <1>1, StepFacts
<1>9. HistoryInv'
  <2>1. CASE last
    BY <1>2, <1>3, <1>5, <1>6, <1>8, <2>1 DEF HistoryInv
  <2>2. CASE ~last
    BY <1>2, <1>3, <1>5, <1>8, <2>2 DEF HistoryInv, Before
  <2> QED
    BY <2>1, <2>2
<1>10. BooksInv'
  BY <1>2, <1>3 DEF BooksInv
<1> QED
  BY <1>7, <1>9, <1>10

\* Upserting a chunk of the history keeps what the repair has done so far.
LEMMA PointsStep ==
  ASSUME CollectorInv, RepairInv, session.stage = "repair", UpsertPoints(Collector),
         UNCHANGED session
  PROVE  (CallInv /\ HistoryInv /\ BooksInv)'
<1> DEFINE r == run[Collector]
           s == [r EXCEPT !.stage = "books"]
<1>1. BackfillStep(Collector)
  BY DEF BackfillStep
<1>2. r \in Runs /\ CallInv /\ HistoryInv /\ r.stage = "points" /\ run'[Collector] = s
  BY <1>1, StepFacts DEF UpsertPoints, At
<1>3. /\ s.stage = "books" /\ s.chunk = r.chunk /\ s.gap = r.gap
      /\ s.from = r.from /\ s.to = r.to
  BY <1>2 DEF Runs
<1> HIDE DEF s
<1>4. s.chunk = 1 /\ CallInv' /\ r.gap = TRUE
  BY <1>2, <1>3 DEF CallInv, Runs
<1>5. \A post : ~Before(post.token, s.chunk, BookChunkSize)
  BY <1>4, FirstChunk, UniverseAssumption
<1>6. Relevant' = Relevant /\ \A post : Recent(post)' <=> Recent(post)
  BY <1>1, StepFacts
<1>7. \A post \in r.points : InHistory(post)'
  BY <1>4 DEF UpsertPoints, UpsertPriceHistoryPoints, InHistory
<1>8. HistoryInv'
  BY <1>2, <1>3, <1>6, <1>7 DEF HistoryInv
<1>9. BooksInv'
  BY <1>2, <1>3, <1>5 DEF BooksInv, Before
<1> QED
  BY <1>4, <1>8, <1>9

\* On to the next book, the next chunk or the latest rows: b is the call with
\* what this step has fetched or stored.
LEMMA AfterBookStep ==
  ASSUME NEW b \in Runs, run'[Collector] = AfterBook(b), UNCHANGED session,
         b.gap, b.from = session.ended - RecentHistory, b.to = session.ended, b.chunk >= 1,
         Relevant' = Relevant, \A post : Recent(post)' <=> Recent(post),
         \A post \in Relevant : Recent(post) => InHistory(post)',
         \A post \in Relevant :
           Before(post.token, b.chunk + 1, BookChunkSize) =>
             \/ Copied(post)'
             \/ \E q \in b.todo : q.token = post.token /\ q.ts >= post.ts
  PROVE  (CallInv /\ HistoryInv /\ BooksInv)'
<1> DEFINE s == run'[Collector]
<1>1. b.chunk \in Nat /\ BookChunkSize \in Nat \ {0}
  BY UniverseAssumption DEF Runs
<1>2. CASE b.todo # {}
  <2>1. s = [b EXCEPT !.stage = "snapshots"]
    BY <1>2 DEF AfterBook
  <2>2. /\ s.stage = "snapshots" /\ s.chunk = b.chunk /\ s.todo = b.todo
        /\ s.gap = b.gap /\ s.from = b.from /\ s.to = b.to
    BY <2>1 DEF Runs
  <2> HIDE DEF s
  <2>3. CallInv'
    BY <2>2 DEF CallInv, s
  <2>4. HistoryInv'
    BY <2>2 DEF HistoryInv, s
  <2>5. \A post \in Relevant :
          Before(post.token, s.chunk + 1, BookChunkSize) => Copied(post)' \/ Awaited(post)'
    BY <2>2 DEF Awaited, s
  <2>6. BooksInv'
    BY <2>2, <2>5 DEF BooksInv, s, Before
  <2> QED
    BY <2>3, <2>4, <2>6
<1>3. CASE b.todo = {} /\ b.chunk >= ChunkCount(BookChunkSize)
  <2>1. s = [b EXCEPT !.stage = "best"]
    BY <1>3 DEF AfterBook
  <2>2. s.stage = "best" /\ s.chunk = b.chunk /\ s.gap = b.gap /\ s.from = b.from /\ s.to = b.to
    BY <2>1 DEF Runs
  <2>3. \A post \in Relevant : Copied(post)'
    <3>1. \A post \in Relevant : Before(post.token, b.chunk + 1, BookChunkSize)
      BY <1>1, <1>3, LastChunk DEF Relevant
    <3> QED
      BY <1>3, <3>1
  <2> HIDE DEF s
  <2>4. CallInv' /\ HistoryInv'
    BY <2>2 DEF CallInv, HistoryInv, s
  <2>5. BooksInv'
    BY <2>2, <2>3 DEF BooksInv, s
  <2> QED
    BY <2>4, <2>5
<1>4. CASE b.todo = {} /\ ~(b.chunk >= ChunkCount(BookChunkSize))
  <2>1. s = [b EXCEPT !.stage = "books", !.chunk = @ + 1]
    BY <1>4 DEF AfterBook
  <2>2. /\ s.stage = "books" /\ s.chunk = b.chunk + 1
        /\ s.gap = b.gap /\ s.from = b.from /\ s.to = b.to
    BY <2>1 DEF Runs
  <2>3. \A post \in Relevant : Before(post.token, s.chunk, BookChunkSize) => Copied(post)'
    BY <1>4, <2>2
  <2> HIDE DEF s
  <2>4. CallInv' /\ HistoryInv'
    BY <1>1, <2>2 DEF CallInv, HistoryInv, s
  <2>5. BooksInv'
    BY <2>2, <2>3 DEF BooksInv, s, Before
  <2> QED
    BY <2>4, <2>5
<1> QED
  BY <1>2, <1>3, <1>4

\* The reply has the current book of every token of the chunk, which is at
\* least as late as the end of the gap.
LEMMA BooksStep ==
  ASSUME CollectorInv, RepairInv, session.stage = "repair", FetchBooks(Collector),
         UNCHANGED session
  PROVE  (CallInv /\ HistoryInv /\ BooksInv)'
<1> DEFINE r == run[Collector]
           tokens == ChunkTokens(r.chunk, BookChunkSize)
           reply == FetchOrderBooks(tokens)
           b == [r EXCEPT !.todo = reply]
<1>1. BackfillStep(Collector)
  BY DEF BackfillStep
<1>2. /\ r \in Runs /\ CallInv /\ HistoryInv /\ BooksInv /\ r.stage = "books"
      /\ run' = [run EXCEPT ![Collector] = AfterBook(b)]
      /\ Collector \in Processes /\ run \in [Processes -> Runs]
  BY <1>1, StepFacts DEF FetchBooks, At
<1>3. tokens \in SUBSET Tokens
  BY ChunkType, UniverseType
<1>4. reply \subseteq Posts
  BY <1>3, NowType DEF FetchOrderBooks, CollectorInv
<1>5. ASSUME NEW post \in Relevant, post.token \in tokens
      PROVE  \E q \in reply : q.token = post.token /\ q.ts >= post.ts
  <2>1. post \in past /\ post.token \in Tokens
    BY <1>3, <1>5 DEF Relevant
  <2>2. quote[post.token] # NoBook /\ post.ts <= quote[post.token].ts
    BY <2>1 DEF RepairInv
  <2>3. quote[post.token].token = post.token
    BY <2>1, <2>2 DEF CollectorInv, Shown
  <2>4. quote[post.token] \in reply
    BY <1>5, <2>2 DEF FetchOrderBooks, Now
  <2>5. quote[post.token].ts \in Nat /\ post.ts \in Nat
    BY <1>4, <2>1, <2>4 DEF CollectorInv, TypeOK, Posts
  <2> QED
    BY <2>2, <2>3, <2>4, <2>5
<1> HIDE DEF tokens, reply
<1>6. /\ b \in Runs /\ b.todo = reply /\ b.chunk = r.chunk /\ b.gap = r.gap
      /\ b.from = r.from /\ b.to = r.to /\ r.chunk \in Nat
  BY <1>2, <1>4 DEF Runs
<1> HIDE DEF b
<1>7. run'[Collector] = AfterBook(b)
  BY <1>2
<1>8. b.gap /\ b.from = session.ended - RecentHistory /\ b.to = session.ended /\ b.chunk >= 1
  BY <1>2, <1>6 DEF CallInv
<1>9. /\ Relevant' = Relevant
      /\ \A post : /\ Recent(post)' <=> Recent(post)
                   /\ InHistory(post) => InHistory(post)'
                   /\ Copied(post) => Copied(post)'
  BY <1>1, StepFacts
<1>10. \A post \in Relevant : Recent(post) => InHistory(post)'
  BY <1>2, <1>9 DEF HistoryInv
<1>11. ASSUME NEW post \in Relevant, Before(post.token, b.chunk + 1, BookChunkSize)
       PROVE  Copied(post)' \/ \E q \in b.todo : q.token = post.token /\ q.ts >= post.ts
  <2>1. CASE Before(post.token, r.chunk, BookChunkSize)
    BY <1>2, <1>9, <2>1 DEF BooksInv
  <2>2. CASE post.token \in tokens
    BY <1>5, <1>6, <2>2
  <2> QED
    BY <1>6, <1>11, <2>1, <2>2, NextChunk, UniverseAssumption DEF tokens
<1> QED
  BY <1>6, <1>7, <1>8, <1>9, <1>10, <1>11, AfterBookStep

\* Inserting a snapshot keeps what the repair has done so far.
LEMMA SnapshotStep ==
  ASSUME CollectorInv, RepairInv, session.stage = "repair", InsertSnapshot(Collector),
         UNCHANGED session
  PROVE  (CallInv /\ HistoryInv /\ BooksInv)'
<1> DEFINE r == run[Collector]
<1>1. BackfillStep(Collector)
  BY DEF BackfillStep
<1>2. /\ r \in Runs /\ CallInv /\ HistoryInv /\ BooksInv /\ r.stage = "snapshots"
      /\ Collector \in Processes /\ run \in [Processes -> Runs]
  BY <1>1, StepFacts DEF InsertSnapshot, At
<1>3. PICK q \in r.todo : /\ InsertBookSnapshot(Marked(q, "CLOB_REST", r.gap))
                          /\ run' = [run EXCEPT ![Collector] = AfterBook(Stored(r, q))]
  BY <1>2 DEF InsertSnapshot
<1> DEFINE b == Stored(r, q)
<1>4. /\ b \in Runs /\ b.todo = r.todo \ {q} /\ b.chunk = r.chunk /\ b.gap = r.gap
      /\ b.from = r.from /\ b.to = r.to
  BY <1>2 DEF Runs, Stored
<1> HIDE DEF b
<1>5. run'[Collector] = AfterBook(b)
  BY <1>2, <1>3 DEF b
<1>6. b.gap /\ b.from = session.ended - RecentHistory /\ b.to = session.ended /\ b.chunk >= 1
  BY <1>2, <1>4 DEF CallInv
<1>7. /\ Relevant' = Relevant
      /\ \A post : /\ Recent(post)' <=> Recent(post)
                   /\ InHistory(post) => InHistory(post)'
                   /\ Copied(post) => Copied(post)'
  BY <1>1, StepFacts
<1>8. \A post \in Relevant : Recent(post) => InHistory(post)'
  BY <1>2, <1>7 DEF HistoryInv
<1>9. ASSUME NEW post, q.token = post.token, q.ts >= post.ts PROVE Copied(post)'
  <2> DEFINE row == Marked(q, "CLOB_REST", r.gap)
  <2>1. row \in snapshots'
    BY <1>3 DEF InsertBookSnapshot
  <2>2. row.post = q /\ row.gap
    BY <1>2 DEF Marked, CallInv
  <2> HIDE DEF row
  <2> QED
    BY <1>9, <2>1, <2>2 DEF Copied
<1>10. ASSUME NEW post \in Relevant, Before(post.token, b.chunk + 1, BookChunkSize)
       PROVE  Copied(post)' \/ \E x \in b.todo : x.token = post.token /\ x.ts >= post.ts
  <2>1. Copied(post) \/ \E x \in r.todo : x.token = post.token /\ x.ts >= post.ts
    BY <1>2, <1>4, <1>10 DEF BooksInv, Awaited
  <2> QED
    BY <1>4, <1>7, <1>9, <2>1
<1> QED
  BY <1>4, <1>5, <1>6, <1>7, <1>8, <1>10, AfterBookStep

\* Upserting the best prices keeps what the repair has done so far.
LEMMA BestStep ==
  ASSUME CollectorInv, RepairInv, session.stage = "repair", UpsertBest(Collector),
         UNCHANGED session
  PROVE  (CallInv /\ HistoryInv /\ BooksInv)'
<1> DEFINE r == run[Collector]
           s == [r EXCEPT !.stage = "trades"]
<1>1. BackfillStep(Collector)
  BY DEF BackfillStep
<1>2. /\ r \in Runs /\ CallInv /\ HistoryInv /\ BooksInv /\ r.stage = "best"
      /\ run'[Collector] = s
  BY <1>1, StepFacts DEF UpsertBest, At
<1>3. /\ s.stage = "trades" /\ s.chunk = r.chunk /\ s.gap = r.gap
      /\ s.from = r.from /\ s.to = r.to
  BY <1>2 DEF Runs
<1> HIDE DEF s
<1>4. /\ Relevant' = Relevant
      /\ \A post : /\ Recent(post)' <=> Recent(post)
                   /\ InHistory(post) => InHistory(post)'
                   /\ Copied(post) => Copied(post)'
  BY <1>1, StepFacts
<1>5. CallInv'
  BY <1>2, <1>3 DEF CallInv
<1>6. HistoryInv'
  BY <1>2, <1>3, <1>4 DEF HistoryInv
<1>7. BooksInv'
  BY <1>2, <1>3, <1>4 DEF BooksInv
<1> QED
  BY <1>5, <1>6, <1>7

\* Only the last write ends a call.
LEMMA StillCalled ==
  ASSUME CollectorInv, BackfillStep(Collector), ~UpsertTrades(Collector)
  PROVE  run'[Collector] # IdleRun
<1> DEFINE r == run[Collector]
<1>1. r \in Runs /\ run \in [Processes -> Runs] /\ Collector \in Processes
  BY DEF CollectorInv, TypeOK, Processes
<1>2. IdleRun.stage = "idle"
  BY DEF IdleRun
<1>3. CASE UpsertReference(Collector) \/ UpsertPoints(Collector) \/ UpsertBest(Collector)
  <2>1. \E x \in {"history", "books", "trades"} : run' = [run EXCEPT ![Collector].stage = x]
    BY <1>3 DEF UpsertReference, UpsertPoints, UpsertBest
  <2>2. run'[Collector].stage \in {"history", "books", "trades"}
    BY <1>1, <2>1 DEF Runs
  <2> QED
    BY <1>2, <2>2
<1>4. CASE FetchHistory(Collector)
  <2>1. run'[Collector].stage \in {"points", "history"}
    BY <1>1, <1>4 DEF FetchHistory, Runs
  <2> QED
    BY <1>2, <2>1
<1>5. \A b \in Runs : AfterBook(b).stage \in {"snapshots", "best", "books"}
  BY DEF AfterBook, Runs
<1>6. CASE FetchBooks(Collector)
  <2> DEFINE reply == FetchOrderBooks(ChunkTokens(r.chunk, BookChunkSize))
             b == [r EXCEPT !.todo = reply]
  <2>1. reply \subseteq Posts
    BY ChunkType, UniverseType, NowType DEF FetchOrderBooks, CollectorInv
  <2> HIDE DEF reply
  <2>2. b \in Runs
    BY <1>1, <2>1 DEF Runs
  <2>3. run' = [run EXCEPT ![Collector] = AfterBook(b)]
    BY <1>1, <1>6 DEF FetchBooks, reply
  <2> HIDE DEF b
  <2>4. run'[Collector] = AfterBook(b)
    BY <1>1, <2>3
  <2> QED
    BY <1>2, <1>5, <2>2, <2>4
<1>7. CASE InsertSnapshot(Collector)
  <2>1. PICK q \in r.todo : run' = [run EXCEPT ![Collector] = AfterBook(Stored(r, q))]
    BY <1>1, <1>7 DEF InsertSnapshot
  <2>2. Stored(r, q) \in Runs
    BY <1>1 DEF Runs, Stored
  <2>3. run'[Collector] = AfterBook(Stored(r, q))
    BY <1>1, <2>1
  <2> QED
    BY <1>2, <1>5, <2>2, <2>3
<1> QED
  BY <1>3, <1>4, <1>6, <1>7 DEF BackfillStep

-----------------------------------------------------------------------------
(***************************************************************************)
(* The invariant.                                                          *)
(***************************************************************************)
LEMMA InitRepair == Init => RepairInv
  BY DEF Init, MarketInit, OffSession, RepairInv

\* What the books of the exchange are, whoever steps.
LatestInv ==
  /\ \A post \in past : post.ts <= clock
  /\ \A post \in past : quote[post.token] # NoBook /\ post.ts <= quote[post.token].ts

\* A new post is the latest of its token, and its time is the next.
LEMMA PostLatest ==
  ASSUME CollectorInv, LatestInv, NEW t \in Tokens, NEW b \in Books[t], PostBook(t, b)
  PROVE  LatestInv' /\ clock' = clock + 1 /\ \A q \in past' : q \in past \/ q.ts = clock + 1
<1> DEFINE q == Posted(t, clock + 1, b)
<1>1. clock' = clock + 1 /\ quote' = [quote EXCEPT ![t] = q] /\ past' = past \cup {q}
  BY DEF PostBook, Post
<1>2. clock \in Nat /\ q \in Posts /\ q.token = t /\ q.ts = clock + 1
  BY PostedType DEF CollectorInv, TypeOK, Posted
<1>3. q # NoBook
  BY <1>2, BooksAssumption
<1>4. past \subseteq Posts /\ quote \in [Tokens -> Posts \cup {NoBook}]
  BY DEF CollectorInv, TypeOK
<1> HIDE DEF q
<1>5. \A x \in past' : x.ts <= clock'
  BY <1>1, <1>2, <1>4 DEF LatestInv, Posts
<1>6. ASSUME NEW x \in past'
      PROVE  quote'[x.token] # NoBook /\ x.ts <= quote'[x.token].ts
  <2>1. CASE x = q
    BY <1>1, <1>2, <1>3, <1>4, <2>1
  <2>2. CASE x # q /\ x.token = t
    <3>1. x \in past /\ x.ts \in Nat /\ x.ts <= clock
      BY <1>1, <1>4, <1>6, <2>2 DEF LatestInv, Posts
    <3>2. quote'[x.token] = q
      BY <1>1, <1>4, <2>2
    <3> QED
      BY <1>2, <1>3, <3>1, <3>2
  <2>3. CASE x # q /\ x.token # t
    <3>1. x \in past /\ x.token \in Tokens
      BY <1>1, <1>4, <1>6, <2>3 DEF Posts
    <3>2. quote'[x.token] = quote[x.token]
      BY <1>1, <1>4, <2>3, <3>1
    <3> QED
      BY <3>1, <3>2 DEF LatestInv
  <2> QED
    BY <2>1, <2>2, <2>3
<1> QED
  BY <1>1, <1>2, <1>5, <1>6 DEF LatestInv

\* A step that leaves the collector alone, and what has to be repaired.
LEMMA OthersStep ==
  ASSUME RepairInv, LatestInv', UNCHANGED session, run'[Collector] = run[Collector],
         session.ended <= clock => Relevant' = Relevant /\ session.ended <= clock',
         history \subseteq history', snapshots \subseteq snapshots'
  PROVE  RepairInv'
<1>1. \A post : /\ Recent(post)' <=> Recent(post)
                /\ InHistory(post) => InHistory(post)'
                /\ Copied(post) => Copied(post)'
                /\ Awaited(post)' <=> Awaited(post)
  BY DEF Recent, InHistory, Copied, Awaited
<1>2. CallInv => CallInv'
  BY DEF CallInv
<1>3. HistoryInv /\ Relevant' = Relevant => HistoryInv'
  BY <1>1 DEF HistoryInv, Before
<1>4. BooksInv /\ Relevant' = Relevant => BooksInv'
  BY <1>1 DEF BooksInv, Before
<1>5. Complete /\ Relevant' = Relevant => Complete'
  BY <1>1 DEF Complete
<1> QED
  BY <1>2, <1>3, <1>4, <1>5 DEF RepairInv, LatestInv

\* A step of the session outside a repair.
LEMMA SessionStep ==
  ASSUME CollectorInv, RepairInv,
         \/ Subscribe \/ Receive \/ Normalize \/ NormalizeBest \/ Close \/ Fail \/ CollectorDies
  PROVE  RepairInv'
<1>1. UNCHANGED market
  BY DEF Subscribe, Receive, Normalize, NormalizeBest, Close, Fail, CollectorDies
<1>2. session \in Sessions /\ clock \in Nat
  BY DEF CollectorInv, TypeOK
<1>3. /\ session'.stage # "repair" /\ session'.outcome # "repaired"
      /\ session'.stage = "gap" => session'.ended <= clock
  <2>1. CASE Subscribe
    BY <2>1 DEF Subscribe, OffSession
  <2>2. CASE Receive
    BY <1>2, <2>2 DEF Receive, RepairInv, Sessions
  <2>3. CASE Normalize \/ NormalizeBest
    <3>1. session.stage \in {"normalize", "best"}
      BY <2>3 DEF Normalize, NormalizeBest
    <3>2. session' \in {Handled, [session EXCEPT !.stage = "best"]}
      BY <2>3 DEF Normalize, NormalizeBest, NormalizeBook, NormalizeQuotes, NormalizeLastTrade,
         KeepRawOnly
    <3>3. session.outcome # "repaired"
      BY <3>1 DEF RepairInv
    <3>4. Handled.stage \in {"ended", "receive"} /\ Handled.outcome \in {"limit", session.outcome}
      BY <1>2 DEF Handled, Sessions
    <3>5. LET s == [session EXCEPT !.stage = "best"] IN
            s.stage = "best" /\ s.outcome = session.outcome
      BY <1>2 DEF Sessions
    <3>6. CASE session' = Handled
      BY <3>3, <3>4, <3>6
    <3>7. CASE session' = [session EXCEPT !.stage = "best"]
      BY <3>3, <3>5, <3>7
    <3> QED
      BY <3>2, <3>6, <3>7
  <2>4. CASE Close
    BY <1>2, <2>4 DEF Close, Sessions
  <2>5. CASE Fail
    BY <1>2, <2>5 DEF Fail, Listening, RepairInv, Sessions
  <2>6. CASE CollectorDies
    BY <1>2, <2>6 DEF CollectorDies, RepairInv, Sessions
  <2> QED
    BY <2>1, <2>2, <2>3, <2>4, <2>5, <2>6
<1> QED
  BY <1>1, <1>3 DEF RepairInv, market

\* The call that repairs a gap starts with nothing repaired.
LEMMA RecordGapStep ==
  ASSUME CollectorInv, RepairInv, RecordGap
  PROVE  RepairInv'
<1> DEFINE called == CalledRun(TRUE, session.ended - RecentHistory, session.ended)
<1>1. session \in Sessions /\ run \in [Processes -> Runs] /\ Collector \in Processes
  BY DEF CollectorInv, TypeOK, Processes
<1>2. session.stage = "gap" /\ session' = [session EXCEPT !.stage = "repair"]
      /\ UNCHANGED market /\ run'[Collector] = called
  BY <1>1 DEF RecordGap
<1>3. session'.stage = "repair" /\ session'.ended = session.ended
      /\ session'.outcome = session.outcome
  BY <1>1, <1>2 DEF Sessions
<1>4. /\ called.stage = "reference" /\ called.gap = TRUE /\ called.chunk = 1
      /\ called.from = session.ended - RecentHistory /\ called.to = session.ended
  BY DEF CalledRun, IdleRun
<1> HIDE DEF called
<1>5. CallInv' /\ HistoryInv' /\ BooksInv'
  BY <1>2, <1>3, <1>4 DEF CallInv, HistoryInv, BooksInv
<1> QED
  BY <1>2, <1>3, <1>5 DEF RepairInv, market

\* The last write ends a call whose earlier stages have copied everything.
LEMMA TradesStep ==
  ASSUME CollectorInv, RepairInv, Repair, UpsertTrades(Collector)
  PROVE  RepairInv'
<1>1. session \in Sessions /\ run \in [Processes -> Runs] /\ Collector \in Processes
  BY DEF CollectorInv, TypeOK, Processes
<1>2. session.stage = "repair" /\ run[Collector].stage = "trades" /\ run'[Collector] = IdleRun
      /\ UNCHANGED <<market, history, snapshots>>
  BY <1>1 DEF Repair, UpsertTrades, UpsertLastTrades, At
<1>3. session' = [session EXCEPT !.stage = "ended", !.outcome = "repaired"]
  BY <1>2 DEF Repair
<1>4. session'.stage = "ended" /\ session'.ended = session.ended
  BY <1>1, <1>3 DEF Sessions
<1>5. \A post \in Relevant : Copied(post) /\ (Recent(post) => InHistory(post))
  BY <1>2 DEF RepairInv, HistoryInv, BooksInv
<1>6. Relevant' = Relevant
  BY <1>2, <1>4 DEF Relevant, market
<1>7. \A post : /\ Recent(post)' <=> Recent(post)
                /\ InHistory(post)' <=> InHistory(post)
                /\ Copied(post)' <=> Copied(post)
  BY <1>2, <1>4 DEF Recent, InHistory, Copied
<1>8. Complete'
  BY <1>5, <1>6, <1>7 DEF Complete
<1> QED
  BY <1>2, <1>4, <1>8 DEF RepairInv, market

\* A step of the repair keeps what it has done so far.
LEMMA RepairStep ==
  ASSUME CollectorInv, RepairInv, Repair
  PROVE  RepairInv'
<1>1. CASE UpsertTrades(Collector)
  BY <1>1, TradesStep
<1>2. CASE ~UpsertTrades(Collector)
  <2>1. session.stage = "repair" /\ BackfillStep(Collector)
    BY DEF Repair
  <2>2. UNCHANGED session
    BY <1>2, <2>1, StillCalled DEF Repair
  <2>3. (CallInv /\ HistoryInv /\ BooksInv)'
    BY <1>2, <2>1, <2>2, ReferenceStep, HistoryStep, PointsStep, BooksStep, SnapshotStep,
       BestStep DEF BackfillStep
  <2>4. UNCHANGED market
    BY <2>1, RowsStay DEF Processes
  <2> QED
    BY <2>1, <2>2, <2>3, <2>4 DEF RepairInv, market
<1> QED
  BY <1>1, <1>2

\* Every step keeps the invariant of the repair.
LEMMA NextRepair == CollectorInv /\ RepairInv /\ [Next]_vars => RepairInv'
<1> SUFFICES ASSUME CollectorInv, RepairInv, [Next]_vars PROVE RepairInv'
  OBVIOUS
<1>1. LatestInv
  BY DEF RepairInv, LatestInv
<1>2. run \in [Processes -> Runs] /\ Collector \in Processes /\ Backfiller \in Processes
      /\ Collector # Backfiller
  BY CollectorAssumption DEF CollectorInv, TypeOK, Processes
<1>3. ASSUME NEW t \in Tokens, NEW b \in Books[t], PostBook(t, b) PROVE RepairInv'
  <2>1. LatestInv' /\ clock' = clock + 1 /\ \A q \in past' : q \in past \/ q.ts = clock + 1
    BY <1>1, <1>3, PostLatest
  <2>2. UNCHANGED <<session, run, history, snapshots>> /\ past \subseteq past'
    BY <1>3 DEF PostBook, Post, store
  <2>3. clock \in Nat /\ session.ended \in Nat
    BY DEF CollectorInv, TypeOK, Sessions
  <2>4. session.ended <= clock => Relevant' = Relevant /\ session.ended <= clock'
    BY <2>1, <2>2, <2>3 DEF Relevant
  <2> QED
    BY <2>1, <2>2, <2>4, OthersStep
<1>4. ASSUME UNCHANGED <<market, session>>, run'[Collector] = run[Collector],
             history \subseteq history', snapshots \subseteq snapshots'
      PROVE  RepairInv'
  <2>1. LatestInv' /\ Relevant' = Relevant /\ clock' = clock
    BY <1>1, <1>4 DEF LatestInv, Relevant, market
  <2> QED
    BY <1>4, <2>1, OthersStep
<1>5. CASE Exchange
  BY <1>3, <1>4, <1>5 DEF Exchange, Announce, store
<1>6. CASE StartBackfill \/ BackfillDies
  <2>1. run'[Collector] = run[Collector] /\ UNCHANGED <<market, session, store>>
    BY <1>2, <1>6 DEF StartBackfill, BackfillDies
  <2> QED
    BY <1>4, <2>1 DEF store
<1>7. CASE Backfill
  <2>1. BackfillStep(Backfiller) /\ UNCHANGED session
    BY <1>7 DEF Backfill
  <2>2. run' = [run EXCEPT ![Backfiller] = run'[Backfiller]]
    BY <1>2, <2>1, BackfillHolds DEF CollectorInv
  <2>3. run'[Collector] = run[Collector]
    BY <1>2, <2>2
  <2> QED
    BY <1>2, <1>4, <2>1, <2>3, RowsStay
<1>8. CASE UNCHANGED vars
  BY <1>4, <1>8 DEF vars, store
<1> QED
  BY <1>5, <1>6, <1>7, <1>8, SessionStep, RecordGapStep, RepairStep DEF Next, Faults

\* fill_gap with backfill_top_tokens: a repair that ran to its end holds for
\* each token a book not older than the end of the gap and the history of the
\* minutes before it, whatever was posted or written meanwhile.
THEOREM CollectorRepairComplete == Spec => []RepairIsComplete
<1>1. RepairInv => RepairIsComplete
  BY DEF RepairInv, Complete, Relevant, Recent, Copied, InHistory, RepairIsComplete
<1> QED
  BY InitCollector, NextCollector, InitRepair, NextRepair, <1>1, PTL DEF Spec

=============================================================================
