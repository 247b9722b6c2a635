--------------------------- MODULE RealtimeCollector ---------------------------
(***************************************************************************)
(* MarketRealtimeCollector.collect_once and GapFillService.fill_gap        *)
(* (services/realtime_collector.py): the process that stores the messages  *)
(* of the market channel as they come and, when the session fails for any  *)
(* reason, records the gap and repairs it over REST.  Beside it the        *)
(* backfill command writes the same tables.                                *)
(***************************************************************************)
EXTENDS RestBackfill

CONSTANTS
  MaxMessages,      \* max_messages
  RecentHistory,    \* recent_history_minutes
  InboxSize,        \* bound of the messages on their way
  MaxStarts         \* bound of the number of times each process is started

ASSUME CollectorAssumption ==
  /\ MaxMessages \in Nat \ {0} /\ RecentHistory \in Nat
  /\ InboxSize \in Nat /\ MaxStarts \in [Processes -> Nat]
  /\ Collector # Backfiller

VARIABLES
  session,   \* the local state of collect_once
  inbox,     \* messages sent and not yet received
  starts     \* how often each process was started

vars == <<market, store, run, session, inbox, starts>>

Message == Events
NoMessage == [event_type |-> "none", posts |-> {}]

SessionStages == {"off", "receive", "normalize", "best", "gap", "repair", "ended"}
Outcomes == {"none", "closed", "limit", "repaired"}

\* started is gap_started_at, ended gap_ended_at; connection_id is made from
\* the time the collector was built.
Sessions ==
  [stage : SessionStages, message : Events \cup {NoMessage}, count : Nat,
   started : Nat, ended : Nat, connection : Nat, outcome : Outcomes]

OffSession ==
  [stage |-> "off", message |-> NoMessage, count |-> 0, started |-> 0, ended |-> 0,
   connection |-> 0, outcome |-> "none"]

Init ==
  /\ MarketInit /\ StoreInit
  /\ run = [p \in Processes |-> IdleRun]
  /\ session = OffSession
  /\ inbox = <<>>
  /\ starts = [p \in Processes |-> 0]

-----------------------------------------------------------------------------
(***************************************************************************)
(* The exchange.                                                           *)
(***************************************************************************)
PostBook(t, b) == Post(t, b) /\ UNCHANGED <<store, run, session, inbox, starts>>

Listening == session.stage \in {"receive", "normalize", "best"}

\* A message about books as they are now; none is sent about tokens that are
\* not subscribed to alone.
Announce(kind, tokens) ==
  /\ Listening /\ Len(inbox) < InboxSize
  /\ kind # "price_change" <=> \E t \in tokens : tokens = {t}
  /\ tokens \cap UniverseTokens # {}
  /\ \A t \in tokens : quote[t] # NoBook
  /\ inbox' = Append(inbox, Announced(kind, tokens))
  /\ UNCHANGED <<market, store, run, session, starts>>

-----------------------------------------------------------------------------
(***************************************************************************)
(* collect_once.                                                           *)
(***************************************************************************)
Subscribe ==
  /\ session.stage \in {"off", "ended"} /\ starts[Collector] < MaxStarts[Collector]
  /\ session' = [OffSession EXCEPT !.stage = "receive", !.started = clock,
                   !.connection = clock]
  /\ inbox' = <<>>
  /\ starts' = [starts EXCEPT ![Collector] = @ + 1]
  /\ UNCHANGED <<market, store, run>>

\* The raw row left for after the normalization.
ReceiveRawLater ==
  /\ session.stage = "receive" /\ inbox # <<>>
  /\ session' = [session EXCEPT !.stage = "normalize", !.message = Head(inbox),
                   !.count = @ + 1]
  /\ inbox' = Tail(inbox)
  /\ UNCHANGED <<market, store, run, starts>>

\* A message arrives and its raw row goes in, whatever it turns out to be.
Receive ==
  /\ session.stage = "receive" /\ inbox # <<>>
  /\ InsertRawWsEvent([message |-> Head(inbox), received |-> clock,
                       connection |-> session.connection])
  /\ session' = [session EXCEPT !.stage = "normalize", !.message = Head(inbox),
                   !.count = @ + 1]
  /\ inbox' = Tail(inbox)
  /\ UNCHANGED <<market, run, starts>>

\* After a message: leave the loop at max_messages.
Handled ==
  IF session.count >= MaxMessages
  THEN [session EXCEPT !.stage = "ended", !.message = NoMessage, !.outcome = "limit"]
  ELSE [session EXCEPT !.stage = "receive", !.message = NoMessage]

\* _token: the posts of the message about subscribed tokens.
KnownPosts == {q \in session.message.posts : q.token \in UniverseTokens}

\* The rows of several posts in one upsert; an unknown token is skipped.
UpsertQuotes(posts) ==
  UpsertBestBidAsk(TokensOf(posts),
    [t \in TokensOf(posts) |-> BestBidAskRow(PostOf(posts, t), "CLOB_WS", FALSE)])

NormalizeBook ==
  /\ session.message.event_type = "book"
  /\ \E q \in KnownPosts :
       /\ InsertBookSnapshot(Marked(q, "CLOB_WS", FALSE))
       /\ session' = IF HasBest(q) THEN [session EXCEPT !.stage = "best"] ELSE Handled

NormalizeQuotes ==
  /\ session.message.event_type \in {"price_change", "best_bid_ask"}
  /\ UpsertQuotes(KnownPosts)
  /\ session' = Handled

NormalizeLastTrade ==
  /\ session.message.event_type = "last_trade_price"
  /\ LET traded == {q \in KnownPosts : q.trade # NoPrice} IN
     UpsertLastTrades(TokensOf(traded),
       [t \in TokensOf(traded) |-> LastTradeRow(PostOf(traded, t), "CLOB_WS", FALSE)])
  /\ session' = Handled

KeepRawOnly ==
  /\ session.message.event_type = "tick_size_change"
  /\ session' = Handled
  /\ UNCHANGED store

Normalize ==
  /\ session.stage = "normalize"
  /\ NormalizeBook \/ NormalizeQuotes \/ NormalizeLastTrade \/ KeepRawOnly
  /\ UNCHANGED <<market, run, inbox, starts>>

\* The second write of a book message.
NormalizeBest ==
  /\ session.stage = "best"
  /\ UpsertQuotes(KnownPosts)
  /\ session' = Handled
  /\ UNCHANGED <<market, run, inbox, starts>>

\* The server closes the socket in good order: no gap.
Close ==
  /\ session.stage = "receive" /\ inbox = <<>>
  /\ session' = [session EXCEPT !.stage = "ended", !.outcome = "closed"]
  /\ UNCHANGED <<market, store, run, inbox, starts>>

\* The gap taken to begin where it was noticed.
FailFromNow ==
  /\ Listening
  /\ session' = [session EXCEPT !.stage = "gap", !.message = NoMessage,
                   !.started = clock, !.ended = clock]
  /\ inbox' = <<>>
  /\ UNCHANGED <<market, store, run, starts>>

\* Any exception while listening: the connection, a frame that is not JSON, a
\* number that does not parse, a failed write.  The interval to repair reaches
\* from the start of the session to now.
Fail ==
  /\ Listening
  /\ session' = [session EXCEPT !.stage = "gap", !.message = NoMessage,
                   !.ended = clock]
  /\ inbox' = <<>>
  /\ UNCHANGED <<market, store, run, starts>>

\* The repair that writes nothing about the interval.
RecordGapNowhere ==
  /\ session.stage = "gap"
  /\ UNCHANGED store
  /\ session' = [session EXCEPT !.stage = "repair"]
  /\ run' = [run EXCEPT ![Collector] =
               CalledRun(TRUE, session.ended - RecentHistory, session.ended)]
  /\ UNCHANGED <<market, inbox, starts>>

\* fill_gap: record the interval, then run the backfill on the subscribed
\* tokens for the last recent_history_minutes.
RecordGap ==
  /\ session.stage = "gap"
  /\ RecordGapInterval([tokens |-> UniverseTokens, started |-> session.started,
                        ended |-> session.ended, connection |-> session.connection])
  /\ session' = [session EXCEPT !.stage = "repair"]
  /\ run' = [run EXCEPT ![Collector] =
               CalledRun(TRUE, session.ended - RecentHistory, session.ended)]
  /\ UNCHANGED <<market, inbox, starts>>

Repair ==
  /\ session.stage = "repair"
  /\ BackfillStep(Collector)
  /\ session' = IF run'[Collector] = IdleRun
                THEN [session EXCEPT !.stage = "ended", !.outcome = "repaired"]
                ELSE session
  /\ UNCHANGED <<inbox, starts>>

\* A failed fetch or write outside the session, or a kill at any time.
CollectorDies ==
  /\ session.stage \notin {"off", "ended"}
  /\ session' = [session EXCEPT !.stage = "ended", !.message = NoMessage]
  /\ run' = [run EXCEPT ![Collector] = IdleRun]
  /\ inbox' = <<>>
  /\ UNCHANGED <<market, store, starts>>

-----------------------------------------------------------------------------
(***************************************************************************)
(* The backfill command names no window for the history.                   *)
(***************************************************************************)
StartBackfill ==
  /\ At(Backfiller, "idle") /\ starts[Backfiller] < MaxStarts[Backfiller]
  /\ run' = [run EXCEPT ![Backfiller] = CalledRun(FALSE, 0, 0)]
  /\ starts' = [starts EXCEPT ![Backfiller] = @ + 1]
  /\ UNCHANGED <<market, store, session, inbox>>

Backfill == BackfillStep(Backfiller) /\ UNCHANGED <<session, inbox, starts>>

BackfillDies ==
  /\ ~At(Backfiller, "idle")
  /\ run' = [run EXCEPT ![Backfiller] = IdleRun]
  /\ UNCHANGED <<market, store, session, inbox, starts>>

-----------------------------------------------------------------------------
Exchange ==
  \/ \E t \in Tokens : \E b \in Books[t] : PostBook(t, b)
  \/ \E kind \in {"book", "price_change", "best_bid_ask", "last_trade_price",
                  "tick_size_change"},
        tokens \in SUBSET Tokens : Announce(kind, tokens)

Faults == Close \/ Fail \/ CollectorDies \/ BackfillDies

Next ==
  \/ Exchange \/ Faults
  \/ Subscribe \/ Receive \/ Normalize \/ NormalizeBest \/ RecordGap \/ Repair
  \/ StartBackfill \/ Backfill

Spec == Init /\ [][Next]_vars

-----------------------------------------------------------------------------
(***************************************************************************)
(* Properties.                                                             *)
(***************************************************************************)
Sources == {"CLOB_WS", "CLOB_REST"}
StoredPosts == [post : Posts, source : Sources, gap : BOOLEAN]
RawEvents == [message : Events, received : Nat, connection : Nat]
RawPayloads == [endpoint : {"/batch-prices-history", "/books"}, posts : SUBSET Posts, gap : BOOLEAN]
GapIntervals == [tokens : SUBSET Tokens, started : Nat, ended : Nat, connection : Nat]

TypeOK ==
  /\ clock \in Nat /\ quote \in [Tokens -> Posts \cup {NoBook}] /\ past \subseteq Posts
  /\ run \in [Processes -> Runs] /\ session \in Sessions /\ starts \in [Processes -> Nat]
  /\ inbox \in Seq(Events)
  /\ reference \in [Tokens -> {NoRow, "gap_fill", "top_n"}]
  /\ events \subseteq RawEvents /\ payloads \subseteq RawPayloads
  /\ intervals \subseteq GapIntervals
  /\ history \subseteq StoredPosts /\ snapshots \subseteq StoredPosts

\* README.md ("writes raw events before normalized latest-state rows"): every
\* stored row can be traced to a raw payload of its source that was stored
\* before it, whichever write failed and wherever a process was killed.
InRaw(post, source, gap) ==
  IF source = "CLOB_WS"
  THEN \E e \in events : post \in e.message.posts
  ELSE \E r \in payloads : post \in r.posts /\ r.gap = gap

RawFirst ==
  /\ \A row \in history \cup snapshots : InRaw(row.post, row.source, row.gap)
  /\ \A t \in Tokens :
       LET best == bestBidAsk[t]
           trade == lastTrades[t] IN
       /\ best # NoRow =>
            \E post \in past : post.token = t /\ post.ts = best.ts
                               /\ InRaw(post, best.source, best.gap)
       /\ trade # NoRow =>
            \E post \in past : post.token = t /\ post.ts = trade.ts
                               /\ InRaw(post, trade.source, trade.gap)

\* 02-CONTEXT.md D-11 (a repaired interval is marked, not passed off as live):
\* for every row that repairs a gap an interval with its token is on record, from
\* the first such row on and also when the repair stops half way.
GapRowsAreExplained ==
  LET explained(t) == \E i \in intervals : t \in i.tokens IN
  /\ \A row \in history \cup snapshots : row.gap => explained(row.post.token)
  /\ \A t \in Tokens :
       /\ bestBidAsk[t] # NoRow /\ bestBidAsk[t].gap => explained(t)
       /\ lastTrades[t] # NoRow /\ lastTrades[t].gap => explained(t)

\* The interval recorded for a connection contains everything the connection
\* had delivered before it failed.
GapsCoverTheSession ==
  \A i \in intervals, e \in events :
    e.connection = i.connection => i.started <= e.received

\* The latest rows never show a market that was not: each shows the best
\* prices, or the last price, of a book its token had at the row's time.
LatestRowsWereTrue ==
  \A t \in Tokens :
    LET best == bestBidAsk[t]
        trade == lastTrades[t] IN
    /\ best # NoRow =>
         \E post \in past :
           /\ post.token = t /\ post.ts = best.ts
           /\ best.bid \in post.bids \/ (best.bid = NoPrice /\ post.bids = {})
           /\ best.ask \in post.asks \/ (best.ask = NoPrice /\ post.asks = {})
           /\ \A p \in post.bids : p <= best.bid
           /\ \A p \in post.asks : best.ask <= p
    /\ trade # NoRow =>
         \E post \in past :
           post.token = t /\ post.ts = trade.ts /\ post.trade = trade.price

\* A repair that ran to its end holds, for each token, the book of the end of
\* the gap or a later one, and the history of the last minutes before it.
RepairIsComplete ==
  session.outcome = "repaired" =>
    \A post \in past :
      post.token \in UniverseTokens /\ post.ts <= session.ended =>
        /\ \E s \in snapshots : s.gap /\ s.post.token = post.token /\ s.post.ts >= post.ts
        /\ post.ts >= session.ended - RecentHistory =>
             Marked(post, "CLOB_REST", TRUE) \in history

\* The repair of a gap never replaces what the backfill knows of a token by
\* the placeholder it makes up for it.
KeepsTheUniverse ==
  [][\A t \in Tokens : reference[t] = "top_n" => reference'[t] = "top_n"]_vars

=============================================================================
