--------------------------- MODULE RealtimeRunner ---------------------------
(***************************************************************************)
(* One realtime paper run: RealtimeStrategyRunner                          *)
(* (services/realtime_strategy_runner.py) driving a StrategyRuntime        *)
(* (services/strategy_runtime.py), with the constraints, limits and        *)
(* snapshots that services/strategy_cli.py provides and a paper exchange   *)
(* without a store, as both command lines wire it.                         *)
(*                                                                         *)
(* The strategy is anything: whenever it is called it may return any short *)
(* list of signals.  The signals of one call are dispatched one by one;    *)
(* after each order the strategy is called again for the risk decision and *)
(* for every fill, with a context updated fill by fill, and what it        *)
(* returns from these calls is dropped.  So a signal is several steps here: *)
(* the submission, then one step per feedback call.                        *)
(*                                                                         *)
(* An order is the record of OrderLifecycle with its token.  The fees of   *)
(* the fills a submission returns are 0, so the runner's cash has none.    *)
(***************************************************************************)
EXTENDS SignalSizing, OrderRisk, MatchingContract

CONSTANTS
  Quotes,          \* the entries of by_token that market events carry
  Batches,         \* the lists of signals a strategy may return
  StartingCash,    \* risk.cash_available
  MaxOrder, MaxMarket, MaxToken,   \* the configured position limits
  Engine(_, _, _), \* the fill engine: order, book, submission effective
  SubmitLatency,   \* fill_config.submit_latency_ms
  DefaultDepth,    \* the size given to a best price without levels
  NoResult,
  MaxCalls         \* bound: how often the run calls the strategy

BookSide == Seq([price : 0 .. One, size : Int])
Quote ==
  [best_bid : 0 .. One, best_ask : 0 .. One, midpoint : 0 .. One,
   last_trade_price : 0 .. One, tick : Nat \ {0}, min_order_size : Nat \ {0},
   open : BOOLEAN, bids : BookSide, asks : BookSide]

OpenOrder(intent) ==
  Transition(Transition(CreateOrder(intent), "ACCEPTED"), "OPEN")

Result == [token : Tokens, order : SimulatedOrder, fills : Seq(FillTerms)]

OrDefault(levels, best) ==
  IF levels = << >> /\ best # 0
  THEN <<[price |-> best, size |-> DefaultDepth]>> ELSE levels

\* _snapshot_from_runtime for one market entry.  Both sides empty stand for no
\* snapshot: the fill engine leaves the order OPEN, as the exchange does
\* without one.
BookOf(q) ==
  IF q = NoQuote THEN [bids |-> << >>, asks |-> << >>]
  ELSE [bids |-> OrDefault(q.bids, q.best_bid),
        asks |-> OrDefault(q.asks, q.best_ask)]

ASSUME RunAssumption ==
  /\ StartingCash \in Nat /\ MaxToken \in Nat /\ MaxMarket \in Nat
  /\ MaxOrder \in Nat \cup {Unset} /\ Unset \notin Nat
  /\ SubmitLatency \in Nat /\ DefaultDepth \in Nat \ {0} /\ MaxCalls \in Nat
  /\ Quotes \subseteq Quote /\ NoQuote \notin Quotes /\ NoResult \notin Result
  /\ \A b \in Batches : b \in Seq(Signal)

\* What the runner relies on, for every order the risk checks let through:
\* no fill is lost or counted twice, and none trades through the limit price.
ASSUME EngineAssumption ==
  \A side \in OrderSide, price \in 0 .. One, size \in 1 .. MaxToken :
    \A q \in Quotes \cup {NoQuote} :
      LET order == OpenOrder([side |-> side, price |-> price, size |-> size])
          r == Engine(order, BookOf(q), SubmitLatency = 0)
      IN  r \in FillResult /\ Accounted(order, r) /\ RespectsTheLimit(order, r)

VARIABLES
  phase,      \* of the run: "new", "running", "finished" or "failed"
  market,     \* runtime.state.market_data["by_token"]
  portfolio,  \* runtime.state.portfolio: what strategy and limits look at
  positions, cash, orders,   \* the runner's _positions, _cash and _orders
  queue,      \* the signals of the last call, the one in dispatch first
  result,     \* the PaperOrderResult whose feedback is being given
  calls       \* how often the strategy was called

records == <<positions, cash, orders>>
vars == <<phase, market, portfolio, records, queue, result, calls>>

Portfolio == [positions |-> positions, cash |-> cash, open_orders |-> orders]

Init ==
  /\ phase = "new"
  /\ market = [t \in Tokens |-> NoQuote]
  /\ positions = [t \in Tokens |-> 0]
  /\ cash = StartingCash
  /\ orders = << >>
  /\ portfolio = Portfolio
  /\ queue = << >>
  /\ result = NoResult
  /\ calls = 0

-----------------------------------------------------------------------------
(***************************************************************************)
(* What strategy_cli.py provides for one signal.                           *)
(***************************************************************************)
\* build_context, for the part that sizing reads.
Context ==
  [market |-> market, positions |-> portfolio.positions, cash |-> portfolio.cash]

\* _constraints_from_runtime
ConstraintsFor(t) ==
  LET q == market[t]
  IN  IF q = NoQuote
      THEN [tick |-> 1, min_order_size |-> OneShare, open |-> TRUE,
            spread |-> Unset]
      ELSE [tick |-> q.tick, min_order_size |-> q.min_order_size,
            open |-> q.open,
            spread |-> IF q.best_bid = 0 \/ q.best_ask = 0 THEN Unset
                       ELSE q.best_ask - q.best_bid]

\* The limits with the cash the run started with.
LimitsForStaleCash(t) ==
  [cash_available |-> StartingCash,
   token_position |-> portfolio.positions[t],
   current_token_position |-> portfolio.positions[t],
   max_single_order_notional |-> IF MaxOrder = Unset THEN StartingCash ELSE MaxOrder,
   max_market_position |-> MaxMarket, max_token_position |-> MaxToken,
   current_market_position |-> 0, portfolio_exposure |-> 0,
   event_exposure |-> 0, drawdown |-> 0,
   portfolio_exposure_warning |-> Unset, event_exposure_warning |-> Unset,
   drawdown_warning |-> Unset, liquidity_warning_spread |-> Unset]

\* _limits_from_runtime.  The exposures and the current market position are
\* configuration values that nothing updates; no warning threshold is passed.
LimitsFor(t) ==
  [cash_available |-> portfolio.cash,
   token_position |-> portfolio.positions[t],
   current_token_position |-> portfolio.positions[t],
   max_single_order_notional |->
     CASE MaxOrder # Unset -> MaxOrder
       [] MaxOrder = Unset /\ portfolio.cash # 0 -> portfolio.cash
       [] OTHER -> 100 * One * OneShare,
   max_market_position |-> MaxMarket, max_token_position |-> MaxToken,
   current_market_position |-> 0, portfolio_exposure |-> 0,
   event_exposure |-> 0, drawdown |-> 0,
   portfolio_exposure_warning |-> Unset, event_exposure_warning |-> Unset,
   drawdown_warning |-> Unset, liquidity_warning_spread |-> Unset]

SnapshotFor(t) == BookOf(market[t])

-----------------------------------------------------------------------------
(***************************************************************************)
(* submit_order_intent of a paper exchange without a store.  now and       *)
(* created_at are both the time of the signal, so the submission is        *)
(* effective exactly when the latency is 0.                                *)
(***************************************************************************)
Decision(t, intent) ==
  ApplyRiskChecks(intent, ConstraintsFor(t), LimitsFor(t))

Outcome(t, intent) ==
  Engine(OpenOrder(intent), SnapshotFor(t), SubmitLatency = 0)

OrderAfter(intent, outcome) ==
  CASE outcome.status = "FILLED" -> MarkFilled(OpenOrder(intent))
    [] outcome.status = "PARTIALLY_FILLED" ->
         MarkPartiallyFilled(OpenOrder(intent), outcome.remaining_size)
    [] OTHER -> OpenOrder(intent)

SubmissionResult(t, intent) ==
  IF Decision(t, intent) = "REJECT"
  THEN [token |-> t, order |-> Transition(CreateOrder(intent), "REJECTED"),
        fills |-> << >>]
  ELSE [token |-> t, order |-> OrderAfter(intent, Outcome(t, intent)),
        fills |-> Outcome(t, intent).fills]

\* OrderIntent and SimulatedFill validate what they are given.
Raises(t, intent) ==
  \/ intent \notin OrderIntent
  \/ intent.price > One
  \/ Decision(t, intent) # "REJECT" /\ Outcome(t, intent).status = "RAISED"

-----------------------------------------------------------------------------
(***************************************************************************)
(* The calls of the run.                                                   *)
(***************************************************************************)
\* The runner waits for the next event: nothing is left to dispatch.
Waiting == phase = "running" /\ queue = << >>

CallStrategy ==
  /\ calls < MaxCalls
  /\ calls' = calls + 1
  /\ queue' \in Batches

OnInit ==
  /\ phase = "new"
  /\ phase' = "running"
  /\ CallStrategy
  /\ UNCHANGED <<market, portfolio, records, result>>

\* A MARKET event: its payload replaces by_token as a whole, and the payload
\* holds the entry of one token.
OnMarketEvent ==
  /\ Waiting
  /\ \E t \in Tokens, q \in Quotes :
       market' = [u \in Tokens |-> IF u = t THEN q ELSE NoQuote]
  /\ CallStrategy
  /\ UNCHANGED <<phase, portfolio, records, result>>

OnClock ==
  /\ Waiting
  /\ CallStrategy
  /\ UNCHANGED <<phase, market, portfolio, records, result>>

OnFinish ==
  /\ Waiting
  /\ phase' = "finished"
  /\ UNCHANGED <<market, portfolio, records, queue, result, calls>>

-----------------------------------------------------------------------------
(***************************************************************************)
(* _dispatch_signals and _record_feedback.                                 *)
(***************************************************************************)
Dispatching == phase = "running" /\ queue # << >> /\ result = NoResult
SignalInDispatch == Head(queue)
IntentsInDispatch == TranslateSignal(SignalInDispatch, Context)

\* A target that is already held needs no order.
SkipSignal ==
  /\ Dispatching
  /\ IntentsInDispatch = {}
  /\ queue' = Tail(queue)
  /\ UNCHANGED <<phase, market, portfolio, records, result, calls>>

\* Filled orders kept.
BookedOrdersKeepsFilled(r) ==
  IF r.order.status \in {"CANCELED", "REJECTED", "REPLACED"}
  THEN orders ELSE Append(orders, [token |-> r.token, order |-> r.order])

\* _update_order_book: the identifier is new, so there is nothing to remove.
BookedOrders(r) ==
  IF r.order.status \in {"CANCELED", "FILLED", "REJECTED", "REPLACED"}
  THEN orders ELSE Append(orders, [token |-> r.token, order |-> r.order])

\* The order is submitted and the strategy told of the risk decision.
SubmitSignal ==
  /\ Dispatching
  /\ \E intent \in IntentsInDispatch :
       LET t == SignalInDispatch.token
       IN  /\ ~Raises(t, intent)
           /\ result' = SubmissionResult(t, intent)
           /\ orders' = BookedOrders(result')
  /\ UNCHANGED <<phase, market, portfolio, positions, cash, queue, calls>>

\* An exception leaves the event loop and ends the run.
RunFails ==
  /\ Dispatching
  /\ \E intent \in IntentsInDispatch :
       Raises(SignalInDispatch.token, intent)
  /\ phase' = "failed"
  /\ queue' = << >>
  /\ UNCHANGED <<market, portfolio, records, result, calls>>

CashAfter(side, fill) ==
  IF side = "BUY" THEN cash - fill.price * fill.size
                  ELSE cash + fill.price * fill.size

PositionAfter(side, t, fill) ==
  IF side = "BUY" THEN positions[t] + fill.size ELSE positions[t] - fill.size

\* One EXECUTION event: the fill is applied and the strategy called with the
\* portfolio it leaves.
FeedbackFill ==
  /\ result # NoResult
  /\ result.fills # << >>
  /\ LET fill == Head(result.fills)
         side == result.order.side
     IN  /\ positions' = [positions EXCEPT ![result.token] =
                            PositionAfter(side, result.token, fill)]
         /\ cash' = CashAfter(side, fill)
  /\ UNCHANGED <<phase, market, orders, calls>>
  /\ portfolio' = Portfolio'
  /\ IF Len(result.fills) = 1
     THEN result' = NoResult /\ queue' = Tail(queue)
     ELSE /\ result' = [result EXCEPT !.fills = Tail(@)]
          /\ UNCHANGED queue

\* The event left out for orders that got no fill.
FeedbackOrderSilent ==
  /\ result # NoResult
  /\ result.fills = << >>
  /\ result' = NoResult
  /\ queue' = Tail(queue)
  /\ UNCHANGED <<phase, market, portfolio, records, calls>>

\* A rejected order submitted again.
FeedbackOrderRetries ==
  /\ result # NoResult
  /\ result.fills = << >>
  /\ portfolio' = Portfolio
  /\ result' = NoResult
  /\ queue' = IF result.order.status = "REJECTED" THEN queue ELSE Tail(queue)
  /\ UNCHANGED <<phase, market, records, calls>>

\* The single EXECUTION event of an order without fills.
FeedbackOrder ==
  /\ result # NoResult
  /\ result.fills = << >>
  /\ portfolio' = Portfolio
  /\ result' = NoResult
  /\ queue' = Tail(queue)
  /\ UNCHANGED <<phase, market, records, calls>>

Dispatch ==
  SkipSignal \/ SubmitSignal \/ RunFails \/ FeedbackFill \/ FeedbackOrder

Next == OnInit \/ OnMarketEvent \/ OnClock \/ OnFinish \/ Dispatch

Spec == Init /\ [][Next]_vars

\* Dispatching waits for nobody.
FairSpec == Spec /\ WF_vars(Dispatch)

-----------------------------------------------------------------------------
BookedOrder == [token : Tokens, order : SimulatedOrder]

\* The runner's own records are well formed.
TypeOK ==
  /\ phase \in {"new", "running", "finished", "failed"}
  /\ market \in [Tokens -> Quotes \cup {NoQuote}]
  /\ positions \in [Tokens -> Int]
  /\ cash \in Int
  /\ orders \in Seq(BookedOrder)
  /\ portfolio \in [positions : [Tokens -> Int], cash : Int,
                    open_orders : Seq(BookedOrder)]
  /\ queue \in Seq(Signal)
  /\ result \in Result \cup {NoResult}
  /\ calls \in 0 .. MaxCalls

\* Cash is never overdrawn and nothing is sold short, however many signals
\* one call returns: each order is checked against the portfolio that the
\* fills of the one before have left.
Solvent == cash >= 0 /\ \A t \in Tokens : positions[t] >= 0

\* max_token_position bounds the position itself, not only one order.
WithinTokenLimit == \A t \in Tokens : positions[t] <= MaxToken

\* Between two orders the strategy's context and the runner agree on
\* positions, cash and open orders.
StrategySeesThePortfolio == result = NoResult => portfolio = Portfolio

\* Every fill moves the position of the signal's token alone, towards the
\* target position and never past it.
TowardsTarget ==
  [][\A t \in Tokens : positions'[t] # positions[t] =>
       LET s == SignalInDispatch
       IN  /\ t = s.token
           /\ s.kind = "position" =>
                \/ positions[t] < positions'[t] /\ positions'[t] <= s.target
                \/ positions[t] > positions'[t] /\ positions'[t] >= s.target]_vars

\* An order that the strategy sees as open still has something to fill.
OpenOrdersAreWorking ==
  \A i \in DOMAIN portfolio.open_orders :
    LET o == portfolio.open_orders[i].order
    IN  o.status \in {"OPEN", "PARTIALLY_FILLED"} /\ o.remaining_size > 0

\* The signals of a call are dispatched to the last one, unless the run fails.
SignalsDrain == queue # << >> ~> queue = << >>

=============================================================================
