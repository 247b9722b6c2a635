---------------------------- MODULE SignalSizing ----------------------------
(***************************************************************************)
(* SignalExecutionService.translate_signal (services/signal_execution.py): *)
(* from a target to an order, as pure operators over the context the       *)
(* strategy runtime builds.                                                *)
(*                                                                         *)
(* A context is [market, positions, cash].  market[t] is the entry of      *)
(* by_token, NoQuote for a token that has none: the flat fields the code   *)
(* then looks at hold no price, so every price falls back to 0.5 dollars.  *)
(* Prices are ticks, One of them a dollar; sizes are lots, OneShare of     *)
(* them a share; money is in ticks times lots.  A price of 0 stands for    *)
(* None.  Where the code divides, with 28 digits, the model rounds down.   *)
(***************************************************************************)
EXTENDS OrderLifecycle, Sequences, FiniteSetsExt

CONSTANTS
  Tokens, NoQuote,
  One, OneShare,
  ExposureMode      \* sizing.target_exposure_mode

ASSUME SizingAssumption ==
  /\ One \in Nat \ {0} /\ One % 2 = 0
  /\ OneShare \in Nat \ {0}
  /\ ExposureMode \in {"fraction_of_equity", "notional"}

\* StrategySignal: the position to reach, or the exposure to reach.  An
\* exposure is a notional, or the percentage of equity.
Signal == [token : Tokens, kind : {"position", "exposure"}, target : Int]

Half == One \div 2

\* _first_decimal with the fallback that every caller ends its list with.
FirstPositive(prices) ==
  LET known == SelectSeq(prices, LAMBDA p : p > 0)
  IN  IF known = << >> THEN Half ELSE known[1]

\* _reference_price
ReferencePrice(t, ctx) ==
  LET q == ctx.market[t]
  IN  IF q = NoQuote THEN Half
      ELSE FirstPositive(<<q.midpoint, q.last_trade_price,
                           q.best_ask, q.best_bid>>)

\* _execution_price: aggressive on the side of the order.
ExecutionPrice(t, side, ctx) ==
  LET q == ctx.market[t]
  IN  IF q = NoQuote THEN Half
      ELSE FirstPositive(<<IF side = "BUY" THEN q.best_ask ELSE q.best_bid,
                           q.midpoint, q.last_trade_price>>)

\* _portfolio_equity
PortfolioEquity(ctx) ==
  ctx.cash + MapThenSumSet(LAMBDA t : ctx.positions[t] * ReferencePrice(t, ctx),
                           Tokens)

TargetNotional(signal, ctx) ==
  IF ExposureMode = "notional" THEN signal.target
  ELSE (PortfolioEquity(ctx) * signal.target) \div 100

\* _resolve_target_position
TargetPosition(signal, ctx) ==
  IF signal.kind = "position" THEN signal.target
  ELSE TargetNotional(signal, ctx) \div ReferencePrice(signal.token, ctx)

\* The whole target ordered, whatever is held.
DeltaFromNothing(signal, ctx) == TargetPosition(signal, ctx)

\* The distance of the held position from the target; 0 means no order.
Delta(signal, ctx) ==
  TargetPosition(signal, ctx) - ctx.positions[signal.token]

\* The intent of translate_signal for a delta that is not 0.
IntentFor(signal, ctx) ==
  LET d    == Delta(signal, ctx)
      side == IF d > 0 THEN "BUY" ELSE "SELL"
  IN  [side  |-> side,
       price |-> ExecutionPrice(signal.token, side, ctx),
       size  |-> IF d > 0 THEN d ELSE -d]

\* translate_signal: no order for a target that is held already, one order
\* otherwise.
TranslateSignal(signal, ctx) ==
  IF Delta(signal, ctx) = 0 THEN {} ELSE {IntentFor(signal, ctx)}

=============================================================================
