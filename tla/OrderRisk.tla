----------------------------- MODULE OrderRisk -----------------------------
(***************************************************************************)
(* The pre-trade checks of services/order_risk.py, as pure operators.      *)
(* Constraints are [tick, min_order_size, spread, open]: `open` is         *)
(* active /\ accepting_orders.  The checks that order and constraints name *)
(* one token and one condition are left out: both are read from one market *)
(* data entry.  A value that is None in the code is Unset.                 *)
(***************************************************************************)
EXTENDS OrderLifecycle

CONSTANT Unset

ReasonCodes ==
  {"MARKET_NOT_ACCEPTING_ORDERS", "INVALID_TICK_SIZE", "BELOW_MIN_ORDER_SIZE",
   "INSUFFICIENT_CASH", "INSUFFICIENT_POSITION", "MAX_SINGLE_ORDER_EXCEEDED",
   "MAX_MARKET_POSITION_EXCEEDED", "MAX_TOKEN_POSITION_EXCEEDED"}

Notional(intent) == intent.price * intent.size

\* validate_order_intent: the reasons for which the venue would refuse it.
InvalidIntent(intent, constraints) ==
  {c \in ReasonCodes :
     \/ c = "MARKET_NOT_ACCEPTING_ORDERS" /\ ~constraints.open
     \/ /\ c = "INVALID_TICK_SIZE"
        /\ constraints.tick > 0
        /\ intent.price % constraints.tick # 0
     \/ /\ c = "BELOW_MIN_ORDER_SIZE"
        /\ intent.size < constraints.min_order_size}

\* The position limit of a token left out.
HardReasonsNoTokenLimit(intent, constraints, limits) ==
  InvalidIntent(intent, constraints) \cup
  {c \in ReasonCodes :
     \/ /\ c = "INSUFFICIENT_CASH" /\ intent.side = "BUY"
        /\ Notional(intent) > limits.cash_available
     \/ /\ c = "INSUFFICIENT_POSITION" /\ intent.side = "SELL"
        /\ intent.size > limits.token_position
     \/ /\ c = "MAX_SINGLE_ORDER_EXCEEDED"
        /\ Notional(intent) > limits.max_single_order_notional}

\* The hard checks of apply_risk_checks.  The projected token position adds
\* the size of the order whichever its side.
HardReasons(intent, constraints, limits) ==
  InvalidIntent(intent, constraints) \cup
  {c \in ReasonCodes :
     \/ /\ c = "INSUFFICIENT_CASH" /\ intent.side = "BUY"
        /\ Notional(intent) > limits.cash_available
     \/ /\ c = "INSUFFICIENT_POSITION" /\ intent.side = "SELL"
        /\ intent.size > limits.token_position
     \/ /\ c = "MAX_SINGLE_ORDER_EXCEEDED"
        /\ Notional(intent) > limits.max_single_order_notional
     \/ /\ c = "MAX_MARKET_POSITION_EXCEEDED"
        /\ limits.current_market_position + Notional(intent)
             > limits.max_market_position
     \/ /\ c = "MAX_TOKEN_POSITION_EXCEEDED"
        /\ limits.current_token_position + intent.size
             > limits.max_token_position}

\* _threshold_crossed
ThresholdCrossed(value, threshold) ==
  value # Unset /\ threshold # Unset /\ value > threshold

\* Any of the four warnings.
Warned(intent, constraints, limits) ==
  \/ ThresholdCrossed(limits.portfolio_exposure + Notional(intent),
                      limits.portfolio_exposure_warning)
  \/ ThresholdCrossed(limits.event_exposure + Notional(intent),
                      limits.event_exposure_warning)
  \/ ThresholdCrossed(limits.drawdown, limits.drawdown_warning)
  \/ ThresholdCrossed(constraints.spread, limits.liquidity_warning_spread)

ApplyRiskChecks(intent, constraints, limits) ==
  CASE HardReasons(intent, constraints, limits) # {} -> "REJECT"
    [] Warned(intent, constraints, limits)
         /\ HardReasons(intent, constraints, limits) = {} -> "WARN"
    [] OTHER -> "ALLOW"

=============================================================================
