---------------------------- MODULE OperatorSafety ----------------------------
(***************************************************************************)
(* OperatorSafetyService (services/operator_safety.py) as pure operators:  *)
(* the alerts of a market and its connections, the state of new orders     *)
(* they add up to, the actions they let through and the check before a     *)
(* switch of the mode.                                                     *)
(*                                                                         *)
(* A snapshot has prices in units of 1/1000 dollar, depths in dollars and  *)
(* times in minutes; Unknown stands for None.  connections is a function   *)
(* from the components that are connected to their status.                 *)
(***************************************************************************)
EXTENDS Integers, FiniteSets

CONSTANT Unknown

Components == {"DB", "MARKET_DATA_WS", "EXECUTION", "RISK"}
ConnectionStatuses == {"healthy", "degraded", "down"}
Modes == {"replay", "paper", "live-disabled"}
Actions == {"increase_exposure", "reduce", "close", "risk_release", "cancel", "replace"}

Alert(code, severity, scope) == [code |-> code, severity |-> severity, scope |-> scope]
Display(code, severity) == Alert(code, severity, "display_only")
StopsIncrease(code) == Alert(code, "Critical", "increase_exposure")
StopsAll(code) == Alert(code, "Critical", "all_new_orders")

If(condition, alert) == IF condition THEN {alert} ELSE {}

Larger(a, b) == IF a >= b THEN a ELSE b
Smaller(a, b) == IF a <= b THEN a ELSE b

-----------------------------------------------------------------------------
(***************************************************************************)
(* evaluate                                                                *)
(***************************************************************************)
\* _market_state_alerts
MarketStateAlerts(s) ==
  If(~s.active, StopsAll("MARKET_CLOSED"))
  \cup If(~s.accepting, StopsAll("MARKET_NOT_ACCEPTING_ORDERS"))
  \cup If(~s.available, StopsAll("MODE_UNAVAILABLE"))

\* _connection_alerts
ConnectionAlerts(connections) ==
  If(~(Components \subseteq DOMAIN connections), StopsAll("KEY_CONNECTION_INCOMPLETE"))
  \cup {StopsAll(c) : c \in {x \in DOMAIN connections : connections[x] = "down"}}
  \cup {Display(c, "Warning") : c \in {x \in DOMAIN connections : connections[x] = "degraded"}}

\* An expiry that stops every order, those that reduce included.
ExpiryAlertsStopAll(s) ==
  If(s.expiry # Unknown /\ s.expiry < 15, StopsAll("EXPIRY_CRITICAL"))

\* _expiry_alerts
ExpiryAlerts(s) ==
  CASE s.expiry = Unknown -> {}
    [] s.expiry # Unknown /\ s.expiry < 15 -> {StopsIncrease("EXPIRY_CRITICAL")}
    [] s.expiry # Unknown /\ s.expiry \in 15..59 -> {Display("EXPIRY_WARNING", "Warning")}
    [] s.expiry # Unknown /\ s.expiry \in 60..119 -> {Display("EXPIRY_INFO", "Info")}
    [] OTHER -> {}

\* A measure with a warning and a critical limit, of which the worse counts.
Graded(warning, critical, name) ==
  IF critical THEN {StopsIncrease(name)} ELSE If(warning, Display(name, "Warning"))

SpreadAlerts(s) ==
  LET known == s.bid # Unknown /\ s.ask # Unknown
      spread == s.ask - s.bid IN
  Graded(known /\ spread > Larger(3 * s.tick, 30),
         known /\ spread > Larger(5 * s.tick, 50), "LIQUIDITY_SPREAD")

\* _infer_top_of_book_depth
InferTopDepth(s) ==
  CASE s.bidDepth = Unknown -> s.askDepth
    [] s.askDepth = Unknown -> s.bidDepth
    [] OTHER -> Smaller(s.bidDepth, s.askDepth)

DepthAlerts(s) ==
  LET depth == IF s.topDepth # Unknown THEN s.topDepth ELSE InferTopDepth(s) IN
  Graded(depth # Unknown /\ depth < 2 * s.minSize, depth # Unknown /\ depth < s.minSize,
         "LIQUIDITY_DEPTH")

\* A market that never traded counts as one that has not for long.
ActivityAlerts(s) ==
  Graded(s.idle = Unknown \/ s.idle >= 5, s.idle = Unknown \/ s.idle >= 15, "ACTIVITY")

GapFillAlerts(s) == Graded(s.gaps > 0, s.gaps > 3, "GAP_FILL")

\* _book_integrity_alert
BookAlerts(s) ==
  CASE s.bid = Unknown /\ s.ask = Unknown -> {StopsIncrease("BOOK")}
    [] (s.bid = Unknown) # (s.ask = Unknown) -> {Display("BOOK", "Warning")}
    [] s.bid # Unknown /\ s.ask # Unknown /\ (s.bidDepth = Unknown \/ s.askDepth = Unknown) ->
         {Display("BOOK", "Warning")}
    [] OTHER ->
         LET small == Smaller(s.bidDepth, s.askDepth)
             large == Larger(s.bidDepth, s.askDepth) IN
         If(small = 0 \/ (small > 0 /\ large >= 10 * small), StopsIncrease("BOOK"))

Evaluate(s, connections) ==
  UNION {MarketStateAlerts(s), ConnectionAlerts(connections), ExpiryAlerts(s),
         SpreadAlerts(s), DepthAlerts(s), ActivityAlerts(s), GapFillAlerts(s), BookAlerts(s)}

-----------------------------------------------------------------------------
Blockers(alerts, scope) == {a \in alerts : a.severity = "Critical" /\ a.scope = scope}

\* _derive_block_state
BlockState(alerts) ==
  CASE Blockers(alerts, "all_new_orders") # {} -> "fully blocked"
    [] Blockers(alerts, "all_new_orders") = {} /\ Blockers(alerts, "increase_exposure") # {} ->
         "partially blocked"
    [] OTHER -> "allowed"

\* gate_action
Gate(alerts, action) ==
  \/ action = "cancel"
  \/ /\ Blockers(alerts, "all_new_orders") = {}
     /\ \/ Blockers(alerts, "increase_exposure") = {}
        \/ action \in {"reduce", "close", "risk_release"}

Required(mode) ==
  {"DB", "RISK"} \cup IF mode = "paper" THEN {"MARKET_DATA_WS", "EXECUTION"} ELSE {}

\* preflight, with the alerts of an evaluation or none.
Preflight(target, connections, alerts) ==
  [target |-> target,
   allowed |->
     \/ target = "live-disabled"
     \/ /\ \A c \in Required(target) : c \in DOMAIN connections /\ connections[c] # "down"
        /\ \A a \in alerts : a.severity # "Critical"]

=============================================================================
