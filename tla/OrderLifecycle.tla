--------------------------- MODULE OrderLifecycle ---------------------------
(***************************************************************************)
(* The life of a simulated order: services/order_lifecycle.py with the     *)
(* enumerations and the order model of domain/simulation.py.               *)
(*                                                                         *)
(* An order is a record with the columns the exchange and the ledger read. *)
(* Identifiers, timestamps and reasons are left out: the identifier is the *)
(* index of the tables that hold the order.                                *)
(***************************************************************************)
EXTENDS Integers

OrderSide == {"BUY", "SELL"}

OrderStatus ==
  {"PENDING", "ACCEPTED", "OPEN", "PARTIALLY_FILLED", "FILLED",
   "CANCEL_REQUESTED", "CANCELED", "REPLACE_REQUESTED", "REPLACED",
   "REJECTED", "EXPIRED"}

RiskDecisionType == {"ALLOW", "WARN", "REJECT"}

\* The validated part of an OrderIntent: a price in ticks and a positive size.
OrderIntent == [side : OrderSide, price : Nat, size : Nat \ {0}]

SimulatedOrder ==
  [side : OrderSide, price : Nat, size : Nat \ {0},
   remaining_size : Nat, status : OrderStatus]

-----------------------------------------------------------------------------
\* The table with FILLED listed among the statuses that may still be canceled.
LegalTransitionsFilledCancels(s) ==
  CASE s = "PENDING" -> {"ACCEPTED", "REJECTED"}
    [] s = "ACCEPTED" -> {"OPEN", "REJECTED"}
    [] s \in {"OPEN", "PARTIALLY_FILLED", "FILLED"} ->
         {"PARTIALLY_FILLED", "FILLED", "CANCEL_REQUESTED",
          "REPLACE_REQUESTED", "EXPIRED"}
    [] s = "CANCEL_REQUESTED" -> {"CANCELED", "FILLED"}
    [] s = "REPLACE_REQUESTED" -> {"REPLACED", "CANCELED"}
    [] OTHER -> {}

\* LEGAL_TRANSITIONS: the statuses an order may move to from status s.
LegalTransitions(s) ==
  CASE s = "PENDING" -> {"ACCEPTED", "REJECTED"}
    [] s = "ACCEPTED" -> {"OPEN", "REJECTED"}
    [] s \in {"OPEN", "PARTIALLY_FILLED"} ->
         {"PARTIALLY_FILLED", "FILLED", "CANCEL_REQUESTED",
          "REPLACE_REQUESTED", "EXPIRED"}
    [] s = "CANCEL_REQUESTED" -> {"CANCELED", "FILLED"}
    [] s = "REPLACE_REQUESTED" -> {"REPLACED", "CANCELED"}
    [] OTHER -> {}

TerminalStatus == {"FILLED", "CANCELED", "REPLACED", "REJECTED", "EXPIRED"}

-----------------------------------------------------------------------------
\* create_order: every order starts PENDING with its whole size remaining.
CreateOrder(intent) ==
  [side |-> intent.side, price |-> intent.price, size |-> intent.size,
   remaining_size |-> intent.size, status |-> "PENDING"]

\* transition raises ValueError unless CanTransition; the caller stops there.
CanTransition(order, status) == status \in LegalTransitions(order.status)

Transition(order, status) == [order EXCEPT !.status = status]

\* The status moved without touching the remainder.
MarkPartiallyFilledKeepsRemaining(order, remaining) ==
  Transition(order, "PARTIALLY_FILLED")

\* The change of the remainder stored in place of the remainder.
MarkPartiallyFilledStoresChange(order, remaining) ==
  Transition([order EXCEPT !.remaining_size = remaining - order.size],
             "PARTIALLY_FILLED")

\* mark_partially_filled and mark_filled set the remainder before moving.
MarkPartiallyFilled(order, remaining) ==
  Transition([order EXCEPT !.remaining_size = remaining], "PARTIALLY_FILLED")

MarkFilled(order) ==
  Transition([order EXCEPT !.remaining_size = 0], "FILLED")

=============================================================================
