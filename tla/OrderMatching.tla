----------------------------- MODULE OrderMatching -----------------------------
(***************************************************************************)
(* One order meets one snapshot: a call of simulate_fills as the paper     *)
(* exchange makes it, with an order it has just opened.                    *)
(***************************************************************************)
EXTENDS FillEngine

CONSTANTS
  Requests,   \* the order intents
  Snapshots   \* the books they may meet

ASSUME MatchingAssumption ==
  /\ Requests \subseteq OrderIntent
  /\ Snapshots \subseteq [asks : Seq(Level), bids : Seq(Level)]

VARIABLES
  trial,      \* the arguments of the call
  matched     \* its result, or Unmatched before the call

matchVars == <<trial, matched>>

Unmatched == [fills |-> << >>, remaining_size |-> 0, status |-> "PENDING"]

Opened(intent) ==
  Transition(Transition(CreateOrder(intent), "ACCEPTED"), "OPEN")

MatchInit ==
  /\ trial \in [order : {Opened(i) : i \in Requests}, book : Snapshots,
                effective : BOOLEAN]
  /\ matched = Unmatched

Match ==
  /\ matched = Unmatched
  /\ matched' = SimulateFills(trial.order, trial.book, trial.effective)
  /\ UNCHANGED trial

MatchSpec == MatchInit /\ [][Match]_matchVars

-----------------------------------------------------------------------------
\* simulate_fills does what a matching engine owes its orders: every share
\* accounted for, as much as the book allows, at the best prices, within the
\* limit, and an exception only where the book itself is wrong.
MatchingIsOwed ==
  matched # Unmatched =>
    MatchingOwes(trial.order, trial.book, trial.effective, matched)

=============================================================================
