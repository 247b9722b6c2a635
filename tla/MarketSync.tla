------------------------------ MODULE MarketSync ------------------------------
(***************************************************************************)
(* MarketSyncService.sync_once (services/market_sync.py) and the table of  *)
(* MarketStore (storage/market_store.py): the markets of the exchange are  *)
(* fetched from two services one after the other, each with its retries,   *)
(* joined, and upserted in one transaction.                                *)
(*                                                                         *)
(* A market opens and closes at the exchange while the sync runs.  Gamma   *)
(* lists the markets that are not closed; the CLOB may not have an entry   *)
(* for a market yet.                                                       *)
(***************************************************************************)
EXTENDS Integers, Sequences, SequencesExt

CONSTANTS
  Markets,
  EndDate,       \* the end_date of each market
  Listing,       \* how the services show the tokens of each market
  Opened,        \* the markets that are open to begin with
  NoRow,         \* a market without a row
  MaxAttempts,   \* max_attempts
  MaxClock       \* bound of the clock

ASSUME SyncAssumption ==
  /\ EndDate \in [Markets -> Nat]
  /\ MaxAttempts \in Nat \ {0} /\ MaxClock \in Nat

\* What the services owe the join: a label names its token, and where it takes
\* tokens by their place the yes token comes first.  Tokens may come in any
\* order with labels, without a label, or not at all.
Labelled(tokens, outcome) == \E i \in DOMAIN tokens : tokens[i].outcome = outcome
YesFirst(ids) == Len(ids) >= 2 => ids[1] = "yes" /\ ids[2] = "no"

TruthfulListing(listing) ==
  /\ listing.clob \in Seq([outcome : STRING, id : {"yes", "no"}])
  /\ listing.gamma \in Seq(STRING) /\ YesFirst(listing.gamma)
  /\ \A token \in {listing.clob[i] : i \in DOMAIN listing.clob} :
       token.outcome \in {"yes", "no"} => token.id = token.outcome
  /\ \/ Labelled(listing.clob, "yes") /\ Labelled(listing.clob, "no")
     \/ Len(listing.gamma) >= 2
     \/ YesFirst([i \in DOMAIN listing.clob |-> listing.clob[i].id])

ASSUME ListingAssumption == \A m \in Markets : TruthfulListing(Listing[m])

VARIABLES
  clock,      \* advances when a market opens or closes
  status,     \* of each market at the exchange
  closedAt,   \* when it closed
  rows,       \* the markets table
  sync        \* the local state of sync_once

exchange == <<clock, status, closedAt>>

SyncStages == {"idle", "gamma", "clob", "store", "done"}
SyncStates ==
  [stage : SyncStages, attempt : 1..MaxAttempts, started : 0..MaxClock,
   gamma : SUBSET Markets, accepting : SUBSET Markets, clob : SUBSET Markets,
   trading : SUBSET Markets, ok : BOOLEAN]
IdleSync ==
  [stage |-> "idle", attempt |-> 1, started |-> 0, gamma |-> {}, accepting |-> {},
   clob |-> {}, trading |-> {}, ok |-> FALSE]

SyncInit ==
  /\ clock = 0
  /\ status = [m \in Markets |-> IF m \in Opened THEN "open" ELSE "new"]
  /\ closedAt = [m \in Markets |-> 0]
  /\ rows = [m \in Markets |-> NoRow]
  /\ sync = IdleSync

-----------------------------------------------------------------------------
(***************************************************************************)
(* The exchange.                                                           *)
(***************************************************************************)
Pass(d) == clock + d <= MaxClock /\ clock' = clock + d

Open(m) ==
  /\ status[m] = "new" /\ Pass(1)
  /\ status' = [status EXCEPT ![m] = "open"]
  /\ UNCHANGED closedAt

CloseMarket(m) ==
  /\ status[m] = "open" /\ Pass(1)
  /\ status' = [status EXCEPT ![m] = "closed"]
  /\ closedAt' = [closedAt EXCEPT ![m] = clock + 1]

Exchange == \E m \in Markets : Open(m) \/ CloseMarket(m)

-----------------------------------------------------------------------------
(***************************************************************************)
(* _extract_yes_no_tokens: the labels of the CLOB, then the order of the   *)
(* identifiers Gamma lists, then the order of the CLOB.  A listing is      *)
(* [clob, gamma]: the CLOB's tokens as [outcome, id], Gamma's identifiers. *)
(***************************************************************************)
\* _token_for_outcome: the first token with that label.
TokenForOutcome(tokens, outcome) ==
  LET found == SelectInSeq(tokens, LAMBDA t : t.outcome = outcome) IN
  IF found = 0 THEN "" ELSE tokens[found].id

Or(token, other) == IF token # "" THEN token ELSE other

ExtractYesNoTokens(listing, hasClob) ==
  LET clob == IF hasClob THEN listing.clob ELSE <<>>
      yes == TokenForOutcome(clob, "yes")
      no == TokenForOutcome(clob, "no")
      labelled == [yes |-> yes, no |-> no] IN
  IF yes # "" /\ no # "" THEN labelled
  ELSE IF Len(listing.gamma) >= 2
  THEN [yes |-> Or(yes, listing.gamma[1]), no |-> Or(no, listing.gamma[2])]
  ELSE IF Len(clob) >= 2
  THEN [yes |-> Or(yes, clob[1].id), no |-> Or(no, clob[2].id)]
  ELSE labelled

\* A market the CLOB does not know taken as accepting orders.
AcceptingByDefault(m) == m \in sync.clob => m \in sync.trading

\* accepting_orders: what the CLOB says, and Gamma's flag where it is silent.
Accepting(m) == IF m \in sync.clob THEN m \in sync.trading ELSE m \in sync.accepting

\* _is_expired
Expired(m) == EndDate[m] <= clock

Canonical(m) == ExtractYesNoTokens(Listing[m], m \in sync.clob)

\* normalize_markets: what Gamma lists, unless the join closes it, leaves a
\* token out, or its end has passed.  A closed market is in the CLOB's reply
\* without trading.
NormalizeMarkets ==
  {m \in sync.gamma :
     /\ Accepting(m) /\ ~Expired(m)
     /\ Canonical(m).yes # "" /\ Canonical(m).no # ""}

Skipped == sync.gamma \ NormalizeMarkets

\* run_market_sync: a sync that skipped or failed but wrote a row is a success.
SyncSucceeded(errors, written) == ~errors \/ written

-----------------------------------------------------------------------------
(***************************************************************************)
(* sync_once.                                                              *)
(***************************************************************************)
StartSync == sync' = [IdleSync EXCEPT !.stage = "gamma", !.started = clock]

\* The last attempt starts a new round instead of giving up.
FailedFetchForever(ok) ==
  /\ ~ok
  /\ sync' = [sync EXCEPT !.attempt = IF @ >= MaxAttempts THEN 1 ELSE @ + 1]

\* _fetch_with_retries: at once again, until max_attempts.
FailedFetch(ok) ==
  /\ ~ok
  /\ sync' = IF sync.attempt >= MaxAttempts
             THEN [sync EXCEPT !.stage = "done", !.ok = SyncSucceeded(TRUE, FALSE)]
             ELSE [sync EXCEPT !.attempt = @ + 1]

FetchGamma(ok) ==
  /\ sync.stage = "gamma"
  /\ \/ FailedFetch(ok)
     \/ /\ ok
        /\ sync' = [sync EXCEPT !.stage = "clob", !.attempt = 1,
                      !.gamma = {m \in Markets : status[m] # "closed"},
                      !.accepting = {m \in Markets : status[m] = "open"}]
  /\ UNCHANGED <<exchange, rows>>

\* known are the markets the CLOB has an entry for.
FetchClob(ok, known) ==
  /\ sync.stage = "clob"
  /\ \/ FailedFetch(ok)
     \/ /\ ok
        /\ sync' = [sync EXCEPT !.stage = "store", !.clob = known,
                      !.trading = {m \in known : status[m] = "open"}]
  /\ UNCHANGED <<exchange, rows>>

\* upsert_markets, one transaction: the markets that left the fetched set keep
\* the row they have.  An error of the store fails the sync and writes nothing.
UpsertMarkets(ok) ==
  /\ sync.stage = "store"
  /\ rows' = [m \in Markets |->
                IF ok /\ m \in NormalizeMarkets
                THEN Canonical(m)
                ELSE rows[m]]
  /\ sync' = [sync EXCEPT !.stage = "done",
                !.ok = IF ok THEN SyncSucceeded(Skipped # {}, NormalizeMarkets # {})
                       ELSE SyncSucceeded(TRUE, FALSE)]
  /\ UNCHANGED exchange

SyncStep(ok) ==
  \/ FetchGamma(ok)
  \/ \E known \in SUBSET Markets : FetchClob(ok, known)
  \/ UpsertMarkets(ok)

-----------------------------------------------------------------------------
\* list_markets: every row whose end has not passed.
ListMarkets == {m \in Markets : rows[m] # NoRow /\ EndDate[m] > clock}

=============================================================================
