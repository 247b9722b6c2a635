---------------------------- MODULE PaperExchange ----------------------------
(***************************************************************************)
(* PaperExchangeService (services/paper_exchange.py) writing to a          *)
(* SimulationStore (storage/simulation_store.py), for one strategy trading *)
(* one token.                                                              *)
(*                                                                         *)
(* The service is sequential, but every store method runs in a transaction *)
(* of its own and nothing is ever rolled back: a submission is a dozen     *)
(* commits, and the process can fail at any of them.  So each store write  *)
(* is one step here, taken in the order of the code; `call` holds the      *)
(* local variables of the call in progress and call.pc names its next      *)
(* write.  Computation between two writes belongs to the step before it.   *)
(*                                                                         *)
(* The risk engine, the fill engine and the fee policy are injected by the *)
(* service's constructor.  The decision of the first is any of the three;  *)
(* the other two are the constant operators Engine and Fee.                *)
(***************************************************************************)
EXTENDS MatchingContract, PortfolioLedger, Integers, Sequences, Functions

CONSTANTS
  Ids,              \* client order ids
  NoId, NoOrder, NoResult, NoBook,
  Intents,          \* the order intents clients submit
  Books,            \* the snapshots they are matched against
  Engine(_, _, _),  \* the fill engine: order, book, submission effective
  Fee(_, _),        \* the fee policy: price, size
  Faults            \* what may go wrong: "error", "crash"

\* Both halves of a submission's market input: no snapshot, or a snapshot and
\* whether the submit latency has passed.
Snapshots == {NoBook} \cup (Books \X BOOLEAN)

OpenOrder(intent) == Transition(CreateOrder(intent), "OPEN")

ASSUME IdAssumption ==
  NoId \notin Ids /\ NoOrder \notin SimulatedOrder /\ NoResult \notin FillResult

ASSUME InputAssumption ==
  Intents \subseteq OrderIntent /\ Faults \subseteq {"error", "crash"}

\* What the service relies on: the engine accounts for the order it is handed,
\* as MatchingContract says, and the fee of a fill is not negative.
ASSUME EngineAssumption ==
  \A i \in Intents, b \in Books, e \in BOOLEAN :
    LET r == Engine(OpenOrder(i), b, e)
    IN  /\ r \in FillResult
        /\ Accounted(OpenOrder(i), r)
        /\ \A k \in DOMAIN r.fills :
             Fee(r.fills[k].price, r.fills[k].size) \in Nat

VARIABLES
  mem,         \* self._orders, lost when the process dies
  rows,        \* simulation.orders
  log,         \* simulation.order_transitions of each order, oldest first
  decisions,   \* simulation.risk_decisions
  cash,        \* simulation.cash_ledger
  positions,   \* simulation.position_ledger
  fills,       \* simulation.fills
  valuation,   \* the latest row of simulation.valuation_snapshots
  call         \* the call in progress

store == <<rows, log, decisions, cash, positions, fills, valuation>>
vars == <<mem, store, call>>

-----------------------------------------------------------------------------
IdleCall ==
  [pc |-> "idle", id |-> NoId, order |-> NoOrder, from |-> "PENDING",
   orig |-> NoId, original |-> NoOrder, decision |-> "ALLOW",
   result |-> NoResult, k |-> 0, position |-> 0]

\* _load_order: the service's own copy first, then the stored row.
LoadOrder(o) == IF mem[o] # NoOrder THEN mem[o] ELSE rows[o]

\* translate_signal ends every client_order_id with a fresh uuid4.
Fresh(o) ==
  /\ LoadOrder(o) = NoOrder
  /\ \A d \in decisions : d.id # o

MatchAgainst(intent, snapshot) ==
  IF snapshot = NoBook THEN NoResult
  ELSE Engine(OpenOrder(intent), snapshot[1], snapshot[2])

Init ==
  /\ mem = [o \in Ids |-> NoOrder]
  /\ rows = [o \in Ids |-> NoOrder]
  /\ log = [o \in Ids |-> << >>]
  /\ decisions = {}
  /\ cash = {}
  /\ positions = {}
  /\ fills = {}
  /\ valuation = 0
  /\ call = IdleCall

-----------------------------------------------------------------------------
(***************************************************************************)
(* The store writes.  Each is enabled when it is the next one of the call. *)
(***************************************************************************)
Now(stage) == call.pc = stage

\* The fill being recorded.  uuid4 makes every fill_id distinct: here it is
\* the order, the length of its log when the fill was made, and the index.
CurrentFill == call.result.fills[call.k]
FillId == <<call.id, Len(log[call.id]), call.k>>

\* INSERT ... ON CONFLICT DO UPDATE: price, size and side are never updated.
Upsert(row, order) ==
  IF row = NoOrder THEN order
  ELSE [row EXCEPT !.status = order.status,
                   !.remaining_size = order.remaining_size]

WriteDecision ==
  /\ Now("risk")
  /\ decisions' = decisions \cup {[id |-> call.id, decision |-> call.decision]}
  /\ UNCHANGED <<mem, rows, log, cash, positions, fills, valuation>>

\* self._orders not kept up to date.
PersistStoreOnly(o, order) ==
  /\ rows' = [rows EXCEPT ![o] = Upsert(@, order)]
  /\ UNCHANGED <<mem, log, decisions, cash, positions, fills, valuation>>

\* _persist_order: the service's copy, then the row.
Persist(o, order) ==
  /\ mem' = [mem EXCEPT ![o] = order]
  /\ rows' = [rows EXCEPT ![o] = Upsert(@, order)]
  /\ UNCHANGED <<log, decisions, cash, positions, fills, valuation>>

WriteOrder == (Now("row") \/ Now("fill_row")) /\ Persist(call.id, call.order)
WriteOriginal == Now("orig_row") /\ Persist(call.orig, call.original)

AppendTransition(o, from, to) ==
  /\ log' = [log EXCEPT ![o] = Append(@, <<from, to>>)]
  /\ UNCHANGED <<mem, rows, decisions, cash, positions, fills, valuation>>

WriteTransition ==
  /\ Now("log") \/ Now("fill_log")
  /\ AppendTransition(call.id, call.from, call.order.status)

WriteOriginalTransition ==
  /\ Now("orig_log")
  /\ AppendTransition(call.orig, call.from, call.original.status)

CashEntry(reason, delta) ==
  [fill |-> FillId, id |-> call.id, reason |-> reason, delta |-> delta]

InsertCash(entry) ==
  /\ cash' = cash \cup {entry}
  /\ UNCHANGED <<mem, rows, log, decisions, positions, fills, valuation>>

CurrentFee == Fee(CurrentFill.price, CurrentFill.size)

WriteCash ==
  /\ Now("cash")
  /\ InsertCash(CashEntry("FILL_NOTIONAL",
                          CashDelta(call.order.side, CurrentFill)))

WriteFee == Now("fee") /\ InsertCash(CashEntry("FEE", -CurrentFee))

WritePosition ==
  /\ Now("position")
  /\ positions' = positions \cup
       {[fill |-> FillId, id |-> call.id, price |-> CurrentFill.price,
         delta |-> PositionDelta(call.order.side, CurrentFill)]}
  /\ UNCHANGED <<mem, rows, log, decisions, cash, fills, valuation>>

\* The stored fill carries the fee the ledger recorded for it.
WriteFill ==
  /\ Now("fill")
  /\ fills' = fills \cup
       {[fill |-> FillId, id |-> call.id, side |-> call.order.side,
         price |-> CurrentFill.price, size |-> CurrentFill.size,
         fee |-> CurrentFee]}
  /\ UNCHANGED <<mem, rows, log, decisions, cash, positions, valuation>>

\* The quantity valued is that of a PositionState created empty by this call.
WriteValuation ==
  /\ Now("valuation")
  /\ valuation' = call.position
  /\ UNCHANGED <<mem, rows, log, decisions, cash, positions, fills>>

-----------------------------------------------------------------------------
(***************************************************************************)
(* What the call does next.                                                *)
(***************************************************************************)
\* The transition recorded with the status before last.
MoveToKeepsFrom(c, status) ==
  [c EXCEPT !.order = Transition(c.order, status), !.pc = "row"]

\* OrderLifecycleService.transition: the moved order and the transition to log.
MoveTo(c, status) ==
  [c EXCEPT !.from = c.order.status, !.order = Transition(c.order, status),
            !.pc = "row"]

\* The end of submit_order_intent: a replacement goes on to mark its original
\* REPLACED, a plain submission returns.
Submitted(c) ==
  IF c.orig = NoId THEN IdleCall
  ELSE [c EXCEPT !.from = c.original.status, !.pc = "orig_row",
                 !.original = Transition(c.original, "REPLACED")]

\* Matching an order that has just been opened.
Matched(c) ==
  CASE c.result = NoResult -> Submitted(c)
    [] c.result # NoResult /\ c.result.status = "RAISED" -> IdleCall
    [] c.result # NoResult /\ c.result.status = "OPEN" ->
         [c EXCEPT !.pc = "fill_row"]
    [] c.result # NoResult /\ c.result.status = "FILLED" ->
         [c EXCEPT !.from = c.order.status, !.order = MarkFilled(c.order),
                   !.pc = "fill_log"]
    [] OTHER ->
         [c EXCEPT !.from = c.order.status, !.pc = "fill_log",
                   !.order = MarkPartiallyFilled(c.order,
                                                 c.result.remaining_size)]

\* mark_open left out.
AfterTransitionSkipsOpen(c) ==
  CASE c.order.status = "ACCEPTED" -> Matched(c)
    [] c.order.status = "OPEN" -> Matched(c)
    [] c.order.status = "CANCEL_REQUESTED" -> MoveTo(c, "CANCELED")
    [] OTHER -> IdleCall

\* cancel_order returning after the request.
AfterTransitionOnlyRequests(c) ==
  CASE c.order.status = "ACCEPTED" -> MoveTo(c, "OPEN")
    [] c.order.status = "OPEN" -> Matched(c)
    [] OTHER -> IdleCall

AfterTransition(c) ==
  CASE c.order.status = "ACCEPTED" -> MoveTo(c, "OPEN")
    [] c.order.status = "OPEN" -> Matched(c)
    [] c.order.status = "CANCEL_REQUESTED" -> MoveTo(c, "CANCELED")
    [] OTHER -> IdleCall

AfterFill(c) ==
  LET grown == [c EXCEPT !.position = @ + PositionDelta(c.order.side,
                                            c.result.fills[c.k])]
  IN  IF c.k < Len(c.result.fills)
      THEN [grown EXCEPT !.k = @ + 1, !.pc = "cash"]
      ELSE [grown EXCEPT !.pc = "valuation"]

-----------------------------------------------------------------------------
(***************************************************************************)
(* The three operations of the service.  request_cancel and                *)
(* request_replace raise, before any write, from a status that does not    *)
(* allow them.                                                             *)
(***************************************************************************)
StartSubmit(o, intent, decision, snapshot) ==
  /\ Now("idle")
  /\ call' = [IdleCall EXCEPT !.pc = "risk", !.id = o,
                !.order = CreateOrder(intent), !.decision = decision,
                !.result = MatchAgainst(intent, snapshot)]
  /\ UNCHANGED <<mem, store>>

SubmitOrderIntent(o) ==
  /\ Fresh(o)
  /\ \E i \in Intents, d \in RiskDecisionType, s \in Snapshots :
       StartSubmit(o, i, d, s)

CancelOrder(o) ==
  /\ Now("idle")
  /\ LoadOrder(o) # NoOrder
  /\ CanTransition(LoadOrder(o), "CANCEL_REQUESTED")
  /\ call' = [IdleCall EXCEPT !.pc = "row", !.id = o,
                !.from = LoadOrder(o).status,
                !.order = Transition(LoadOrder(o), "CANCEL_REQUESTED")]
  /\ UNCHANGED <<mem, store>>

ReplaceOrder(o, n) ==
  /\ Now("idle")
  /\ Fresh(n)
  /\ LoadOrder(o) # NoOrder
  /\ CanTransition(LoadOrder(o), "REPLACE_REQUESTED")
  /\ \E i \in Intents, d \in RiskDecisionType, s \in Snapshots :
       call' = [IdleCall EXCEPT !.pc = "orig_row", !.orig = o, !.id = n,
                  !.from = LoadOrder(o).status,
                  !.original = Transition(LoadOrder(o), "REPLACE_REQUESTED"),
                  !.order = CreateOrder(i), !.decision = d,
                  !.result = MatchAgainst(i, s)]
  /\ UNCHANGED <<mem, store>>

-----------------------------------------------------------------------------
(***************************************************************************)
(* The steps of a call, one per write.                                     *)
(***************************************************************************)
\* The decision recorded but not obeyed.
InsertRiskDecisionOnly == WriteDecision /\ call' = MoveTo(call, "ACCEPTED")

InsertRiskDecision ==
  /\ WriteDecision
  /\ call' = MoveTo(call, IF call.decision = "REJECT" THEN "REJECTED"
                                                     ELSE "ACCEPTED")

PersistOrder ==
  /\ WriteOrder
  /\ call' = CASE Now("row") -> [call EXCEPT !.pc = "log"]
               [] Now("fill_row") /\ call.result.fills = << >> -> Submitted(call)
               [] OTHER -> [call EXCEPT !.pc = "cash", !.k = 1]

\* The ledger written without persisting the filled order first.
InsertTransitionThenLedger ==
  /\ WriteTransition
  /\ call' = IF Now("log") THEN AfterTransition(call)
                           ELSE [call EXCEPT !.pc = "cash", !.k = 1]

InsertTransition ==
  /\ WriteTransition
  /\ call' = IF Now("log") THEN AfterTransition(call)
                           ELSE [call EXCEPT !.pc = "fill_row"]

PersistOriginal ==
  /\ WriteOriginal
  /\ call' = [call EXCEPT !.pc = "orig_log"]

InsertOriginalTransition ==
  /\ WriteOriginalTransition
  /\ call' = IF call.original.status = "REPLACE_REQUESTED"
             THEN [call EXCEPT !.pc = "risk"] ELSE IdleCall

InsertCashEntry ==
  /\ WriteCash
  /\ call' = [call EXCEPT !.pc = IF CurrentFee > 0 THEN "fee" ELSE "position"]

InsertFeeEntry == WriteFee /\ call' = [call EXCEPT !.pc = "position"]

InsertPositionEntry == WritePosition /\ call' = [call EXCEPT !.pc = "fill"]

InsertFill == WriteFill /\ call' = AfterFill(call)

InsertValuation == WriteValuation /\ call' = Submitted(call)

Step ==
  \/ InsertRiskDecision \/ PersistOrder \/ InsertTransition
  \/ PersistOriginal \/ InsertOriginalTransition
  \/ InsertCashEntry \/ InsertFeeEntry \/ InsertPositionEntry
  \/ InsertFill \/ InsertValuation

-----------------------------------------------------------------------------
(***************************************************************************)
(* Failures.  A store method that raises ends the call where it stands; the *)
(* commit it was in may or may not have reached the database.  A process   *)
(* that dies loses mem as well, and the next one starts from the store.    *)
(***************************************************************************)
WriteLost ==
  /\ mem' = CASE Now("row") \/ Now("fill_row") ->
                   [mem EXCEPT ![call.id] = call.order]
              [] Now("orig_row") -> [mem EXCEPT ![call.orig] = call.original]
              [] OTHER -> mem
  /\ UNCHANGED store

WriteReached ==
  \/ WriteDecision \/ WriteOrder \/ WriteTransition
  \/ WriteOriginal \/ WriteOriginalTransition
  \/ WriteCash \/ WriteFee \/ WritePosition \/ WriteFill \/ WriteValuation

StoreError ==
  /\ "error" \in Faults
  /\ ~Now("idle")
  /\ WriteReached \/ WriteLost
  /\ call' = IdleCall

Crash ==
  /\ "crash" \in Faults
  /\ mem' = [o \in Ids |-> NoOrder]
  /\ call' = IdleCall
  /\ UNCHANGED store

Client ==
  \/ \E o \in Ids : SubmitOrderIntent(o)
  \/ \E o \in Ids : CancelOrder(o)
  \/ \E o, n \in Ids : ReplaceOrder(o, n)

Next == Client \/ Step \/ StoreError \/ Crash

Spec == Init /\ [][Next]_vars

\* The service runs its call to the end; clients owe nothing.
FairSpec == Spec /\ WF_vars(Step)

-----------------------------------------------------------------------------
(***************************************************************************)
(* Types.                                                                  *)
(***************************************************************************)
Optional(S, none) == S \cup {none}
Stage == {"idle", "risk", "row", "log", "fill_log", "fill_row", "cash", "fee",
          "position", "fill", "valuation", "orig_row", "orig_log"}

FillIds == Ids \X Nat \X Nat

CallType ==
  [pc : Stage, id : Optional(Ids, NoId), from : OrderStatus,
   order : Optional(SimulatedOrder, NoOrder),
   orig : Optional(Ids, NoId), original : Optional(SimulatedOrder, NoOrder),
   decision : RiskDecisionType, result : Optional(FillResult, NoResult),
   k : Nat, position : Int]

\* The tables hold rows of the shape the schema declares, and the call in
\* progress has the locals its next write needs.
TypeOK ==
  /\ mem \in [Ids -> Optional(SimulatedOrder, NoOrder)]
  /\ rows \in [Ids -> Optional(SimulatedOrder, NoOrder)]
  /\ log \in [Ids -> Seq(OrderStatus \X OrderStatus)]
  /\ decisions \subseteq [id : Ids, decision : RiskDecisionType]
  /\ cash \subseteq [fill : FillIds, id : Ids,
                     reason : {"FILL_NOTIONAL", "FEE"}, delta : Int]
  /\ positions \subseteq [fill : FillIds, id : Ids, price : Nat, delta : Int]
  /\ fills \subseteq [fill : FillIds, id : Ids, side : OrderSide, price : Nat,
                      size : Nat \ {0}, fee : Nat]
  /\ valuation \in Int
  /\ call \in CallType

-----------------------------------------------------------------------------
(***************************************************************************)
(* Properties that hold whatever fails.                                    *)
(***************************************************************************)
StoredStatus(o) == IF rows[o] = NoOrder THEN "ABSENT" ELSE rows[o].status
LiveStatus(o) == IF LoadOrder(o) = NoOrder THEN "ABSENT" ELSE LoadOrder(o).status

Contract == INSTANCE OrderContract WITH status <- [o \in Ids |-> LiveStatus(o)]

\* The database never runs ahead of the service and is at most two lifecycle
\* moves behind it: _persist_order sets self._orders before it writes the
\* row, so a failed write leaves the two apart, and one more failed cancel or
\* replace is all the lifecycle table then allows.
StoreLagsByAtMostTwoMoves ==
  \A o \in Ids : Contract!Behind(StoredStatus(o), LiveStatus(o))

\* Risk first: nothing is recorded about an order before its risk decision,
\* and a rejected order moves neither cash nor position.
RiskDecisionFirst ==
  \A o \in Ids :
    /\ rows[o] # NoOrder \/ log[o] # << >> => \E d \in decisions : d.id = o
    /\ (\E e \in cash \cup positions \cup fills : e.id = o) =>
         \E d \in decisions : d.id = o /\ d.decision # "REJECT"

\* The tables of one fill are written cash, fee, position, fill: whatever
\* prefix of them reached the database agrees with itself, so a position
\* always has its payment and a fill always has its fee.
LedgerRowsAgree ==
  /\ \A p \in positions :
       /\ \E e \in cash : /\ e.fill = p.fill
                          /\ e.reason = "FILL_NOTIONAL"
                          /\ e.delta = -(p.price * p.delta)
  /\ \A f \in fills :
       /\ \E p \in positions : /\ p.fill = f.fill
                               /\ p.delta = PositionDelta(f.side, f)
       /\ f.fee > 0 => \E e \in cash : /\ e.fill = f.fill /\ e.reason = "FEE"
                                       /\ e.delta = -f.fee
       /\ f.fee = 0 => ~\E e \in cash : e.fill = f.fill /\ e.reason = "FEE"

\* What the stored fills of an order add up to, and what its position entries
\* moved, whichever way.
FilledOf(o) == SumFunction([f \in {g \in fills : g.id = o} |-> f.size])
MovedBy(o) ==
  SumFunction([p \in {q \in positions : q.id = o} |->
                 IF p.delta < 0 THEN -p.delta ELSE p.delta])

\* However a call ends, the ledger never holds more of an order than its row
\* says was filled: the row is reduced before the first cash entry.
LedgerNeverExceedsRow ==
  \A o \in Ids : rows[o] # NoOrder =>
    /\ MovedBy(o) <= rows[o].size - rows[o].remaining_size
    /\ FilledOf(o) <= MovedBy(o)

\* With errors and crashes anywhere: the ledger rows that were written agree
\* with each other, and with the row of their order.
LedgerAgrees == LedgerRowsAgree /\ LedgerNeverExceedsRow

\* A row that reached a terminal status is never written again.
TerminalRowsAreFinal ==
  [][\A o \in Ids : StoredStatus(o) \in TerminalStatus =>
                      rows'[o] = rows[o]]_vars

\* The status of every order, as cancel and replace see it, follows the
\* contract of OrderContract.
FollowsContract == Contract!ContractSpec

-----------------------------------------------------------------------------
(***************************************************************************)
(* Properties of a store that does not fail.                               *)
(***************************************************************************)
\* The order_transitions of an order are a path from PENDING, each starting
\* where the one before ended, and between calls the path ends at the status
\* of the row.
LogIsThePathOfTheRow ==
  \A o \in Ids :
    /\ \A i \in 1 .. Len(log[o]) - 1 : log[o][i][2] = log[o][i + 1][1]
    /\ log[o] # << >> => log[o][1][1] = "PENDING"
    /\ Now("idle") /\ rows[o] # NoOrder =>
         /\ log[o] # << >>
         /\ log[o][Len(log[o])][2] = rows[o].status

\* Between calls no order is left half way: what is not terminal rests on the
\* book, or is an original whose replacement did not go through.
OrdersRest ==
  Now("idle") => \A o \in Ids : rows[o] # NoOrder =>
    rows[o].status \in TerminalStatus \cup
                       {"OPEN", "PARTIALLY_FILLED", "REPLACE_REQUESTED"}

\* With a store that does not fail the three records of an order agree once
\* its call has returned: remainder, fills and position movements.
FillsAccountForTheRow ==
  Now("idle") => \A o \in Ids : rows[o] # NoOrder =>
    /\ FilledOf(o) = rows[o].size - rows[o].remaining_size
    /\ MovedBy(o) = FilledOf(o)

\* Between calls nothing is half way: the status of an order is one that rests,
\* and its row, fills and position movements tell the same story.
OrdersSettle == OrdersRest /\ FillsAccountForTheRow

\* A cancel request that reached the store is carried out.
CancelsComplete ==
  \A o \in Ids : (StoredStatus(o) = "CANCEL_REQUESTED")
                   ~> (StoredStatus(o) = "CANCELED")

=============================================================================
