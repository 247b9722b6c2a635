------------------------- MODULE PaperExchangeProofs -------------------------
(***************************************************************************)
(* Proofs about PaperExchange for every set of orders, intents, books,     *)
(* every fill engine and fee policy that meets EngineAssumption, and every *)
(* combination of failures.                                                *)
(***************************************************************************)
EXTENDS PaperExchange, CollectionTheorems, FiniteSetTheorems, TLAPS

USE IdAssumption, InputAssumption

-----------------------------------------------------------------------------
(***************************************************************************)
(* What the helpers return.                                                *)
(***************************************************************************)
\* A new order is well formed and PENDING.
LEMMA CreateOrderType ==
  ASSUME NEW i \in Intents
  PROVE  /\ CreateOrder(i) \in SimulatedOrder
         /\ CreateOrder(i).status = "PENDING"
  BY DEF CreateOrder, SimulatedOrder, OrderIntent, OrderStatus

\* A transition keeps the order well formed and changes only its status.
LEMMA TransitionType ==
  ASSUME NEW o \in SimulatedOrder, NEW s \in OrderStatus
  PROVE  /\ Transition(o, s) \in SimulatedOrder
         /\ Transition(o, s).status = s
         /\ Transition(o, s).side = o.side
  BY DEF Transition, SimulatedOrder

\* So do the two fill moves, whatever remainder they are given.
LEMMA MarkType ==
  ASSUME NEW o \in SimulatedOrder, NEW r \in Nat
  PROVE  /\ MarkFilled(o) \in SimulatedOrder
         /\ MarkFilled(o).status = "FILLED"
         /\ MarkPartiallyFilled(o, r) \in SimulatedOrder
         /\ MarkPartiallyFilled(o, r).status = "PARTIALLY_FILLED"
  BY DEF MarkFilled, MarkPartiallyFilled, Transition, SimulatedOrder,
         OrderStatus

\* The stored row takes the status of the order that is persisted.
LEMMA UpsertType ==
  ASSUME NEW row \in Optional(SimulatedOrder, NoOrder),
         NEW o \in SimulatedOrder
  PROVE  /\ Upsert(row, o) \in SimulatedOrder
         /\ Upsert(row, o).status = o.status
  BY DEF Upsert, SimulatedOrder, Optional

\* A result the fill engine may hand to the service.
GoodResult(r) ==
  /\ r \in FillResult
  /\ r.status = "OPEN" => r.fills = << >>
  /\ \A k \in DOMAIN r.fills : Fee(r.fills[k].price, r.fills[k].size) \in Nat

\* An order that has been accounted for as OPEN has no fills.
LEMMA OpenHasNoFills ==
  ASSUME NEW o, NEW r, Accounted(o, r), r.status = "OPEN"
  PROVE  r.fills = << >>
  BY DEF Accounted

\* Matching gives no result without a snapshot and a good one, which accounts
\* for the order, with it.
LEMMA MatchType ==
  ASSUME NEW i \in Intents, NEW s \in Snapshots
  PROVE  MatchAgainst(i, s) # NoResult =>
           /\ GoodResult(MatchAgainst(i, s))
           /\ Accounted(OpenOrder(i), MatchAgainst(i, s))
<1>1. CASE s = NoBook
  BY <1>1 DEF MatchAgainst
<1>2. CASE s # NoBook
  <2>1. s[1] \in Books /\ s[2] \in BOOLEAN
    BY <1>2 DEF Snapshots
  <2>2. MatchAgainst(i, s) = Engine(OpenOrder(i), s[1], s[2])
    BY <1>2 DEF MatchAgainst
  <2> QED
    BY <2>1, <2>2, EngineAssumption, OpenHasNoFills DEF GoodResult
<1> QED
  BY <1>1, <1>2

-----------------------------------------------------------------------------
(***************************************************************************)
(* The locals of the call in progress.  TypeOK alone is not inductive: the *)
(* next write needs the order, the result or the fill it is about to use.  *)
(***************************************************************************)
FillStage == {"cash", "fee", "position", "fill"}

CallOK(c) ==
  /\ c \in CallType
  /\ c.pc # "idle" => c.id \in Ids /\ c.order \in SimulatedOrder
  /\ c.orig # NoId => c.orig \in Ids /\ c.original \in SimulatedOrder
  /\ c.pc \in {"orig_row", "orig_log"} => c.orig # NoId
  /\ c.result # NoResult => GoodResult(c.result)
  /\ c.pc \in {"fill_log", "fill_row"} \cup FillStage => c.result # NoResult
  /\ c.pc \in FillStage => c.k \in DOMAIN c.result.fills

\* The idle call is a well-formed call.
LEMMA IdleCallOK == CallOK(IdleCall)
  BY DEF CallOK, IdleCall, CallType, Stage, OrderStatus, RiskDecisionType,
         Optional, FillStage

\* Moving the order of a call to another status leaves the call well formed.
LEMMA MoveToOK ==
  ASSUME NEW c, CallOK(c), c.pc # "idle", NEW s \in OrderStatus
  PROVE  /\ CallOK(MoveTo(c, s))
         /\ MoveTo(c, s).pc = "row"
         /\ MoveTo(c, s).order = Transition(c.order, s)
         /\ MoveTo(c, s).id = c.id
         /\ MoveTo(c, s).orig = c.orig
         /\ MoveTo(c, s).original = c.original
         /\ MoveTo(c, s).decision = c.decision
         /\ MoveTo(c, s).result = c.result
<1>1. Transition(c.order, s) \in SimulatedOrder /\ c.order.status \in OrderStatus
  BY TransitionType DEF CallOK, SimulatedOrder
<1> QED
  BY <1>1 DEF CallOK, CallType, MoveTo, Stage, Optional, FillStage

\* Nor does ending a submission.
LEMMA SubmittedOK ==
  ASSUME NEW c, CallOK(c), c.pc # "idle"
  PROVE  CallOK(Submitted(c))
<1>1. CASE c.orig = NoId
  BY <1>1, IdleCallOK DEF Submitted
<1>2. CASE c.orig # NoId
  <2>1. /\ Transition(c.original, "REPLACED") \in SimulatedOrder
        /\ c.original.status \in OrderStatus
    BY <1>2, TransitionType DEF CallOK, SimulatedOrder, OrderStatus
  <2> QED
    BY <1>2, <2>1 DEF Submitted, CallOK, CallType, Stage, Optional, FillStage
<1> QED
  BY <1>1, <1>2

\* Matching an open order.
LEMMA MatchedOK ==
  ASSUME NEW c, CallOK(c), c.pc # "idle"
  PROVE  CallOK(Matched(c))
<1>1. CASE c.result = NoResult
  BY <1>1, SubmittedOK DEF Matched
<1>2. CASE c.result # NoResult
  <2>1. /\ c.order \in SimulatedOrder /\ c.order.status \in OrderStatus
        /\ c.result \in FillResult /\ c.result.remaining_size \in Nat
    BY <1>2 DEF CallOK, GoodResult, SimulatedOrder, FillResult
  <2>2. CASE c.result.status = "RAISED"
    BY <1>2, <2>2, IdleCallOK DEF Matched
  <2>3. CASE c.result.status = "OPEN"
    <3>1. Matched(c) = [c EXCEPT !.pc = "fill_row"]
      BY <1>2, <2>3 DEF Matched
    <3> QED
      BY <1>2, <3>1 DEF CallOK, CallType, Stage, Optional, FillStage
  <2>4. CASE c.result.status = "FILLED"
    <3>1. Matched(c) = [c EXCEPT !.from = c.order.status,
                          !.order = MarkFilled(c.order), !.pc = "fill_log"]
      BY <1>2, <2>4 DEF Matched
    <3>2. MarkFilled(c.order) \in SimulatedOrder
      BY <2>1, MarkType
    <3> QED
      BY <1>2, <2>1, <3>1, <3>2, ZenonT(60)
      DEF CallOK, CallType, Stage, Optional, FillStage
  <2>5. CASE c.result.status \notin {"RAISED", "OPEN", "FILLED"}
    <3>1. Matched(c) = [c EXCEPT !.from = c.order.status, !.pc = "fill_log",
                          !.order = MarkPartiallyFilled(c.order,
                                      c.result.remaining_size)]
      BY <1>2, <2>5 DEF Matched
    <3>2. MarkPartiallyFilled(c.order, c.result.remaining_size)
            \in SimulatedOrder
      BY <2>1, MarkType
    <3> QED
      BY <1>2, <2>1, <3>1, <3>2, ZenonT(60)
      DEF CallOK, CallType, Stage, Optional, FillStage
  <2> QED
    BY <2>2, <2>3, <2>4, <2>5
<1> QED
  BY <1>1, <1>2

\* What follows a recorded transition.
LEMMA AfterTransitionOK ==
  ASSUME NEW c, CallOK(c), c.pc # "idle"
  PROVE  CallOK(AfterTransition(c))
<1>1. CASE c.order.status = "ACCEPTED"
  BY <1>1, MoveToOK DEF AfterTransition, OrderStatus
<1>2. CASE c.order.status = "OPEN"
  BY <1>2, MatchedOK DEF AfterTransition
<1>3. CASE c.order.status = "CANCEL_REQUESTED"
  BY <1>3, MoveToOK DEF AfterTransition, OrderStatus
<1>4. CASE c.order.status \notin {"ACCEPTED", "OPEN", "CANCEL_REQUESTED"}
  BY <1>4, IdleCallOK DEF AfterTransition
<1> QED
  BY <1>1, <1>2, <1>3, <1>4

\* The fill a call is recording, and what the ledger derives from it.
LEMMA CurrentFillType ==
  ASSUME NEW c, CallOK(c), c.pc \in FillStage
  PROVE  /\ c.result.fills[c.k] \in FillTerms
         /\ c.result.fills[c.k].price \in Nat
         /\ c.result.fills[c.k].size \in Nat \ {0}
         /\ Fee(c.result.fills[c.k].price, c.result.fills[c.k].size) \in Nat
         /\ c.order.side \in OrderSide
         /\ CashDelta(c.order.side, c.result.fills[c.k]) \in Int
         /\ PositionDelta(c.order.side, c.result.fills[c.k]) \in Int
         /\ c.result.fills \in Seq(FillTerms)
<1>1. c.result.fills \in Seq(FillTerms) /\ GoodResult(c.result)
  BY DEF CallOK, FillStage, GoodResult, FillResult
<1>2. c.k \in DOMAIN c.result.fills /\ c.order \in SimulatedOrder
  BY DEF CallOK, FillStage
<1>3. c.result.fills[c.k] \in FillTerms
  BY <1>1, <1>2
<1>4. /\ c.result.fills[c.k].price \in Nat
      /\ c.result.fills[c.k].size \in Nat \ {0}
  BY <1>3 DEF FillTerms
<1>5. c.result.fills[c.k].price * c.result.fills[c.k].size \in Nat
  BY <1>4
<1>6. Fee(c.result.fills[c.k].price, c.result.fills[c.k].size) \in Nat
  BY <1>1, <1>2 DEF GoodResult
<1>7. c.order.side \in OrderSide
  BY <1>2 DEF SimulatedOrder
<1>8. /\ CashDelta(c.order.side, c.result.fills[c.k]) \in Int
      /\ PositionDelta(c.order.side, c.result.fills[c.k]) \in Int
  BY <1>4, <1>5 DEF CashDelta, PositionDelta
<1> QED
  BY <1>1, <1>3, <1>4, <1>6, <1>7, <1>8

\* What follows a recorded fill.
LEMMA AfterFillOK ==
  ASSUME NEW c, CallOK(c), c.pc \in FillStage
  PROVE  CallOK(AfterFill(c))
<1> DEFINE delta == PositionDelta(c.order.side, c.result.fills[c.k])
<1>1. delta \in Int /\ c.result.fills \in Seq(FillTerms)
  BY CurrentFillType
<1>2. /\ c \in CallType /\ c.position \in Int /\ c.k \in Nat
      /\ c.k \in DOMAIN c.result.fills
  BY DEF CallOK, CallType, FillStage
<1>3. c.position + delta \in Int
  BY <1>1, <1>2
<1> HIDE DEF delta
<1>4. CASE c.k < Len(c.result.fills)
  <2>1. AfterFill(c) = [c EXCEPT !.position = c.position + delta,
                                 !.k = c.k + 1, !.pc = "cash"]
    BY <1>2, <1>4 DEF AfterFill, delta, CallType
  <2>2. c.k + 1 \in DOMAIN c.result.fills
    <3>1. DOMAIN c.result.fills = 1 .. Len(c.result.fills)
      BY <1>1
    <3> QED
      BY <1>1, <1>2, <1>4, <3>1
  <2>3. c.position + delta \in Int /\ c.k + 1 \in Nat
    BY <1>2, <1>3
  <2>4. /\ AfterFill(c) \in CallType
        /\ AfterFill(c).pc = "cash" /\ AfterFill(c).k = c.k + 1
        /\ AfterFill(c).result = c.result /\ AfterFill(c).order = c.order
        /\ AfterFill(c).id = c.id /\ AfterFill(c).orig = c.orig
        /\ AfterFill(c).original = c.original
    BY <1>2, <2>1, <2>3, ZenonT(60) DEF CallType, Stage
  <2> QED
    BY <2>2, <2>4 DEF CallOK, FillStage
<1>5. CASE ~(c.k < Len(c.result.fills))
  <2>1. AfterFill(c) = [c EXCEPT !.position = c.position + delta,
                                 !.pc = "valuation"]
    BY <1>2, <1>5 DEF AfterFill, delta, CallType
  <2> QED
    BY <1>2, <1>3, <2>1, ZenonT(60) DEF CallOK, CallType, Stage, Optional, FillStage
<1> QED
  BY <1>4, <1>5

-----------------------------------------------------------------------------
(***************************************************************************)
(* Type correctness.                                                       *)
(***************************************************************************)
TypeInv == TypeOK /\ CallOK(call)

\* TypeOK without the conjunct about the call.
Tables ==
  /\ mem \in [Ids -> Optional(SimulatedOrder, NoOrder)]
  /\ rows \in [Ids -> Optional(SimulatedOrder, NoOrder)]
  /\ log \in [Ids -> Seq(OrderStatus \X OrderStatus)]
  /\ decisions \subseteq [id : Ids, decision : RiskDecisionType]
  /\ cash \subseteq [fill : FillIds, id : Ids,
                     reason : {"FILL_NOTIONAL", "FEE"}, delta : Int]
  /\ positions \subseteq [fill : FillIds, id : Ids, price : Nat, delta : Int]
  /\ fills \subseteq [fill : FillIds, id : Ids, side : OrderSide, price : Nat,
                      size : Nat \ {0}, fee : Nat]
  /\ valuation \in Int

\* The two parts of the type invariant.
LEMMA TypeInvParts == TypeInv <=> Tables /\ CallOK(call)
  BY DEF TypeInv, TypeOK, Tables, CallOK

\* The order a call can load is a well-formed one.
LEMMA LoadOrderType ==
  ASSUME Tables, NEW o \in Ids
  PROVE  LoadOrder(o) \in Optional(SimulatedOrder, NoOrder)
  BY DEF Tables, LoadOrder

\* The identifier of the fill being recorded.
LEMMA FillIdType ==
  ASSUME TypeInv, call.pc \in FillStage
  PROVE  FillId \in FillIds /\ call.id \in Ids
<1>1. call.id \in Ids /\ call.k \in Nat
  BY DEF TypeInv, CallOK, CallType, FillStage
<1>2. Len(log[call.id]) \in Nat
  BY <1>1 DEF TypeInv, TypeOK
<1> QED
  BY <1>1, <1>2 DEF FillId, FillIds

\* Every store write leaves rows of the declared shape.
LEMMA WritesKeepTables ==
  ASSUME TypeInv, WriteReached
  PROVE  Tables'
<1> USE TypeInvParts
<1>1. CASE WriteDecision
  <2>1. call.id \in Ids /\ call.decision \in RiskDecisionType
    BY <1>1 DEF CallOK, CallType, WriteDecision, Now
  <2> QED
    BY <1>1, <2>1 DEF Tables, WriteDecision
<1>2. CASE WriteOrder
  <2>1. call.id \in Ids /\ call.order \in SimulatedOrder
    BY <1>2 DEF CallOK, WriteOrder, Now
  <2>2. Upsert(rows[call.id], call.order) \in SimulatedOrder
    BY <2>1, UpsertType DEF Tables
  <2> QED
    BY <1>2, <2>1, <2>2 DEF Tables, WriteOrder, Persist, Optional
<1>3. CASE WriteOriginal
  <2>1. call.orig \in Ids /\ call.original \in SimulatedOrder
    BY <1>3 DEF CallOK, WriteOriginal, Now
  <2>2. Upsert(rows[call.orig], call.original) \in SimulatedOrder
    BY <2>1, UpsertType DEF Tables
  <2> QED
    BY <1>3, <2>1, <2>2 DEF Tables, WriteOriginal, Persist, Optional
<1>4. CASE WriteTransition
  <2>1. /\ call.id \in Ids /\ call.from \in OrderStatus
        /\ call.order.status \in OrderStatus
    BY <1>4 DEF CallOK, CallType, WriteTransition, Now, SimulatedOrder
  <2>2. Append(log[call.id], <<call.from, call.order.status>>)
          \in Seq(OrderStatus \X OrderStatus)
    BY <2>1 DEF Tables
  <2> QED
    BY <1>4, <2>1, <2>2 DEF Tables, WriteTransition, AppendTransition
<1>5. CASE WriteOriginalTransition
  <2>1. /\ call.orig \in Ids /\ call.from \in OrderStatus
        /\ call.original.status \in OrderStatus
    BY <1>5 DEF CallOK, CallType, WriteOriginalTransition, Now, SimulatedOrder
  <2>2. Append(log[call.orig], <<call.from, call.original.status>>)
          \in Seq(OrderStatus \X OrderStatus)
    BY <2>1 DEF Tables
  <2> QED
    BY <1>5, <2>1, <2>2 DEF Tables, WriteOriginalTransition, AppendTransition
<1>6. CASE WriteCash
  <2>1. call.pc \in FillStage
    BY <1>6 DEF WriteCash, Now, FillStage
  <2>2. CashDelta(call.order.side, CurrentFill) \in Int
    BY <2>1, CurrentFillType DEF CurrentFill
  <2>3. FillId \in FillIds /\ call.id \in Ids
    BY <2>1, FillIdType
  <2> QED
    BY <1>6, <2>2, <2>3 DEF Tables, WriteCash, InsertCash, CashEntry
<1>7. CASE WriteFee
  <2>1. call.pc \in FillStage
    BY <1>7 DEF WriteFee, Now, FillStage
  <2>2. -CurrentFee \in Int
    BY <2>1, CurrentFillType DEF CurrentFill, CurrentFee
  <2>3. FillId \in FillIds /\ call.id \in Ids
    BY <2>1, FillIdType
  <2> QED
    BY <1>7, <2>2, <2>3, SMTT(30) DEF Tables, WriteFee, InsertCash, CashEntry
<1>8. CASE WritePosition
  <2>1. call.pc \in FillStage
    BY <1>8 DEF WritePosition, Now, FillStage
  <2>2. /\ PositionDelta(call.order.side, CurrentFill) \in Int
        /\ CurrentFill.price \in Nat
    BY <2>1, CurrentFillType DEF CurrentFill
  <2>3. FillId \in FillIds /\ call.id \in Ids
    BY <2>1, FillIdType
  <2> QED
    BY <1>8, <2>2, <2>3 DEF Tables, WritePosition
<1>9. CASE WriteFill
  <2>1. call.pc \in FillStage
    BY <1>9 DEF WriteFill, Now, FillStage
  <2>2. /\ call.order.side \in OrderSide /\ CurrentFill.price \in Nat
        /\ CurrentFill.size \in Nat \ {0} /\ CurrentFee \in Nat
    BY <2>1, CurrentFillType DEF CurrentFill, CurrentFee
  <2>3. FillId \in FillIds /\ call.id \in Ids
    BY <2>1, FillIdType
  <2> QED
    BY <1>9, <2>2, <2>3 DEF Tables, WriteFill
<1>10. CASE WriteValuation
  BY <1>10 DEF Tables, WriteValuation, CallOK, CallType
<1> QED
  BY <1>1, <1>2, <1>3, <1>4, <1>5, <1>6, <1>7, <1>8, <1>9, <1>10
  DEF WriteReached

\* Every step of a call leaves it well formed.
LEMMA StepsKeepCall ==
  ASSUME TypeInv, Step
  PROVE  CallOK(call') /\ WriteReached
<1>0. CallOK(call)
  BY DEF TypeInv
<1>1. CASE InsertRiskDecision
  BY <1>0, <1>1, MoveToOK
  DEF InsertRiskDecision, WriteReached, WriteDecision, Now, OrderStatus
<1>2. CASE PersistOrder
  <2>0. WriteOrder
    BY <1>2 DEF PersistOrder
  <2>1. CASE Now("row")
    <3>1. call' = [call EXCEPT !.pc = "log"]
      BY <1>2, <2>1 DEF PersistOrder, Now
    <3> QED
      BY <1>0, <2>0, <2>1, <3>1
      DEF CallOK, CallType, Stage, FillStage, Now, WriteReached
  <2>2. CASE Now("fill_row") /\ call.result.fills = << >>
    <3>1. call' = Submitted(call)
      BY <1>2, <2>2 DEF PersistOrder, Now
    <3> QED
      BY <1>0, <2>0, <2>2, <3>1, SubmittedOK DEF Now, WriteReached
  <2>3. CASE Now("fill_row") /\ call.result.fills # << >>
    <3>1. call' = [call EXCEPT !.pc = "cash", !.k = 1]
      BY <1>2, <2>3 DEF PersistOrder, Now
    <3>2. call.result # NoResult /\ call.result.fills \in Seq(FillTerms)
      BY <1>0, <2>3 DEF CallOK, Now, GoodResult, FillResult
    <3>3. 1 \in DOMAIN call.result.fills
      BY <2>3, <3>2
    <3> QED
      BY <1>0, <2>0, <2>3, <3>1, <3>2, <3>3
      DEF CallOK, CallType, Stage, FillStage, Now, WriteReached
  <2> QED
    BY <2>0, <2>1, <2>2, <2>3 DEF WriteOrder
<1>3. CASE InsertTransition
  <2>0. WriteTransition /\ call.pc \in {"log", "fill_log"}
    BY <1>3 DEF InsertTransition, WriteTransition, Now
  <2>1. CASE Now("log")
    BY <1>0, <1>3, <2>0, <2>1, AfterTransitionOK
    DEF InsertTransition, WriteReached, Now
  <2>2. CASE Now("fill_log")
    <3>1. call' = [call EXCEPT !.pc = "fill_row"]
      BY <1>3, <2>2 DEF InsertTransition, Now
    <3> QED
      BY <1>0, <2>0, <2>2, <3>1
      DEF CallOK, CallType, Stage, FillStage, Now, WriteReached
  <2> QED
    BY <2>0, <2>1, <2>2 DEF Now
<1>4. CASE PersistOriginal
  BY <1>0, <1>4
  DEF PersistOriginal, WriteOriginal, CallOK, CallType, Stage, FillStage, Now,
      WriteReached
<1>5. CASE InsertOriginalTransition
  <2>1. CASE call.original.status = "REPLACE_REQUESTED"
    BY <1>0, <1>5, <2>1
    DEF InsertOriginalTransition, WriteOriginalTransition, CallOK, CallType,
        Stage, FillStage, Now, WriteReached
  <2>2. CASE call.original.status # "REPLACE_REQUESTED"
    BY <1>5, <2>2, IdleCallOK DEF InsertOriginalTransition, WriteReached
  <2> QED
    BY <2>1, <2>2
<1>6. CASE InsertCashEntry
  BY <1>0, <1>6
  DEF InsertCashEntry, WriteCash, CallOK, CallType, Stage, FillStage, Now,
      WriteReached
<1>7. CASE InsertFeeEntry
  BY <1>0, <1>7
  DEF InsertFeeEntry, WriteFee, CallOK, CallType, Stage, FillStage, Now,
      WriteReached
<1>8. CASE InsertPositionEntry
  BY <1>0, <1>8
  DEF InsertPositionEntry, WritePosition, CallOK, CallType, Stage, FillStage,
      Now, WriteReached
<1>9. CASE InsertFill
  BY <1>0, <1>9, AfterFillOK
  DEF InsertFill, WriteFill, FillStage, Now, WriteReached
<1>10. CASE InsertValuation
  BY <1>0, <1>10, SubmittedOK
  DEF InsertValuation, WriteValuation, Now, WriteReached
<1> QED
  BY <1>1, <1>2, <1>3, <1>4, <1>5, <1>6, <1>7, <1>8, <1>9, <1>10 DEF Step

\* A client's call starts well formed.
LEMMA ClientsKeepCall ==
  ASSUME TypeInv, Client
  PROVE  CallOK(call') /\ UNCHANGED <<mem, store>>
<1>0. Tables
  BY TypeInvParts
<1>1. ASSUME NEW o \in Ids, SubmitOrderIntent(o)
      PROVE  CallOK(call') /\ UNCHANGED <<mem, store>>
  <2>1. PICK i \in Intents, d \in RiskDecisionType, s \in Snapshots :
          StartSubmit(o, i, d, s)
    BY <1>1 DEF SubmitOrderIntent
  <2>2. /\ CreateOrder(i) \in SimulatedOrder
        /\ MatchAgainst(i, s) = NoResult \/ GoodResult(MatchAgainst(i, s))
    BY CreateOrderType, MatchType
  <2> QED
    BY <1>1, <2>1, <2>2, IdleCallOK
    DEF StartSubmit, IdleCall, CallOK, CallType, Stage, FillStage, Optional,
        GoodResult
<1>2. ASSUME NEW o \in Ids, CancelOrder(o)
      PROVE  CallOK(call') /\ UNCHANGED <<mem, store>>
  <2>1. LoadOrder(o) \in SimulatedOrder
    BY <1>0, <1>2, LoadOrderType DEF CancelOrder, Optional
  <2>2. /\ Transition(LoadOrder(o), "CANCEL_REQUESTED") \in SimulatedOrder
        /\ LoadOrder(o).status \in OrderStatus
    BY <2>1, TransitionType DEF OrderStatus, SimulatedOrder
  <2> QED
    BY <1>2, <2>2, IdleCallOK
    DEF CancelOrder, IdleCall, CallOK, CallType, Stage, FillStage, Optional
<1>3. ASSUME NEW o \in Ids, NEW n \in Ids, ReplaceOrder(o, n)
      PROVE  CallOK(call') /\ UNCHANGED <<mem, store>>
  <2>1. LoadOrder(o) \in SimulatedOrder
    BY <1>0, <1>3, LoadOrderType DEF ReplaceOrder, Optional
  <2>2. /\ Transition(LoadOrder(o), "REPLACE_REQUESTED") \in SimulatedOrder
        /\ LoadOrder(o).status \in OrderStatus
    BY <2>1, TransitionType DEF OrderStatus, SimulatedOrder
  <2>3. PICK i \in Intents, d \in RiskDecisionType, s \in Snapshots :
          call' = [IdleCall EXCEPT !.pc = "orig_row", !.orig = o, !.id = n,
                     !.from = LoadOrder(o).status,
                     !.original = Transition(LoadOrder(o), "REPLACE_REQUESTED"),
                     !.order = CreateOrder(i), !.decision = d,
                     !.result = MatchAgainst(i, s)]
    BY <1>3 DEF ReplaceOrder
  <2>4. /\ CreateOrder(i) \in SimulatedOrder
        /\ MatchAgainst(i, s) = NoResult \/ GoodResult(MatchAgainst(i, s))
    BY CreateOrderType, MatchType
  <2> QED
    BY <1>3, <2>2, <2>3, <2>4, IdleCallOK, ZenonT(60)
    DEF ReplaceOrder, IdleCall, CallOK, CallType, Stage, FillStage, Optional,
        GoodResult
<1> QED
  BY <1>1, <1>2, <1>3 DEF Client

\* A write that is lost keeps at most the service's own copy.
LEMMA LostWritesKeepTables ==
  ASSUME TypeInv, ~Now("idle"), WriteLost
  PROVE  Tables'
<1>0. Tables /\ CallOK(call)
  BY TypeInvParts
<1>1. CASE Now("row") \/ Now("fill_row")
  <2>1. call.id \in Ids /\ call.order \in SimulatedOrder
    BY <1>0, <1>1 DEF CallOK, Now
  <2>2. mem' = [mem EXCEPT ![call.id] = call.order]
    BY <1>1 DEF WriteLost, Now
  <2> QED
    BY <1>0, <2>1, <2>2 DEF Tables, WriteLost, store, Optional
<1>2. CASE Now("orig_row")
  <2>1. call.orig \in Ids /\ call.original \in SimulatedOrder
    BY <1>0, <1>2 DEF CallOK, Now
  <2>2. mem' = [mem EXCEPT ![call.orig] = call.original]
    BY <1>2 DEF WriteLost, Now
  <2> QED
    BY <1>0, <2>1, <2>2 DEF Tables, WriteLost, store, Optional
<1>3. CASE ~(Now("row") \/ Now("fill_row") \/ Now("orig_row"))
  <2>1. mem' = mem
    BY <1>3 DEF WriteLost
  <2> QED
    BY <1>0, <2>1 DEF Tables, WriteLost, store
<1> QED
  BY <1>1, <1>2, <1>3

\* The initial state is well formed.
LEMMA InitTypeInv == Init => TypeInv
<1> SUFFICES ASSUME Init PROVE TypeInv
  OBVIOUS
<1>1. Tables
  BY DEF Init, Tables, Optional
<1>2. CallOK(call)
  BY IdleCallOK DEF Init
<1> QED
  BY <1>1, <1>2, TypeInvParts

\* Every step keeps it so.
LEMMA NextTypeInv == TypeInv /\ [Next]_vars => TypeInv'
<1> SUFFICES ASSUME TypeInv, [Next]_vars PROVE TypeInv'
  OBVIOUS
<1>0. Tables /\ CallOK(call)
  BY TypeInvParts
<1>1. CASE Client
  BY <1>0, <1>1, ClientsKeepCall DEF Tables, store, TypeInv, TypeOK, CallOK
<1>2. CASE Step
  BY <1>2, StepsKeepCall, WritesKeepTables
  DEF Tables, TypeInv, TypeOK, CallOK
<1>3. CASE StoreError
  <2>1. Tables'
    BY <1>3, WritesKeepTables, LostWritesKeepTables DEF StoreError
  <2>2. CallOK(call')
    BY <1>3, IdleCallOK DEF StoreError
  <2> QED
    BY <2>1, <2>2 DEF Tables, TypeInv, TypeOK, CallOK
<1>4. CASE Crash
  <2>1. Tables'
    BY <1>0, <1>4 DEF Tables, Crash, store, Optional
  <2>2. CallOK(call')
    BY <1>4, IdleCallOK DEF Crash
  <2> QED
    BY <2>1, <2>2 DEF Tables, TypeInv, TypeOK, CallOK
<1>5. CASE UNCHANGED vars
  BY <1>0, <1>5 DEF Tables, vars, store, TypeInv, TypeOK, CallOK
<1> QED
  BY <1>1, <1>2, <1>3, <1>4, <1>5 DEF Next

\* Type correctness: the tables keep their declared shape and the call in
\* progress has the locals its next write needs, whatever fails and whatever
\* the fill engine returns.
THEOREM TypeCorrect == Spec => []TypeOK
<1>1. TypeInv => TypeOK
  BY DEF TypeInv
<1> QED
  BY <1>1, InitTypeInv, NextTypeInv, PTL DEF Spec

\* The strengthened invariant, for the theorems that build on it.
THEOREM TypeInvariant == Spec => []TypeInv
  BY InitTypeInv, NextTypeInv, PTL DEF Spec

-----------------------------------------------------------------------------
(***************************************************************************)
(* Risk first.  The invariant says of each stage of a call which orders    *)
(* have a decision on record (D) and which an approving one (A): a restart *)
(* or a failed write ends the call, and the tables keep what they have.    *)
(***************************************************************************)
decided == {d.id : d \in decisions}
accepted == {d.id : d \in {e \in decisions : e.decision # "REJECT"}}

FillWork == {"fill_log", "fill_row", "valuation"} \cup FillStage

CallDecided(c, D, A) ==
  /\ c.orig # NoId => c.orig \in D
  /\ c.pc \in {"row", "log"} => c.id \in D
  /\ c.pc \in {"row", "log"} /\ c.order.status \in {"ACCEPTED", "OPEN"} => c.id \in A
  /\ c.pc \in FillWork => c.id \in A

OrdersDecided ==
  \A o \in Ids : mem[o] # NoOrder \/ rows[o] # NoOrder \/ log[o] # << >> => o \in decided

LedgerAccepted == \A e \in cash \cup positions \cup fills : e.id \in accepted

RiskInv == OrdersDecided /\ LedgerAccepted /\ CallDecided(call, decided, accepted)

\* Decisions are only added.
LEMMA DecidedGrows ==
  ASSUME decisions \subseteq decisions'
  PROVE  decided \subseteq decided' /\ accepted \subseteq accepted'
  BY DEF decided, accepted

\* What holds of a call with some decisions holds with more of them.
LEMMA DecidedStays ==
  ASSUME NEW c, NEW D, NEW A, NEW E, NEW B, D \subseteq E, A \subseteq B,
         CallDecided(c, D, A)
  PROVE  CallDecided(c, E, B)
  BY DEF CallDecided

\* No call, no claim.
LEMMA IdleDecided ==
  ASSUME NEW D, NEW A
  PROVE  CallDecided(IdleCall, D, A)
  BY DEF CallDecided, IdleCall, FillWork, FillStage

\* The end of a submission.
LEMMA SubmittedDecided ==
  ASSUME NEW c, CallOK(c), NEW D, NEW A, CallDecided(c, D, A)
  PROVE  CallDecided(Submitted(c), D, A)
<1>1. CASE c.orig = NoId
  BY <1>1, IdleDecided DEF Submitted
<1>2. CASE c.orig # NoId
  <2>1. Submitted(c).pc = "orig_row" /\ Submitted(c).orig = c.orig
    BY <1>2 DEF Submitted, CallOK, CallType
  <2> QED
    BY <2>1 DEF CallDecided, FillWork, FillStage
<1> QED
  BY <1>1, <1>2

\* Moving an order on, when the status it gets is not one that fills, or the
\* order was accepted.
LEMMA MoveToDecided ==
  ASSUME NEW c, CallOK(c), c.pc # "idle", NEW D, NEW A, CallDecided(c, D, A),
         NEW s \in OrderStatus, c.id \in D,
         s \in {"ACCEPTED", "OPEN"} => c.id \in A
  PROVE  CallDecided(MoveTo(c, s), D, A)
<1>1. /\ MoveTo(c, s).pc = "row" /\ MoveTo(c, s).order.status = s
      /\ MoveTo(c, s).id = c.id /\ MoveTo(c, s).orig = c.orig
  BY MoveToOK, TransitionType DEF CallOK
<1> QED
  BY <1>1 DEF CallDecided, FillWork, FillStage

\* Matching is reached by accepted orders only.
LEMMA MatchedDecided ==
  ASSUME NEW c, CallOK(c), NEW D, NEW A, CallDecided(c, D, A), c.id \in A
  PROVE  CallDecided(Matched(c), D, A)
<1>1. CASE c.result = NoResult
  BY <1>1, SubmittedDecided DEF Matched
<1>2. CASE c.result # NoResult /\ c.result.status = "RAISED"
  BY <1>2, IdleDecided DEF Matched
<1>3. CASE c.result # NoResult /\ c.result.status # "RAISED"
  <2>1. /\ Matched(c).pc \in {"fill_log", "fill_row"}
        /\ Matched(c).orig = c.orig /\ Matched(c).id = c.id
    BY <1>3 DEF Matched, CallOK, CallType
  <2> QED
    BY <2>1 DEF CallDecided, FillWork
<1> QED
  BY <1>1, <1>2, <1>3

\* What follows a recorded transition.
LEMMA AfterTransitionDecided ==
  ASSUME NEW c, CallOK(c), c.pc = "log", NEW D, NEW A, CallDecided(c, D, A)
  PROVE  CallDecided(AfterTransition(c), D, A)
<1>0. c.id \in D
  BY DEF CallDecided
<1>1. CASE c.order.status = "ACCEPTED"
  <2>1. c.id \in A
    BY <1>1 DEF CallDecided
  <2> QED
    BY <1>0, <1>1, <2>1, MoveToDecided DEF AfterTransition, OrderStatus
<1>2. CASE c.order.status = "OPEN"
  <2>1. c.id \in A
    BY <1>2 DEF CallDecided
  <2> QED
    BY <1>2, <2>1, MatchedDecided DEF AfterTransition
<1>3. CASE c.order.status = "CANCEL_REQUESTED"
  BY <1>0, <1>3, MoveToDecided DEF AfterTransition, OrderStatus
<1>4. CASE c.order.status \notin {"ACCEPTED", "OPEN", "CANCEL_REQUESTED"}
  BY <1>4, IdleDecided DEF AfterTransition
<1> QED
  BY <1>1, <1>2, <1>3, <1>4

\* A write about order o keeps the tables decided when o is decided, and
\* accepted when the write is one of the ledger.
LEMMA WritesKeepDecided ==
  ASSUME TypeInv, RiskInv, WriteReached
  PROVE  OrdersDecided' /\ LedgerAccepted' /\ decisions \subseteq decisions'
<1>0. Tables /\ CallOK(call) /\ Tables'
  BY TypeInvParts, WritesKeepTables
<1>1. CASE WriteDecision
  <2>1. decisions \subseteq decisions'
    BY <1>1 DEF WriteDecision
  <2>2. decided \subseteq decided' /\ accepted \subseteq accepted'
    BY <2>1, DecidedGrows
  <2> QED
    BY <1>1, <2>1, <2>2 DEF WriteDecision, RiskInv, OrdersDecided, LedgerAccepted
<1>2. CASE decisions' = decisions /\ (WriteOrder \/ WriteTransition \/ WriteOriginal
                                      \/ WriteOriginalTransition)
  <2>1. decided' = decided /\ accepted' = accepted
    BY <1>2 DEF decided, accepted
  <2>2. PICK o \in decided :
          \A p \in Ids \ {o} : mem'[p] = mem[p] /\ rows'[p] = rows[p] /\ log'[p] = log[p]
    <3>1. call.id \in decided \/ ~(WriteOrder \/ WriteTransition)
      BY DEF RiskInv, CallDecided, WriteOrder, WriteTransition, Now, FillWork,
             decided, accepted
    <3>2. call.orig \in decided \/ ~(WriteOriginal \/ WriteOriginalTransition)
      BY <1>0 DEF RiskInv, CallDecided, CallOK, WriteOriginal, WriteOriginalTransition, Now
    <3> QED
      BY <1>0, <1>2, <3>1, <3>2
      DEF WriteOrder, WriteTransition, WriteOriginal, WriteOriginalTransition, Persist,
          AppendTransition, Tables
  <2>3. UNCHANGED <<cash, positions, fills>>
    BY <1>2 DEF WriteOrder, WriteTransition, WriteOriginal, WriteOriginalTransition, Persist,
                AppendTransition
  <2>4. OrdersDecided'
    BY <2>1, <2>2 DEF OrdersDecided, RiskInv
  <2> QED
    BY <1>2, <2>1, <2>3, <2>4 DEF LedgerAccepted, RiskInv
<1>3. CASE WriteCash \/ WriteFee \/ WritePosition \/ WriteFill \/ WriteValuation
  <2>1. UNCHANGED <<mem, rows, log, decisions>>
    BY <1>3 DEF WriteCash, WriteFee, WritePosition, WriteFill, WriteValuation, InsertCash
  <2>2. decided' = decided /\ accepted' = accepted
    BY <2>1 DEF decided, accepted
  <2>3. call.id \in accepted
    BY <1>3 DEF RiskInv, CallDecided, FillWork, FillStage, Now, WriteCash, WriteFee,
                WritePosition, WriteFill, WriteValuation
  <2>4. \A e \in (cash \cup positions \cup fills)' :
          e \in cash \cup positions \cup fills \/ e.id = call.id
    BY <1>3 DEF WriteCash, WriteFee, WritePosition, WriteFill, WriteValuation, InsertCash,
                CashEntry
  <2> QED
    BY <2>1, <2>2, <2>3, <2>4 DEF RiskInv, OrdersDecided, LedgerAccepted
<1>4. WriteOrder \/ WriteTransition \/ WriteOriginal \/ WriteOriginalTransition
        => decisions' = decisions
  BY DEF WriteOrder, WriteTransition, WriteOriginal, WriteOriginalTransition, Persist,
         AppendTransition
<1> QED
  BY <1>1, <1>2, <1>3, <1>4 DEF WriteReached

\* Each step of a call leaves it with the decisions its next write relies on.
LEMMA StepsKeepDecided ==
  ASSUME TypeInv, RiskInv, Step
  PROVE  CallDecided(call', decided', accepted')
<1> DEFINE D == decided
           A == accepted
<1>0. CallOK(call) /\ CallDecided(call, D, A)
  BY TypeInvParts DEF RiskInv
<1>1. D \subseteq decided' /\ A \subseteq accepted'
  BY StepsKeepCall, WritesKeepDecided, DecidedGrows
<1> HIDE DEF D, A
<1>2. CASE InsertRiskDecision
  <2> DEFINE s == IF call.decision = "REJECT" THEN "REJECTED" ELSE "ACCEPTED"
  <2>1. /\ call' = MoveTo(call, s) /\ call.pc = "risk" /\ s \in OrderStatus
        /\ decisions' = decisions \cup {[id |-> call.id, decision |-> call.decision]}
    BY <1>2 DEF InsertRiskDecision, WriteDecision, Now, OrderStatus
  <2>2. call.id \in decided' /\ (call.decision # "REJECT" => call.id \in accepted')
    <3> DEFINE d == [id |-> call.id, decision |-> call.decision]
    <3>1. d \in decisions' /\ d.id = call.id /\ d.decision = call.decision
      BY <2>1
    <3> QED
      BY <3>1 DEF decided, accepted
  <2>3. CallDecided(call, decided', accepted')
    BY <1>0, <1>1, DecidedStays
  <2> QED
    BY <1>0, <2>1, <2>2, <2>3, MoveToDecided
<1>3. ASSUME CallDecided(call', D, A)
      PROVE  CallDecided(call', decided', accepted')
  BY <1>1, <1>3, DecidedStays
<1>4. CASE PersistOrder
  <2>1. CASE Now("row")
    <3>1. call' = [call EXCEPT !.pc = "log"]
      BY <1>4, <2>1 DEF PersistOrder, Now
    <3> QED
      BY <1>0, <1>3, <2>1, <3>1 DEF CallDecided, CallOK, CallType, FillWork, FillStage, Now
  <2>2. CASE Now("fill_row") /\ call.result.fills = << >>
    <3>1. call' = Submitted(call)
      BY <1>4, <2>2 DEF PersistOrder, Now
    <3> QED
      BY <1>0, <1>3, <3>1, SubmittedDecided
  <2>3. CASE Now("fill_row") /\ call.result.fills # << >>
    <3>1. call' = [call EXCEPT !.pc = "cash", !.k = 1]
      BY <1>4, <2>3 DEF PersistOrder, Now
    <3> QED
      BY <1>0, <1>3, <2>3, <3>1 DEF CallDecided, CallOK, CallType, FillWork, FillStage, Now
  <2> QED
    BY <1>4, <2>1, <2>2, <2>3 DEF PersistOrder, WriteOrder
<1>5. CASE InsertTransition
  <2>1. CASE Now("log")
    <3>1. call' = AfterTransition(call) /\ call.pc = "log"
      BY <1>5, <2>1 DEF InsertTransition, Now
    <3> QED
      BY <1>0, <1>3, <3>1, AfterTransitionDecided
  <2>2. CASE Now("fill_log")
    <3>1. call' = [call EXCEPT !.pc = "fill_row"]
      BY <1>5, <2>2 DEF InsertTransition, Now
    <3> QED
      BY <1>0, <1>3, <2>2, <3>1 DEF CallDecided, CallOK, CallType, FillWork, FillStage, Now
  <2> QED
    BY <1>5, <2>1, <2>2 DEF InsertTransition, WriteTransition
<1>6. CASE PersistOriginal
  <2>1. call' = [call EXCEPT !.pc = "orig_log"]
    BY <1>6 DEF PersistOriginal
  <2> QED
    BY <1>0, <1>3, <2>1 DEF CallDecided, CallOK, CallType, FillWork, FillStage
<1>7. CASE InsertOriginalTransition
  <2>1. call' = IdleCall \/ call' = [call EXCEPT !.pc = "risk"]
    BY <1>7 DEF InsertOriginalTransition
  <2>2. CASE call' = IdleCall
    BY <1>3, <2>2, IdleDecided
  <2>3. CASE call' = [call EXCEPT !.pc = "risk"]
    BY <1>0, <1>3, <2>3 DEF CallDecided, CallOK, CallType, FillWork, FillStage
  <2> QED
    BY <2>1, <2>2, <2>3
<1>8. CASE InsertCashEntry \/ InsertFeeEntry \/ InsertPositionEntry
  <2>1. /\ call.pc \in FillStage
        /\ \E n \in FillStage : call' = [call EXCEPT !.pc = n]
    BY <1>8 DEF InsertCashEntry, InsertFeeEntry, InsertPositionEntry, WriteCash, WriteFee,
                WritePosition, Now, FillStage
  <2> QED
    BY <1>0, <1>3, <2>1 DEF CallDecided, CallOK, CallType, FillWork, FillStage
<1>9. CASE InsertFill
  <2>1. call' = AfterFill(call) /\ call.pc = "fill"
    BY <1>9 DEF InsertFill, WriteFill, Now
  <2>2. /\ call'.pc \in {"cash", "valuation"} /\ call'.id = call.id
        /\ call'.orig = call.orig
    BY <1>0, <2>1 DEF AfterFill, CallOK, CallType
  <2> QED
    BY <1>0, <1>3, <2>1, <2>2 DEF CallDecided, FillWork, FillStage
<1>10. CASE InsertValuation
  BY <1>0, <1>3, <1>10, SubmittedDecided DEF InsertValuation
<1> QED
  BY <1>2, <1>4, <1>5, <1>6, <1>7, <1>8, <1>9, <1>10 DEF Step

\* A client's call is about a new order, or about one with a decision.
LEMMA ClientsKeepDecided ==
  ASSUME TypeInv, RiskInv, Client
  PROVE  CallDecided(call', decided, accepted)
<1>0. \A o \in Ids : LoadOrder(o) # NoOrder => o \in decided
  BY DEF RiskInv, OrdersDecided, LoadOrder
<1>1. ASSUME NEW o \in Ids, SubmitOrderIntent(o)
      PROVE  CallDecided(call', decided, accepted)
  BY <1>1 DEF SubmitOrderIntent, StartSubmit, IdleCall, CallDecided, FillWork, FillStage
<1>2. ASSUME NEW o \in Ids, CancelOrder(o)
      PROVE  CallDecided(call', decided, accepted)
  <2>1. LoadOrder(o) \in SimulatedOrder
    BY <1>2, TypeInvParts, LoadOrderType DEF CancelOrder, Optional
  <2>2. /\ call'.pc = "row" /\ call'.id = o /\ call'.orig = NoId
        /\ call'.order = Transition(LoadOrder(o), "CANCEL_REQUESTED")
    BY <1>2 DEF CancelOrder, IdleCall
  <2>3. call'.order.status = "CANCEL_REQUESTED"
    BY <2>1, <2>2, TransitionType DEF OrderStatus
  <2> QED
    BY <1>0, <1>2, <2>2, <2>3 DEF CancelOrder, CallDecided, FillWork, FillStage
<1>3. ASSUME NEW o \in Ids, NEW n \in Ids, ReplaceOrder(o, n)
      PROVE  CallDecided(call', decided, accepted)
  <2>1. call'.pc = "orig_row" /\ call'.orig = o
    BY <1>3 DEF ReplaceOrder, IdleCall
  <2> QED
    BY <1>0, <1>3, <2>1 DEF ReplaceOrder, CallDecided, FillWork, FillStage
<1> QED
  BY <1>1, <1>2, <1>3 DEF Client

\* At the start nothing is recorded.
LEMMA InitRiskInv == Init => RiskInv
  BY IdleDecided DEF Init, RiskInv, OrdersDecided, LedgerAccepted

\* Every step keeps the invariant, those that fail among them.
LEMMA NextRiskInv == TypeInv /\ RiskInv /\ [Next]_vars => RiskInv'
<1> SUFFICES ASSUME TypeInv, RiskInv, [Next]_vars PROVE RiskInv'
  OBVIOUS
<1>0. Tables /\ CallOK(call)
  BY TypeInvParts
<1>1. CASE Client
  <2>1. UNCHANGED <<mem, store>> /\ CallDecided(call', decided, accepted)
    BY <1>1, ClientsKeepCall, ClientsKeepDecided
  <2>2. decided' = decided /\ accepted' = accepted
    BY <2>1 DEF store, decided, accepted
  <2> QED
    BY <2>1, <2>2 DEF RiskInv, OrdersDecided, LedgerAccepted, store
<1>2. CASE Step
  <2>1. OrdersDecided' /\ LedgerAccepted'
    BY <1>2, StepsKeepCall, WritesKeepDecided
  <2> QED
    BY <1>2, <2>1, StepsKeepDecided DEF RiskInv
<1>3. CASE StoreError
  <2>1. CallDecided(call', decided', accepted')
    BY <1>3, IdleDecided DEF StoreError
  <2>2. CASE WriteReached
    BY <2>1, <2>2, WritesKeepDecided DEF RiskInv
  <2>3. CASE WriteLost
    <3>1. decided' = decided /\ accepted' = accepted
      BY <2>3 DEF WriteLost, store, decided, accepted
    <3>2. \A o \in Ids : mem'[o] = mem[o] \/ o \in decided
      <4>1. Now("row") \/ Now("fill_row") => call.id \in decided
        BY DEF RiskInv, CallDecided, FillWork, Now, decided, accepted
      <4>2. Now("orig_row") => call.orig \in decided
        BY <1>0 DEF RiskInv, CallDecided, CallOK, Now
      <4> QED
        BY <1>0, <2>3, <4>1, <4>2 DEF WriteLost, Tables, Now
    <3> QED
      BY <2>1, <2>3, <3>1, <3>2 DEF WriteLost, store, RiskInv, OrdersDecided, LedgerAccepted
  <2> QED
    BY <1>3, <2>2, <2>3 DEF StoreError
<1>4. CASE Crash
  <2>1. decided' = decided /\ accepted' = accepted
    BY <1>4 DEF Crash, store, decided, accepted
  <2> QED
    BY <1>4, <2>1, IdleDecided DEF Crash, store, RiskInv, OrdersDecided, LedgerAccepted
<1>5. CASE UNCHANGED vars
  <2>1. decided' = decided /\ accepted' = accepted
    BY <1>5 DEF vars, store, decided, accepted
  <2> QED
    BY <1>5, <2>1 DEF vars, store, RiskInv, OrdersDecided, LedgerAccepted
<1> QED
  BY <1>1, <1>2, <1>3, <1>4, <1>5 DEF Next

\* submit_order_intent stores the risk decision before anything else: whatever
\* fails, no order is on record without one, and no rejected order has moved
\* cash or position.
THEOREM RiskComesFirst == Spec => []RiskDecisionFirst
<1>1. RiskInv => RiskDecisionFirst
  BY DEF RiskInv, OrdersDecided, LedgerAccepted, RiskDecisionFirst, decided, accepted
<1> QED
  BY <1>1, InitTypeInv, NextTypeInv, InitRiskInv, NextRiskInv, PTL DEF Spec

-----------------------------------------------------------------------------
(***************************************************************************)
(* The ledger rows of one fill.  Each stage says which rows of the current *)
(* fill are there; no older row has its identifier, since the index k only *)
(* grows and a new order has no rows at all.                               *)
(***************************************************************************)
Recorded == cash \cup positions \cup fills

\* The call is at an order that has not been filled by any call.
Unfilled(c) ==
  \/ c.pc \in {"risk", "fill_log", "fill_row"}
  \/ c.pc \in {"row", "log"} /\ c.order.status \in {"ACCEPTED", "REJECTED", "OPEN"}
  \/ c.pc \in {"orig_row", "orig_log"} /\ c.original.status = "REPLACE_REQUESTED"

Paid == \E e \in cash : /\ e.fill = FillId /\ e.reason = "FILL_NOTIONAL"
                        /\ e.delta = CashDelta(call.order.side, CurrentFill)
FeePaid == \E e \in cash : e.fill = FillId /\ e.reason = "FEE" /\ e.delta = -CurrentFee
NoFeeRow == ~\E e \in cash : e.fill = FillId /\ e.reason = "FEE"
Moved == \E p \in positions : /\ p.fill = FillId
                              /\ p.delta = PositionDelta(call.order.side, CurrentFill)

FillPhase ==
  /\ \A e \in Recorded : e.id = call.id => e.fill[3] <= call.k
  /\ \A f \in fills : f.fill # FillId
  /\ call.pc = "cash" => NoFeeRow
  /\ call.pc # "cash" => Paid
  /\ call.pc = "fee" => CurrentFee > 0
  /\ call.pc \in {"position", "fill"} =>
       (CurrentFee > 0 => FeePaid) /\ (CurrentFee = 0 => NoFeeRow)
  /\ call.pc = "fill" => Moved

Owned == \A e \in Recorded : e.fill[1] = e.id
Untouched == Unfilled(call) => \A e \in Recorded : e.id # call.id

LedgerInv ==
  /\ LedgerRowsAgree /\ Owned /\ Untouched
  /\ call.pc \in FillStage => FillPhase

\* The notional of a position movement, with its sign.
LEMMA NotionalOfPosition ==
  ASSUME NEW side \in OrderSide, NEW f, f.price \in Nat, f.size \in Nat
  PROVE  CashDelta(side, f) = -(f.price * PositionDelta(side, f))
<1>1. CASE side = "BUY"
  BY <1>1 DEF CashDelta, PositionDelta
<1>2. CASE side = "SELL"
  <2>1. f.price * (-f.size) = -(f.price * f.size)
    OBVIOUS
  <2> QED
    BY <1>2, <2>1 DEF CashDelta, PositionDelta
<1> QED
  BY <1>1, <1>2 DEF OrderSide

\* The end of a submission is not about an unfilled order any more.
LEMMA SubmittedNotUnfilled ==
  ASSUME NEW c, CallOK(c)
  PROVE  ~Unfilled(Submitted(c)) /\ Submitted(c).pc \notin FillStage
<1>1. CASE c.orig = NoId
  BY <1>1 DEF Submitted, Unfilled, IdleCall, FillStage
<1>2. CASE c.orig # NoId
  <2>1. Transition(c.original, "REPLACED").status = "REPLACED"
    BY <1>2, TransitionType DEF CallOK, OrderStatus
  <2>2. Submitted(c).pc = "orig_row" /\ Submitted(c).original.status = "REPLACED"
    BY <1>2, <2>1 DEF Submitted, CallOK, CallType
  <2> QED
    BY <2>2 DEF Unfilled, FillStage
<1> QED
  BY <1>1, <1>2

\* After a recorded transition an unfilled order was unfilled before.
LEMMA AfterTransitionUnfilled ==
  ASSUME NEW c, CallOK(c), c.pc = "log"
  PROVE  /\ AfterTransition(c).pc \notin FillStage
         /\ Unfilled(AfterTransition(c)) => Unfilled(c) /\ AfterTransition(c).id = c.id
<1>1. CASE c.order.status = "ACCEPTED"
  <2>1. AfterTransition(c) = MoveTo(c, "OPEN")
    BY <1>1 DEF AfterTransition
  <2> QED
    BY <1>1, <2>1, MoveToOK DEF OrderStatus, Unfilled, FillStage
<1>2. CASE c.order.status = "OPEN"
  <2>1. AfterTransition(c) = Matched(c) /\ Unfilled(c)
    BY <1>2 DEF AfterTransition, Unfilled
  <2>2. CASE c.result = NoResult
    BY <2>1, <2>2, SubmittedNotUnfilled DEF Matched
  <2>3. CASE c.result # NoResult /\ c.result.status = "RAISED"
    BY <2>1, <2>3 DEF Matched, IdleCall, Unfilled, FillStage
  <2>4. CASE c.result # NoResult /\ c.result.status # "RAISED"
    <3>1. Matched(c).pc \in {"fill_log", "fill_row"} /\ Matched(c).id = c.id
      BY <2>4 DEF Matched, CallOK, CallType
    <3> QED
      BY <2>1, <3>1 DEF FillStage
  <2> QED
    BY <2>2, <2>3, <2>4
<1>3. CASE c.order.status = "CANCEL_REQUESTED"
  <2>1. AfterTransition(c) = MoveTo(c, "CANCELED")
    BY <1>3 DEF AfterTransition
  <2>2. MoveTo(c, "CANCELED").order.status = "CANCELED" /\ MoveTo(c, "CANCELED").pc = "row"
    BY MoveToOK, TransitionType DEF OrderStatus, CallOK
  <2> QED
    BY <2>1, <2>2 DEF Unfilled, FillStage
<1>4. CASE c.order.status \notin {"ACCEPTED", "OPEN", "CANCEL_REQUESTED"}
  BY <1>4 DEF AfterTransition, IdleCall, Unfilled, FillStage
<1> QED
  BY <1>1, <1>2, <1>3, <1>4

\* A step that records nothing of a fill.
LEMMA OtherStepsKeepLedger ==
  ASSUME LedgerInv, UNCHANGED <<cash, positions, fills>>,
         call'.pc \notin FillStage,
         Unfilled(call') => Unfilled(call) /\ call'.id = call.id
  PROVE  LedgerInv'
  BY DEF LedgerInv, LedgerRowsAgree, Owned, Untouched, Recorded

\* The three steps between the stages of one fill keep what identifies it.
LEMMA SameFill ==
  ASSUME TypeInv, call.pc \in FillStage, log' = log,
         NEW n \in FillStage, call' = [call EXCEPT !.pc = n]
  PROVE  /\ FillId' = FillId /\ CurrentFill' = CurrentFill /\ CurrentFee' = CurrentFee
         /\ call'.order = call.order /\ call'.id = call.id /\ call'.k = call.k
         /\ call'.pc = n /\ ~Unfilled(call')
<1>1. /\ call'.pc = n /\ call'.order = call.order /\ call'.id = call.id
      /\ call'.k = call.k /\ call'.result = call.result
  BY DEF TypeInv, CallOK, CallType
<1> QED
  BY <1>1 DEF FillId, CurrentFill, CurrentFee, Unfilled, FillStage

\* The notional is paid.
LEMMA CashKeepsLedger ==
  ASSUME TypeInv, LedgerInv, InsertCashEntry
  PROVE  LedgerInv'
<1> DEFINE row == CashEntry("FILL_NOTIONAL", CashDelta(call.order.side, CurrentFill))
           n == IF CurrentFee > 0 THEN "fee" ELSE "position"
<1>1. /\ call.pc = "cash" /\ cash' = cash \cup {row} /\ log' = log
      /\ UNCHANGED <<positions, fills>> /\ call' = [call EXCEPT !.pc = n]
  BY DEF InsertCashEntry, WriteCash, InsertCash, Now
<1>2. /\ FillId' = FillId /\ CurrentFill' = CurrentFill /\ CurrentFee' = CurrentFee
      /\ call'.order = call.order /\ call'.id = call.id /\ call'.k = call.k
      /\ call'.pc = n /\ ~Unfilled(call')
  BY <1>1, SameFill DEF FillStage
<1>3. /\ row.fill = FillId /\ row.reason = "FILL_NOTIONAL" /\ row.id = call.id
      /\ row.delta = CashDelta(call.order.side, CurrentFill)
      /\ FillId[1] = call.id /\ FillId[3] = call.k
  BY DEF CashEntry, FillId
<1>4. FillPhase /\ LedgerRowsAgree /\ Owned
  BY <1>1 DEF LedgerInv, FillStage
<1>5. CurrentFee \in Nat /\ call.k \in Nat
  BY <1>1, CurrentFillType DEF CurrentFee, CurrentFill, TypeInv, FillStage, CallOK, CallType
<1> HIDE DEF row
<1>6. Owned'
  BY <1>1, <1>3, <1>4 DEF Owned, Recorded
<1>7. LedgerRowsAgree'
  BY <1>1, <1>3, <1>4 DEF LedgerRowsAgree
<1>8. Paid' /\ NoFeeRow'
  BY <1>1, <1>2, <1>3, <1>4 DEF FillPhase, Paid, NoFeeRow
<1>9. FillPhase'
  BY <1>1, <1>2, <1>3, <1>4, <1>5, <1>8 DEF FillPhase, Recorded
<1> QED
  BY <1>2, <1>6, <1>7, <1>9 DEF LedgerInv, Untouched

\* The fee is paid.
LEMMA FeeKeepsLedger ==
  ASSUME TypeInv, LedgerInv, InsertFeeEntry
  PROVE  LedgerInv'
<1> DEFINE row == CashEntry("FEE", -CurrentFee)
<1>1. /\ call.pc = "fee" /\ cash' = cash \cup {row} /\ log' = log
      /\ UNCHANGED <<positions, fills>> /\ call' = [call EXCEPT !.pc = "position"]
  BY DEF InsertFeeEntry, WriteFee, InsertCash, Now
<1>2. /\ FillId' = FillId /\ CurrentFill' = CurrentFill /\ CurrentFee' = CurrentFee
      /\ call'.order = call.order /\ call'.id = call.id /\ call'.k = call.k
      /\ call'.pc = "position" /\ ~Unfilled(call')
  BY <1>1, SameFill DEF FillStage
<1>3. /\ row.fill = FillId /\ row.reason = "FEE" /\ row.id = call.id
      /\ row.delta = -CurrentFee /\ FillId[1] = call.id /\ FillId[3] = call.k
  BY DEF CashEntry, FillId
<1>4. FillPhase /\ LedgerRowsAgree /\ Owned
  BY <1>1 DEF LedgerInv, FillStage
<1>5. CurrentFee \in Nat /\ call.k \in Nat
  BY <1>1, CurrentFillType DEF CurrentFee, CurrentFill, TypeInv, FillStage, CallOK, CallType
<1> HIDE DEF row
<1>6. Owned'
  BY <1>1, <1>3, <1>4 DEF Owned, Recorded
<1>7. LedgerRowsAgree'
  <2>1. \A f \in fills : f.fill # row.fill
    BY <1>3, <1>4 DEF FillPhase
  <2> QED
    BY <1>1, <1>4, <2>1 DEF LedgerRowsAgree
<1>8. Paid' /\ FeePaid' /\ CurrentFee' > 0
  BY <1>1, <1>2, <1>3, <1>4 DEF FillPhase, Paid, FeePaid
<1>9. FillPhase'
  BY <1>1, <1>2, <1>3, <1>4, <1>5, <1>8 DEF FillPhase, Recorded
<1> QED
  BY <1>2, <1>6, <1>7, <1>9 DEF LedgerInv, Untouched

\* The position moves, after its payment.
LEMMA PositionKeepsLedger ==
  ASSUME TypeInv, LedgerInv, InsertPositionEntry
  PROVE  LedgerInv'
<1> DEFINE row == [fill |-> FillId, id |-> call.id, price |-> CurrentFill.price,
                   delta |-> PositionDelta(call.order.side, CurrentFill)]
<1>1. /\ call.pc = "position" /\ positions' = positions \cup {row} /\ log' = log
      /\ UNCHANGED <<cash, fills>> /\ call' = [call EXCEPT !.pc = "fill"]
  BY DEF InsertPositionEntry, WritePosition, Now
<1>2. /\ FillId' = FillId /\ CurrentFill' = CurrentFill /\ CurrentFee' = CurrentFee
      /\ call'.order = call.order /\ call'.id = call.id /\ call'.k = call.k
      /\ call'.pc = "fill" /\ ~Unfilled(call')
  BY <1>1, SameFill DEF FillStage
<1>3. /\ row.fill = FillId /\ row.id = call.id /\ row.price = CurrentFill.price
      /\ row.delta = PositionDelta(call.order.side, CurrentFill)
      /\ FillId[1] = call.id /\ FillId[3] = call.k
  BY DEF FillId
<1>4. FillPhase /\ LedgerRowsAgree /\ Owned
  BY <1>1 DEF LedgerInv, FillStage
<1>5. CurrentFee \in Nat /\ call.k \in Nat
  BY <1>1, CurrentFillType DEF CurrentFee, CurrentFill, TypeInv, FillStage, CallOK, CallType
<1>6. CashDelta(call.order.side, CurrentFill) = -(row.price * row.delta)
  <2>1. /\ call.order.side \in OrderSide
        /\ CurrentFill.price \in Nat /\ CurrentFill.size \in Nat
    BY <1>1, CurrentFillType DEF CurrentFill, TypeInv, FillStage
  <2> QED
    BY <1>3, <2>1, NotionalOfPosition
<1> HIDE DEF row
<1>7. Owned'
  BY <1>1, <1>3, <1>4 DEF Owned, Recorded
<1>8. LedgerRowsAgree'
  <2>1. Paid
    BY <1>1, <1>4 DEF FillPhase
  <2>2. \E e \in cash : /\ e.fill = row.fill /\ e.reason = "FILL_NOTIONAL"
                        /\ e.delta = -(row.price * row.delta)
    BY <1>3, <1>6, <2>1 DEF Paid
  <2> QED
    BY <1>1, <1>4, <2>2 DEF LedgerRowsAgree
<1>9. Paid' /\ Moved' /\ FeePaid' = FeePaid /\ NoFeeRow' = NoFeeRow
  BY <1>1, <1>2, <1>3, <1>4 DEF FillPhase, Paid, Moved, FeePaid, NoFeeRow
<1>10. FillPhase'
  BY <1>1, <1>2, <1>3, <1>4, <1>5, <1>9 DEF FillPhase, Recorded
<1> QED
  BY <1>2, <1>7, <1>8, <1>10 DEF LedgerInv, Untouched

\* The stored fill, after its fee and its position.
LEMMA FillAgrees ==
  ASSUME TypeInv, LedgerInv, WriteFill
  PROVE  /\ LedgerRowsAgree' /\ Owned'
         /\ \A e \in Recorded' : e \in Recorded \/ (e.id = call.id /\ e.fill[3] = call.k)
<1> DEFINE row == [fill |-> FillId, id |-> call.id, side |-> call.order.side,
                   price |-> CurrentFill.price, size |-> CurrentFill.size,
                   fee |-> CurrentFee]
<1>1. /\ call.pc = "fill" /\ fills' = fills \cup {row} /\ UNCHANGED <<cash, positions>>
  BY DEF WriteFill, Now
<1>2. /\ row.fill = FillId /\ row.id = call.id /\ row.fee = CurrentFee
      /\ FillId[1] = call.id /\ FillId[3] = call.k
      /\ PositionDelta(row.side, row) = PositionDelta(call.order.side, CurrentFill)
  BY DEF FillId, PositionDelta
<1>3. FillPhase /\ LedgerRowsAgree /\ Owned
  BY <1>1 DEF LedgerInv, FillStage
<1> HIDE DEF row
<1>4. Owned'
  BY <1>1, <1>2, <1>3 DEF Owned, Recorded
<1>5. Moved /\ (CurrentFee > 0 => FeePaid) /\ (CurrentFee = 0 => NoFeeRow)
  BY <1>1, <1>3 DEF FillPhase
<1>6. LedgerRowsAgree'
  BY <1>1, <1>2, <1>3, <1>5 DEF LedgerRowsAgree, Moved, FeePaid, NoFeeRow
<1> QED
  BY <1>1, <1>2, <1>4, <1>6 DEF Recorded

\* The next fill of the call has a new identifier.
LEMMA FillKeepsLedger ==
  ASSUME TypeInv, LedgerInv, InsertFill
  PROVE  LedgerInv'
<1>0. /\ CallOK(call) /\ call \in CallType /\ call.k \in Nat /\ call.id \in Ids
      /\ call.pc = "fill" /\ WriteFill /\ log' = log /\ call' = AfterFill(call)
  BY DEF TypeInv, CallOK, CallType, InsertFill, WriteFill, Now
<1>1. /\ LedgerRowsAgree' /\ Owned'
      /\ \A e \in Recorded' : e \in Recorded \/ (e.id = call.id /\ e.fill[3] = call.k)
  BY <1>0, FillAgrees
<1>2. FillPhase
  BY <1>0 DEF LedgerInv, FillStage
<1>3. \A e \in Recorded' : e.id = call.id => e.fill[3] <= call.k
  BY <1>0, <1>1, <1>2 DEF FillPhase
<1>4. CASE call.k < Len(call.result.fills)
  <2>1. /\ call'.pc = "cash" /\ call'.k = call.k + 1 /\ call'.id = call.id
    BY <1>0, <1>4 DEF AfterFill, CallType
  <2>2. FillId'[1] = call.id /\ FillId'[3] = call.k + 1
    BY <2>1 DEF FillId
  <2>3. \A e \in Recorded' : e.fill # FillId'
    <3> SUFFICES ASSUME NEW e \in Recorded', e.fill = FillId' PROVE FALSE
      OBVIOUS
    <3>1. e.id = call.id /\ e.fill[3] = call.k + 1
      BY <1>1, <2>2 DEF Owned
    <3> QED
      BY <1>0, <1>3, <3>1
  <2>4. \A e \in Recorded' : e.id = call'.id => e.fill[3] <= call'.k
    <3> SUFFICES ASSUME NEW e \in Recorded', e.id = call.id PROVE e.fill[3] <= call.k + 1
      BY <2>1
    <3>1. e.fill[3] \in Nat
      <4>1. Tables'
        BY <1>0, WritesKeepTables DEF WriteReached
      <4> QED
        BY <4>1 DEF Tables, FillIds, Recorded
    <3> QED
      BY <1>0, <1>3, <3>1
  <2>5. FillPhase'
    BY <2>1, <2>3, <2>4 DEF FillPhase, Recorded, NoFeeRow
  <2>6. ~Unfilled(call')
    BY <2>1 DEF Unfilled
  <2> QED
    BY <1>1, <2>5, <2>6 DEF LedgerInv, Untouched
<1>5. CASE ~(call.k < Len(call.result.fills))
  <2>1. call'.pc = "valuation"
    BY <1>0, <1>5 DEF AfterFill, CallType
  <2> QED
    BY <1>1, <2>1 DEF LedgerInv, Untouched, Unfilled, FillStage
<1> QED
  BY <1>4, <1>5

\* The steps that are not about the ledger.
LEMMA PathStepsKeepLedger ==
  ASSUME TypeInv, LedgerInv,
         \/ InsertRiskDecision \/ InsertTransition \/ PersistOriginal
         \/ InsertOriginalTransition \/ InsertValuation
  PROVE  LedgerInv'
<1>0. CallOK(call) /\ call \in CallType
  BY DEF TypeInv, CallOK
<1>1. CASE InsertRiskDecision
  <2>1. /\ call.pc = "risk" /\ UNCHANGED <<cash, positions, fills>>
        /\ \E s \in OrderStatus : call' = MoveTo(call, s)
    BY <1>1 DEF InsertRiskDecision, WriteDecision, Now, OrderStatus
  <2>2. call'.pc = "row" /\ call'.id = call.id
    BY <1>0, <2>1, MoveToOK
  <2> QED
    BY <2>1, <2>2, OtherStepsKeepLedger DEF Unfilled, FillStage
<1>2. CASE InsertTransition
  <2>1. UNCHANGED <<cash, positions, fills>>
    BY <1>2 DEF InsertTransition, WriteTransition, AppendTransition
  <2>2. CASE Now("log")
    <3>1. call' = AfterTransition(call) /\ call.pc = "log"
      BY <1>2, <2>2 DEF InsertTransition, Now
    <3> QED
      BY <1>0, <2>1, <3>1, AfterTransitionUnfilled, OtherStepsKeepLedger
  <2>3. CASE Now("fill_log")
    <3>1. call'.pc = "fill_row" /\ call'.id = call.id /\ call.pc = "fill_log"
      BY <1>0, <1>2, <2>3 DEF InsertTransition, Now, CallType
    <3> QED
      BY <2>1, <3>1, OtherStepsKeepLedger DEF Unfilled, FillStage
  <2> QED
    BY <1>2, <2>2, <2>3 DEF InsertTransition, WriteTransition
<1>3. CASE PersistOriginal
  <2>1. /\ call.pc = "orig_row" /\ call'.pc = "orig_log" /\ call'.id = call.id
        /\ call'.original = call.original /\ UNCHANGED <<cash, positions, fills>>
    BY <1>0, <1>3 DEF PersistOriginal, WriteOriginal, Persist, Now, CallType
  <2> QED
    BY <2>1, OtherStepsKeepLedger DEF Unfilled, FillStage
<1>4. CASE InsertOriginalTransition
  <2>1. call.pc = "orig_log" /\ UNCHANGED <<cash, positions, fills>>
    BY <1>4 DEF InsertOriginalTransition, WriteOriginalTransition, AppendTransition, Now
  <2>2. CASE call.original.status = "REPLACE_REQUESTED"
    <3>1. call'.pc = "risk" /\ call'.id = call.id
      BY <1>0, <1>4, <2>2 DEF InsertOriginalTransition, CallType
    <3> QED
      BY <2>1, <2>2, <3>1, OtherStepsKeepLedger DEF Unfilled, FillStage
  <2>3. CASE call.original.status # "REPLACE_REQUESTED"
    <3>1. call'.pc = "idle"
      BY <1>4, <2>3 DEF InsertOriginalTransition, IdleCall
    <3> QED
      BY <2>1, <3>1, OtherStepsKeepLedger DEF Unfilled, FillStage
  <2> QED
    BY <2>2, <2>3
<1>5. CASE InsertValuation
  <2>1. UNCHANGED <<cash, positions, fills>> /\ call' = Submitted(call)
    BY <1>5 DEF InsertValuation, WriteValuation
  <2> QED
    BY <1>0, <2>1, SubmittedNotUnfilled, OtherStepsKeepLedger
<1> QED
  BY <1>1, <1>2, <1>3, <1>4, <1>5

\* Writing the row, which is also where the ledger of an order begins.
LEMMA PersistKeepsLedger ==
  ASSUME TypeInv, LedgerInv, PersistOrder
  PROVE  LedgerInv'
<1>0. CallOK(call) /\ call \in CallType
  BY DEF TypeInv, CallOK
<1>1. UNCHANGED <<cash, positions, fills>>
  BY DEF PersistOrder, WriteOrder, Persist
<1>2. CASE Now("row")
  <2>1. /\ call.pc = "row" /\ call'.pc = "log" /\ call'.id = call.id
        /\ call'.order = call.order
    BY <1>0, <1>2 DEF PersistOrder, Now, CallType
  <2> QED
    BY <1>1, <2>1, OtherStepsKeepLedger DEF Unfilled, FillStage
<1>3. CASE Now("fill_row") /\ call.result.fills = << >>
  <2>1. call' = Submitted(call)
    BY <1>3 DEF PersistOrder, Now
  <2> QED
    BY <1>0, <1>1, <2>1, SubmittedNotUnfilled, OtherStepsKeepLedger
<1>4. CASE Now("fill_row") /\ call.result.fills # << >>
  <2>1. call'.pc = "cash" /\ call'.id = call.id /\ call'.k = 1
    BY <1>0, <1>4 DEF PersistOrder, Now, CallType
  <2>2. \A e \in Recorded : e.id # call.id
    BY <1>4 DEF LedgerInv, Untouched, Unfilled, Now
  <2>3. Recorded' = Recorded /\ Owned /\ LedgerRowsAgree
    BY <1>1 DEF Recorded, LedgerInv
  <2>4. \A e \in Recorded' : e.fill # FillId'
    <3>1. FillId'[1] = call.id
      BY <2>1 DEF FillId
    <3> QED
      BY <2>2, <2>3, <3>1 DEF Owned
  <2>5. FillPhase'
    BY <2>1, <2>2, <2>3, <2>4 DEF FillPhase, Recorded, NoFeeRow
  <2>6. LedgerRowsAgree' /\ Owned'
    BY <1>1, <2>3 DEF LedgerRowsAgree, Owned
  <2> QED
    BY <2>1, <2>5, <2>6 DEF LedgerInv, Untouched, Unfilled
<1> QED
  BY <1>2, <1>3, <1>4 DEF PersistOrder, WriteOrder

\* A new call starts unfilled: no decision, so no rows of the ledger either.
LEMMA ClientsKeepLedger ==
  ASSUME TypeInv, RiskInv, LedgerInv, Client
  PROVE  LedgerInv'
<1>0. UNCHANGED <<cash, positions, fills>>
  BY ClientsKeepCall DEF store
<1>1. ASSUME NEW o \in Ids, Fresh(o)
      PROVE  \A e \in Recorded : e.id # o
  BY <1>1 DEF Fresh, RiskInv, LedgerAccepted, Recorded, accepted
<1>2. ASSUME NEW o \in Ids, Unfilled(call') => call'.id = o /\ Fresh(o),
             call'.pc \notin FillStage
      PROVE  LedgerInv'
  BY <1>0, <1>1, <1>2 DEF LedgerInv, LedgerRowsAgree, Owned, Untouched, Recorded
<1>3. ASSUME NEW o \in Ids, SubmitOrderIntent(o)
      PROVE  LedgerInv'
  <2>1. call'.pc = "risk" /\ call'.id = o /\ Fresh(o)
    BY <1>3 DEF SubmitOrderIntent, StartSubmit, IdleCall
  <2> QED
    BY <1>2, <2>1 DEF FillStage
<1>4. ASSUME NEW o \in Ids, CancelOrder(o)
      PROVE  LedgerInv'
  <2>1. LoadOrder(o) \in SimulatedOrder
    BY <1>4, TypeInvParts, LoadOrderType DEF CancelOrder, Optional
  <2>2. /\ call'.pc = "row" /\ call'.order = Transition(LoadOrder(o), "CANCEL_REQUESTED")
    BY <1>4 DEF CancelOrder, IdleCall
  <2>3. call'.order.status = "CANCEL_REQUESTED"
    BY <2>1, <2>2, TransitionType DEF OrderStatus
  <2>4. ~Unfilled(call')
    BY <2>2, <2>3 DEF Unfilled
  <2> QED
    BY <1>2, <2>2, <2>4 DEF FillStage
<1>5. ASSUME NEW o \in Ids, NEW n \in Ids, ReplaceOrder(o, n)
      PROVE  LedgerInv'
  <2>1. call'.pc = "orig_row" /\ call'.id = n /\ Fresh(n)
    BY <1>5 DEF ReplaceOrder, IdleCall
  <2> QED
    BY <1>2, <2>1 DEF FillStage
<1> QED
  BY <1>3, <1>4, <1>5 DEF Client

\* A write that is made and then fails: the row is there, the call is not.
LEMMA WritesKeepLedger ==
  ASSUME TypeInv, LedgerInv, WriteReached
  PROVE  LedgerRowsAgree' /\ Owned'
<1>1. CASE WriteCash
  <2> DEFINE row == CashEntry("FILL_NOTIONAL", CashDelta(call.order.side, CurrentFill))
  <2>1. /\ cash' = cash \cup {row} /\ UNCHANGED <<positions, fills>>
        /\ row.reason = "FILL_NOTIONAL" /\ row.fill[1] = row.id
    BY <1>1 DEF WriteCash, InsertCash, CashEntry, FillId
  <2> HIDE DEF row
  <2> QED
    BY <2>1 DEF LedgerInv, LedgerRowsAgree, Owned, Recorded
<1>2. CASE WriteFee
  <2> DEFINE row == CashEntry("FEE", -CurrentFee)
  <2>1. /\ cash' = cash \cup {row} /\ UNCHANGED <<positions, fills>>
        /\ row.fill = FillId /\ FillId[1] = row.id
    BY <1>2 DEF WriteFee, InsertCash, CashEntry, FillId
  <2>2. \A f \in fills : f.fill # FillId
    BY <1>2 DEF LedgerInv, FillPhase, WriteFee, Now, FillStage
  <2> HIDE DEF row
  <2> QED
    BY <2>1, <2>2 DEF LedgerInv, LedgerRowsAgree, Owned, Recorded
<1>3. CASE WritePosition
  <2> DEFINE row == [fill |-> FillId, id |-> call.id, price |-> CurrentFill.price,
                     delta |-> PositionDelta(call.order.side, CurrentFill)]
  <2>1. /\ positions' = positions \cup {row} /\ UNCHANGED <<cash, fills>>
        /\ row.fill = FillId /\ FillId[1] = row.id /\ call.pc = "position"
        /\ row.price = CurrentFill.price
        /\ row.delta = PositionDelta(call.order.side, CurrentFill)
    BY <1>3 DEF WritePosition, FillId, Now
  <2>2. Paid
    BY <2>1 DEF LedgerInv, FillPhase, FillStage
  <2>3. CashDelta(call.order.side, CurrentFill) = -(row.price * row.delta)
    <3>1. /\ call.order.side \in OrderSide
          /\ CurrentFill.price \in Nat /\ CurrentFill.size \in Nat
      BY <2>1, CurrentFillType DEF CurrentFill, TypeInv, FillStage
    <3> QED
      BY <2>1, <3>1, NotionalOfPosition
  <2> HIDE DEF row
  <2>4. \E e \in cash : /\ e.fill = row.fill /\ e.reason = "FILL_NOTIONAL"
                        /\ e.delta = -(row.price * row.delta)
    BY <2>1, <2>2, <2>3 DEF Paid
  <2> QED
    BY <2>1, <2>4 DEF LedgerInv, LedgerRowsAgree, Owned, Recorded
<1>4. CASE WriteFill
  BY <1>4, FillAgrees
<1>5. CASE UNCHANGED <<cash, positions, fills>>
  BY <1>5 DEF LedgerInv, LedgerRowsAgree, Owned, Recorded
<1>6. \/ WriteCash \/ WriteFee \/ WritePosition \/ WriteFill
      \/ UNCHANGED <<cash, positions, fills>>
  BY DEF WriteReached, WriteDecision, WriteOrder, WriteTransition, WriteOriginal,
         WriteOriginalTransition, WriteValuation, Persist, AppendTransition
<1> QED
  BY <1>1, <1>2, <1>3, <1>4, <1>5, <1>6

\* At the start the ledger is empty.
LEMMA InitLedgerInv == Init => LedgerInv
  BY DEF Init, LedgerInv, LedgerRowsAgree, Owned, Untouched, Unfilled, Recorded,
         FillStage, IdleCall

\* Every step keeps the ledger in agreement.
LEMMA NextLedgerInv == TypeInv /\ RiskInv /\ LedgerInv /\ [Next]_vars => LedgerInv'
<1> SUFFICES ASSUME TypeInv, RiskInv, LedgerInv, [Next]_vars PROVE LedgerInv'
  OBVIOUS
<1>1. CASE Client
  BY <1>1, ClientsKeepLedger
<1>2. CASE Step
  BY <1>2, PathStepsKeepLedger, PersistKeepsLedger, CashKeepsLedger, FeeKeepsLedger,
     PositionKeepsLedger, FillKeepsLedger DEF Step
<1>3. CASE StoreError \/ Crash
  <2>1. call'.pc = "idle"
    BY <1>3 DEF StoreError, Crash, IdleCall
  <2>2. LedgerRowsAgree' /\ Owned'
    <3>1. CASE StoreError /\ WriteReached
      BY <3>1, WritesKeepLedger
    <3>2. CASE UNCHANGED store
      BY <3>2 DEF store, LedgerInv, LedgerRowsAgree, Owned, Recorded
    <3> QED
      BY <1>3, <3>1, <3>2 DEF StoreError, WriteLost, Crash
  <2> QED
    BY <2>1, <2>2 DEF LedgerInv, Untouched, Unfilled, FillStage
<1>4. CASE UNCHANGED vars
  <2>1. /\ UNCHANGED <<cash, positions, fills, log, call>>
    BY <1>4 DEF vars, store
  <2> QED
    BY <2>1 DEF LedgerInv, LedgerRowsAgree, Owned, Untouched, Recorded, FillPhase, Paid,
                FeePaid, NoFeeRow, Moved, FillId, CurrentFill, CurrentFee
<1> QED
  BY <1>1, <1>2, <1>3, <1>4 DEF Next

\* PortfolioLedgerService.apply_fill commits cash, fee, position and fill one
\* by one: wherever it stops, a stored position has its payment, a stored fill
\* its position and its fee, and a fill without a fee no fee row.
THEOREM LedgerRowsAlwaysAgree == Spec => []LedgerRowsAgree
<1>1. LedgerInv => LedgerRowsAgree
  BY DEF LedgerInv
<1> QED
  BY <1>1, InitTypeInv, NextTypeInv, InitRiskInv, NextRiskInv, InitLedgerInv,
     NextLedgerInv, PTL DEF Spec

-----------------------------------------------------------------------------
(***************************************************************************)
(* The status of an order, stored and live, whatever fails: proofs that    *)
(* the store lags by at most two moves, that terminal rows are final and   *)
(* that PaperExchange implements OrderContract; and, with a store that     *)
(* does not fail, that the transitions on record are the order's path.     *)
(*                                                                         *)
(* None of the four is inductive.  What makes them so is that each stage   *)
(* of a call knows where its order stands: StatusInv says it, as a         *)
(* predicate of the call c and of the two maps S (stored) and L (live).    *)
(***************************************************************************)

stored == [o \in Ids |-> StoredStatus(o)]
live == [o \in Ids |-> LiveStatus(o)]

\* One move behind, or two when the last one is a request.
Lag(s, l) ==
  \/ s = l
  \/ Contract!LifecycleEdge(s, l)
  \/ /\ l \in {"CANCEL_REQUESTED", "REPLACE_REQUESTED"}
     /\ s \in {"ACCEPTED", "OPEN", "PARTIALLY_FILLED"}

AllLag(S, L) == \A o \in Ids : Lag(S[o], L[o])

Synced(S, L, o, s) == S[o] = s /\ L[o] = s

\* Where order o stands when the next write makes its status s.
NextRow(S, L, o, s) ==
  \/ s \in {"ACCEPTED", "REJECTED"} /\ L[o] = "ABSENT"
  \/ s = "OPEN" /\ Synced(S, L, o, "ACCEPTED")
  \/ /\ s \in {"CANCEL_REQUESTED", "REPLACE_REQUESTED"}
     /\ L[o] \in {"OPEN", "PARTIALLY_FILLED"}
  \/ s = "CANCELED" /\ Synced(S, L, o, "CANCEL_REQUESTED")
  \/ s = "REPLACED" /\ Synced(S, L, o, "REPLACE_REQUESTED")

\* The order of the call has not been heard of.
Pending(c, L) == c.order.status = "PENDING" /\ L[c.id] = "ABSENT"

OrderPhase(c, S, L) ==
  /\ c.pc = "risk" => Pending(c, L)
  /\ c.pc = "row" => NextRow(S, L, c.id, c.order.status)
  /\ c.pc = "log" => Synced(S, L, c.id, c.order.status)
  /\ c.pc \in {"fill_log", "fill_row"} =>
       /\ Synced(S, L, c.id, "OPEN")
       /\ c.order.status \in {"OPEN", "PARTIALLY_FILLED", "FILLED"}

OriginalPhase(c, S, L) ==
  c.pc # "idle" /\ c.orig # NoId =>
    /\ c.id # c.orig
    /\ c.original.status \in {"REPLACE_REQUESTED", "REPLACED"}
    /\ c.pc = "orig_row" => NextRow(S, L, c.orig, c.original.status)
    /\ c.pc # "orig_row" => Synced(S, L, c.orig, c.original.status)
    /\ c.pc \notin {"orig_row", "orig_log"} =>
         c.original.status = "REPLACE_REQUESTED"
    /\ /\ c.pc \in {"orig_row", "orig_log"}
       /\ c.original.status = "REPLACE_REQUESTED"
       => Pending(c, L)

Phases(c, S, L) == OrderPhase(c, S, L) /\ OriginalPhase(c, S, L)

StatusInv == AllLag(stored, live) /\ Phases(call, stored, live)

-----------------------------------------------------------------------------
(***************************************************************************)
(* The maps and the table.                                                 *)
(***************************************************************************)
StatusMap == [Ids -> Contract!ContractStatus]

\* The maps hold statuses, and an order the service does not know is not
\* stored either.
LEMMA StatusMapType ==
  ASSUME TypeInv
  PROVE  /\ stored \in StatusMap /\ live \in StatusMap
         /\ \A o \in Ids : live[o] = "ABSENT" => stored[o] = "ABSENT"
<1>1. ASSUME NEW o \in Ids
      PROVE  /\ StoredStatus(o) \in Contract!ContractStatus
             /\ LiveStatus(o) \in Contract!ContractStatus
             /\ LiveStatus(o) = "ABSENT" => StoredStatus(o) = "ABSENT"
  <2>1. /\ mem[o] \in Optional(SimulatedOrder, NoOrder)
        /\ rows[o] \in Optional(SimulatedOrder, NoOrder)
    BY DEF TypeInv, TypeOK
  <2> QED
    BY <2>1
    DEF StoredStatus, LiveStatus, LoadOrder, Contract!ContractStatus,
        Contract!OrderStatus, OrderStatus, SimulatedOrder, Optional
<1> QED
  BY <1>1 DEF stored, live, StatusMap

\* A next row is one legal move away from where the order stands, keeps the
\* lag when the write is lost, and never overwrites a terminal row.
LEMMA NextRowMoves ==
  ASSUME NEW S \in StatusMap, NEW L \in StatusMap, NEW o \in Ids, NEW s,
         L[o] = "ABSENT" => S[o] = "ABSENT",
         Lag(S[o], L[o]), NextRow(S, L, o, s)
  PROVE  /\ s \in OrderStatus
         /\ Lag(S[o], s)
         /\ Contract!LifecycleEdge(L[o], s)
         /\ S[o] \notin TerminalStatus
  BY DEF NextRow, Synced, Lag, Contract!LifecycleEdge,
         Contract!LegalTransitions, TerminalStatus, OrderStatus

\* The same of the row written for a matched order, which may also be the
\* OPEN row written again.
LEMMA FillRowMoves ==
  ASSUME NEW S, NEW L, NEW o, Synced(S, L, o, "OPEN"),
         NEW s \in {"OPEN", "PARTIALLY_FILLED", "FILLED"}
  PROVE  /\ s \in OrderStatus
         /\ Lag(S[o], s)
         /\ s = L[o] \/ Contract!LifecycleEdge(L[o], s)
         /\ S[o] \notin TerminalStatus
  BY DEF Synced, Lag, Contract!LifecycleEdge, Contract!LegalTransitions,
         TerminalStatus, OrderStatus

-----------------------------------------------------------------------------
(***************************************************************************)
(* What the writes do to the maps.                                         *)
(***************************************************************************)
\* Nothing, when neither the rows nor the service's copies change.
LEMMA SameMaps ==
  ASSUME UNCHANGED <<mem, rows>>
  PROVE  stored' = stored /\ live' = live
  BY DEF stored, live, StoredStatus, LiveStatus, LoadOrder

\* A persisted order is stored and live with its new status.
LEMMA PersistMaps ==
  ASSUME TypeInv, NEW o \in Ids, NEW order \in SimulatedOrder,
         Persist(o, order)
  PROVE  /\ stored' = [stored EXCEPT ![o] = order.status]
         /\ live' = [live EXCEPT ![o] = order.status]
<1>1. /\ mem \in [Ids -> Optional(SimulatedOrder, NoOrder)]
      /\ rows \in [Ids -> Optional(SimulatedOrder, NoOrder)]
  BY DEF TypeInv, TypeOK
<1>2. /\ Upsert(rows[o], order) \in SimulatedOrder
      /\ Upsert(rows[o], order).status = order.status
  BY <1>1, UpsertType
<1>3. /\ mem' = [mem EXCEPT ![o] = order]
      /\ rows' = [rows EXCEPT ![o] = Upsert(rows[o], order)]
  BY <1>1 DEF Persist
<1>4. order # NoOrder /\ Upsert(rows[o], order) # NoOrder
  BY <1>2, IdAssumption
<1>5. \A p \in Ids :
        /\ StoredStatus(p)' = IF p = o THEN order.status ELSE StoredStatus(p)
        /\ LiveStatus(p)' = IF p = o THEN order.status ELSE LiveStatus(p)
  BY <1>1, <1>2, <1>3, <1>4 DEF StoredStatus, LiveStatus, LoadOrder
<1> QED
  BY <1>5 DEF stored, live

\* An order whose row was lost is live with its new status.
LEMMA LostMaps ==
  ASSUME TypeInv, NEW o \in Ids, NEW order \in SimulatedOrder,
         mem' = [mem EXCEPT ![o] = order], rows' = rows
  PROVE  /\ stored' = stored
         /\ live' = [live EXCEPT ![o] = order.status]
<1>1. mem \in [Ids -> Optional(SimulatedOrder, NoOrder)]
  BY DEF TypeInv, TypeOK
<1>2. order # NoOrder
  BY IdAssumption
<1>3. \A p \in Ids :
        /\ StoredStatus(p)' = StoredStatus(p)
        /\ LiveStatus(p)' = IF p = o THEN order.status ELSE LiveStatus(p)
  BY <1>1, <1>2 DEF StoredStatus, LiveStatus, LoadOrder
<1> QED
  BY <1>3 DEF stored, live

-----------------------------------------------------------------------------
(***************************************************************************)
(* The phases through the computations between two writes.                 *)
(***************************************************************************)
\* An idle call is in no phase.
LEMMA IdlePhases ==
  ASSUME NEW S, NEW L
  PROVE  Phases(IdleCall, S, L)
  BY DEF Phases, OrderPhase, OriginalPhase, IdleCall

\* The end of a submission: the original is still as the request left it.
LEMMA SubmittedPhases ==
  ASSUME NEW c, CallOK(c), NEW S, NEW L, OriginalPhase(c, S, L),
         c.pc \notin {"idle", "orig_row", "orig_log"}
  PROVE  Phases(Submitted(c), S, L)
<1>1. CASE c.orig = NoId
  BY <1>1, IdlePhases DEF Submitted
<1>2. CASE c.orig # NoId
  <2> DEFINE d == Submitted(c)
  <2>1. c.original \in SimulatedOrder
    BY <1>2 DEF CallOK
  <2>2. /\ Transition(c.original, "REPLACED").status = "REPLACED"
        /\ c \in CallType
    BY <2>1, TransitionType DEF OrderStatus, CallOK
  <2>3. /\ d.pc = "orig_row" /\ d.original.status = "REPLACED"
        /\ d.orig = c.orig /\ d.id = c.id
    BY <1>2, <2>2 DEF Submitted, CallType
  <2>4. c.id # c.orig /\ Synced(S, L, c.orig, "REPLACE_REQUESTED")
    BY <1>2 DEF OriginalPhase
  <2> QED
    BY <2>3, <2>4 DEF Phases, OrderPhase, OriginalPhase, NextRow
<1> QED
  BY <1>1, <1>2

\* Matching an order that is stored and live as OPEN.
LEMMA MatchedPhases ==
  ASSUME NEW c, CallOK(c), NEW S, NEW L, OriginalPhase(c, S, L),
         c.pc = "log", c.order.status = "OPEN", Synced(S, L, c.id, "OPEN")
  PROVE  Phases(Matched(c), S, L)
<1> DEFINE d == Matched(c)
<1>1. CASE c.result = NoResult
  BY <1>1, SubmittedPhases DEF Matched
<1>2. CASE c.result # NoResult /\ c.result.status = "RAISED"
  BY <1>2, IdlePhases DEF Matched
<1>3. CASE c.result # NoResult /\ c.result.status # "RAISED"
  <2>0. /\ c \in CallType /\ c.order \in SimulatedOrder
        /\ c.result.remaining_size \in Nat
    BY <1>3 DEF CallOK, GoodResult, FillResult
  <2>1. /\ d.pc \in {"fill_log", "fill_row"}
        /\ d.order.status \in {"OPEN", "PARTIALLY_FILLED", "FILLED"}
        /\ d.orig = c.orig /\ d.id = c.id /\ d.original = c.original
    <3>1. CASE c.result.status = "OPEN"
      <4>1. d = [c EXCEPT !.pc = "fill_row"]
        BY <1>3, <3>1 DEF Matched
      <4> QED
        BY <2>0, <4>1 DEF CallType
    <3>2. CASE c.result.status = "FILLED"
      <4>1. d = [c EXCEPT !.from = c.order.status,
                   !.order = MarkFilled(c.order), !.pc = "fill_log"]
        BY <1>3, <3>2 DEF Matched
      <4>2. MarkFilled(c.order).status = "FILLED"
        BY <2>0, MarkType
      <4> QED
        BY <2>0, <4>1, <4>2 DEF CallType
    <3>3. CASE c.result.status \notin {"OPEN", "FILLED"}
      <4>1. d = [c EXCEPT !.from = c.order.status, !.pc = "fill_log",
                   !.order = MarkPartiallyFilled(c.order,
                                                 c.result.remaining_size)]
        BY <1>3, <3>3 DEF Matched
      <4>2. MarkPartiallyFilled(c.order, c.result.remaining_size).status
              = "PARTIALLY_FILLED"
        BY <2>0, MarkType
      <4> QED
        BY <2>0, <4>1, <4>2 DEF CallType
    <3> QED
      BY <3>1, <3>2, <3>3
  <2> HIDE DEF d
  <2> QED
    BY <2>1 DEF Phases, OrderPhase, OriginalPhase, d
<1> QED
  BY <1>1, <1>2, <1>3

\* Moving an order on to a status whose row may be written next.
LEMMA MoveToPhases ==
  ASSUME NEW c, CallOK(c), c.pc # "idle", NEW S, NEW L,
         OriginalPhase(c, S, L), c.pc \notin {"orig_row", "orig_log"},
         NEW s \in OrderStatus, NextRow(S, L, c.id, s)
  PROVE  Phases(MoveTo(c, s), S, L)
<1>1. /\ MoveTo(c, s).pc = "row" /\ MoveTo(c, s).order.status = s
      /\ MoveTo(c, s).id = c.id /\ MoveTo(c, s).orig = c.orig
      /\ MoveTo(c, s).original = c.original
  BY MoveToOK, TransitionType DEF CallOK
<1> QED
  BY <1>1 DEF Phases, OrderPhase, OriginalPhase

\* What follows a recorded transition.
LEMMA AfterTransitionPhases ==
  ASSUME NEW c, CallOK(c), c.pc = "log", NEW S, NEW L, Phases(c, S, L)
  PROVE  Phases(AfterTransition(c), S, L)
<1>0. OriginalPhase(c, S, L) /\ Synced(S, L, c.id, c.order.status)
  BY DEF Phases, OrderPhase
<1>1. CASE c.order.status = "ACCEPTED"
  BY <1>0, <1>1, MoveToPhases DEF AfterTransition, NextRow, OrderStatus
<1>2. CASE c.order.status = "OPEN"
  BY <1>0, <1>2, MatchedPhases DEF AfterTransition
<1>3. CASE c.order.status = "CANCEL_REQUESTED"
  BY <1>0, <1>3, MoveToPhases DEF AfterTransition, NextRow, OrderStatus
<1>4. CASE c.order.status \notin {"ACCEPTED", "OPEN", "CANCEL_REQUESTED"}
  BY <1>4, IdlePhases DEF AfterTransition
<1> QED
  BY <1>1, <1>2, <1>3, <1>4

-----------------------------------------------------------------------------
(***************************************************************************)
(* What a step may do to the maps: nothing, or one move of one order that  *)
(* is written, or written by the service only.                             *)
(***************************************************************************)
\* Order o moves to status s from where the phases allow it.
MayMove(S, L, o, s) ==
  /\ s \in OrderStatus
  /\ Lag(S[o], s)
  /\ s = L[o] \/ Contract!LifecycleEdge(L[o], s)
  /\ S[o] \notin TerminalStatus

MapStep ==
  \/ stored' = stored /\ live' = live /\ rows' = rows
  \/ \E o \in Ids, s \in OrderStatus :
       /\ MayMove(stored, live, o, s)
       /\ live' = [live EXCEPT ![o] = s]
       /\ \/ stored' = stored /\ rows' = rows
          \/ /\ stored' = [stored EXCEPT ![o] = s]
             /\ \A p \in Ids \ {o} : rows'[p] = rows[p]

\* The row of the call's order may be written when the code writes it.
LEMMA OrderMayMove ==
  ASSUME TypeInv, StatusInv, Now("row") \/ Now("fill_row")
  PROVE  /\ call.id \in Ids /\ call.order \in SimulatedOrder
         /\ MayMove(stored, live, call.id, call.order.status)
<1>1. call.id \in Ids /\ call.order \in SimulatedOrder
  BY DEF TypeInv, CallOK, Now
<1>2. /\ stored \in StatusMap /\ live \in StatusMap
      /\ live[call.id] = "ABSENT" => stored[call.id] = "ABSENT"
  BY <1>1, StatusMapType
<1>3. Lag(stored[call.id], live[call.id])
  BY <1>1 DEF StatusInv, AllLag
<1>4. CASE Now("row")
  <2>1. NextRow(stored, live, call.id, call.order.status)
    BY <1>4 DEF StatusInv, Phases, OrderPhase, Now
  <2> QED
    BY <1>1, <1>2, <1>3, <2>1, NextRowMoves DEF MayMove
<1>5. CASE Now("fill_row")
  <2>1. /\ Synced(stored, live, call.id, "OPEN")
        /\ call.order.status \in {"OPEN", "PARTIALLY_FILLED", "FILLED"}
    BY <1>5 DEF StatusInv, Phases, OrderPhase, Now
  <2> QED
    BY <1>1, <2>1, FillRowMoves DEF MayMove
<1> QED
  BY <1>4, <1>5

\* So may the row of the order being replaced.
LEMMA OriginalMayMove ==
  ASSUME TypeInv, StatusInv, Now("orig_row")
  PROVE  /\ call.orig \in Ids /\ call.original \in SimulatedOrder
         /\ call.orig # NoId
         /\ MayMove(stored, live, call.orig, call.original.status)
<1>1. /\ call.orig \in Ids /\ call.original \in SimulatedOrder
      /\ call.orig # NoId
  BY DEF TypeInv, CallOK, Now
<1>2. /\ stored \in StatusMap /\ live \in StatusMap
      /\ live[call.orig] = "ABSENT" => stored[call.orig] = "ABSENT"
  BY <1>1, StatusMapType
<1>3. Lag(stored[call.orig], live[call.orig])
  BY <1>1 DEF StatusInv, AllLag
<1>4. NextRow(stored, live, call.orig, call.original.status)
  BY <1>1 DEF StatusInv, Phases, OriginalPhase, Now
<1> QED
  BY <1>1, <1>2, <1>3, <1>4, NextRowMoves DEF MayMove

\* Persisting is a map step.
LEMMA PersistMapStep ==
  ASSUME TypeInv, NEW o \in Ids, NEW order \in SimulatedOrder,
         MayMove(stored, live, o, order.status), Persist(o, order)
  PROVE  MapStep
<1>1. /\ stored' = [stored EXCEPT ![o] = order.status]
      /\ live' = [live EXCEPT ![o] = order.status]
  BY PersistMaps
<1>2. \A p \in Ids \ {o} : rows'[p] = rows[p]
  BY DEF Persist, TypeInv, TypeOK
<1> QED
  BY <1>1, <1>2 DEF MapStep, MayMove

\* So is losing the row after the service took its copy.
LEMMA LostMapStep ==
  ASSUME TypeInv, NEW o \in Ids, NEW order \in SimulatedOrder,
         MayMove(stored, live, o, order.status),
         mem' = [mem EXCEPT ![o] = order], rows' = rows
  PROVE  MapStep
<1>1. /\ stored' = stored
      /\ live' = [live EXCEPT ![o] = order.status]
  BY LostMaps
<1> QED
  BY <1>1 DEF MapStep, MayMove

\* Every write of a call, and every write it loses, is a map step.
LEMMA WritesMapStep ==
  ASSUME TypeInv, StatusInv, WriteReached \/ (~Now("idle") /\ WriteLost)
  PROVE  MapStep
<1>1. CASE WriteOrder
  BY <1>1, OrderMayMove, PersistMapStep DEF WriteOrder
<1>2. CASE WriteOriginal
  BY <1>2, OriginalMayMove, PersistMapStep DEF WriteOriginal
<1>3. CASE WriteDecision \/ WriteTransition \/ WriteOriginalTransition
           \/ WriteCash \/ WriteFee \/ WritePosition \/ WriteFill
           \/ WriteValuation
  <2>1. UNCHANGED <<mem, rows>>
    BY <1>3 DEF WriteDecision, WriteTransition, WriteOriginalTransition,
       AppendTransition, WriteCash, WriteFee, InsertCash, WritePosition,
       WriteFill, WriteValuation
  <2> QED
    BY <2>1, SameMaps DEF MapStep
<1>4. CASE ~Now("idle") /\ WriteLost
  <2>0. rows' = rows
    BY <1>4 DEF WriteLost, store
  <2>1. CASE Now("row") \/ Now("fill_row")
    <3>1. mem' = [mem EXCEPT ![call.id] = call.order]
      BY <1>4, <2>1 DEF WriteLost, Now
    <3> QED
      BY <2>0, <2>1, <3>1, OrderMayMove, LostMapStep
  <2>2. CASE Now("orig_row")
    <3>1. mem' = [mem EXCEPT ![call.orig] = call.original]
      BY <1>4, <2>2 DEF WriteLost, Now
    <3> QED
      BY <2>0, <2>2, <3>1, OriginalMayMove, LostMapStep
  <2>3. CASE ~(Now("row") \/ Now("fill_row") \/ Now("orig_row"))
    <3>1. mem' = mem
      BY <1>4, <2>3 DEF WriteLost
    <3> QED
      BY <2>0, <3>1, SameMaps DEF MapStep
  <2> QED
    BY <2>1, <2>2, <2>3
<1> QED
  BY <1>1, <1>2, <1>3, <1>4 DEF WriteReached

\* A map step keeps the lag.
LEMMA MapStepKeepsLag ==
  ASSUME TypeInv, AllLag(stored, live), MapStep
  PROVE  AllLag(stored', live')
<1>0. stored \in StatusMap /\ live \in StatusMap
  BY StatusMapType
<1>1. CASE stored' = stored /\ live' = live
  BY <1>1
<1>2. ASSUME NEW o \in Ids, NEW s \in OrderStatus,
             MayMove(stored, live, o, s), live' = [live EXCEPT ![o] = s],
             stored' = stored \/ stored' = [stored EXCEPT ![o] = s]
      PROVE  AllLag(stored', live')
  BY <1>0, <1>2 DEF MayMove, AllLag, StatusMap, Lag
<1> QED
  BY <1>1, <1>2 DEF MapStep

-----------------------------------------------------------------------------
(***************************************************************************)
(* The invariant.                                                          *)
(***************************************************************************)
\* A client's call starts in phase.
LEMMA ClientsKeepPhases ==
  ASSUME TypeInv, Client
  PROVE  Phases(call', stored, live)
<1>0. \A o \in Ids : LoadOrder(o) \in Optional(SimulatedOrder, NoOrder)
  BY LoadOrderType, TypeInvParts
<1>1. ASSUME NEW o \in Ids, SubmitOrderIntent(o)
      PROVE  Phases(call', stored, live)
  <2>1. PICK i \in Intents, d \in RiskDecisionType, s \in Snapshots :
          StartSubmit(o, i, d, s)
    BY <1>1 DEF SubmitOrderIntent
  <2>2. /\ call'.pc = "risk" /\ call'.id = o /\ call'.orig = NoId
        /\ call'.order.status = "PENDING"
    BY <2>1, CreateOrderType DEF StartSubmit, IdleCall
  <2>3. live[o] = "ABSENT"
    BY <1>1 DEF SubmitOrderIntent, Fresh, live, LiveStatus
  <2> QED
    BY <2>2, <2>3 DEF Phases, OrderPhase, OriginalPhase, Pending
<1>2. ASSUME NEW o \in Ids, CancelOrder(o)
      PROVE  Phases(call', stored, live)
  <2>1. LoadOrder(o) \in SimulatedOrder /\ live[o] = LoadOrder(o).status
    BY <1>0, <1>2 DEF CancelOrder, Optional, live, LiveStatus
  <2>2. live[o] \in {"OPEN", "PARTIALLY_FILLED"}
    BY <1>2, <2>1
    DEF CancelOrder, CanTransition, LegalTransitions, SimulatedOrder,
        OrderStatus
  <2>3. /\ call'.pc = "row" /\ call'.id = o /\ call'.orig = NoId
        /\ call'.order.status = "CANCEL_REQUESTED"
    BY <1>2, <2>1, TransitionType DEF CancelOrder, IdleCall, OrderStatus
  <2> QED
    BY <2>2, <2>3 DEF Phases, OrderPhase, OriginalPhase, NextRow
<1>3. ASSUME NEW o \in Ids, NEW n \in Ids, ReplaceOrder(o, n)
      PROVE  Phases(call', stored, live)
  <2>1. LoadOrder(o) \in SimulatedOrder /\ live[o] = LoadOrder(o).status
    BY <1>0, <1>3 DEF ReplaceOrder, Optional, live, LiveStatus
  <2>2. live[o] \in {"OPEN", "PARTIALLY_FILLED"}
    BY <1>3, <2>1
    DEF ReplaceOrder, CanTransition, LegalTransitions, SimulatedOrder,
        OrderStatus
  <2>3. PICK i \in Intents, d \in RiskDecisionType, s \in Snapshots :
          call' = [IdleCall EXCEPT !.pc = "orig_row", !.orig = o, !.id = n,
                     !.from = LoadOrder(o).status,
                     !.original = Transition(LoadOrder(o), "REPLACE_REQUESTED"),
                     !.order = CreateOrder(i), !.decision = d,
                     !.result = MatchAgainst(i, s)]
    BY <1>3 DEF ReplaceOrder
  <2>4. /\ call'.pc = "orig_row" /\ call'.id = n /\ call'.orig = o
        /\ call'.original.status = "REPLACE_REQUESTED"
        /\ call'.order.status = "PENDING"
    BY <2>1, <2>3, TransitionType, CreateOrderType DEF IdleCall, OrderStatus
  <2>5. live[n] = "ABSENT"
    BY <1>3 DEF ReplaceOrder, Fresh, live, LiveStatus
  <2>6. n # o
    BY <2>2, <2>5
  <2> QED
    BY <2>2, <2>4, <2>5, <2>6
    DEF Phases, OrderPhase, OriginalPhase, NextRow, Pending
<1> QED
  BY <1>1, <1>2, <1>3 DEF Client

\* Every step of a call leaves it in the phase of its next write.
LEMMA StepsKeepPhases ==
  ASSUME TypeInv, StatusInv, Step
  PROVE  Phases(call', stored', live')
<1>0. /\ CallOK(call) /\ call \in CallType
      /\ OrderPhase(call, stored, live) /\ OriginalPhase(call, stored, live)
      /\ stored \in StatusMap /\ live \in StatusMap
  BY StatusMapType DEF TypeInv, TypeOK, StatusInv, Phases
<1>1. CASE InsertRiskDecision
  <2>1. stored' = stored /\ live' = live
    BY <1>1, SameMaps DEF InsertRiskDecision, WriteDecision
  <2>2. PICK s \in {"ACCEPTED", "REJECTED"} : call' = MoveTo(call, s)
    BY <1>1 DEF InsertRiskDecision
  <2>3. call.pc = "risk"
    BY <1>1 DEF InsertRiskDecision, WriteDecision, Now
  <2>4. NextRow(stored, live, call.id, s) /\ s \in OrderStatus
    BY <1>0, <2>3 DEF OrderPhase, Pending, NextRow, OrderStatus
  <2> QED
    BY <1>0, <2>1, <2>2, <2>3, <2>4, MoveToPhases
<1>2. CASE PersistOrder
  <2>1. /\ call.pc \in {"row", "fill_row"}
        /\ call.id \in Ids /\ call.order \in SimulatedOrder
        /\ Persist(call.id, call.order)
    BY <1>0, <1>2 DEF PersistOrder, WriteOrder, Now, CallOK
  <2>2. /\ stored' = [stored EXCEPT ![call.id] = call.order.status]
        /\ live' = [live EXCEPT ![call.id] = call.order.status]
    BY <2>1, PersistMaps
  <2>3. OriginalPhase(call, stored', live')
    <3>1. call.orig # NoId => call.orig # call.id
      BY <1>0, <2>1 DEF OriginalPhase
    <3> QED
      BY <1>0, <2>1, <2>2, <3>1
      DEF OriginalPhase, NextRow, Synced, Pending, StatusMap
  <2>4. CASE call.pc = "row"
    <3>1. call' = [call EXCEPT !.pc = "log"]
      BY <1>2, <2>4 DEF PersistOrder, Now
    <3>2. Synced(stored', live', call.id, call.order.status)
      BY <1>0, <2>1, <2>2 DEF Synced, StatusMap
    <3>3. /\ call'.pc = "log" /\ call'.id = call.id
          /\ call'.order = call.order /\ call'.orig = call.orig
          /\ call'.original = call.original
      BY <1>0, <3>1 DEF CallType
    <3> QED
      BY <2>3, <2>4, <3>2, <3>3 DEF Phases, OrderPhase, OriginalPhase
  <2>5. CASE call.pc = "fill_row" /\ call.result.fills = << >>
    <3>1. call' = Submitted(call)
      BY <1>2, <2>5 DEF PersistOrder, Now
    <3> QED
      BY <1>0, <2>3, <2>5, <3>1, SubmittedPhases
  <2>6. CASE call.pc = "fill_row" /\ call.result.fills # << >>
    <3>1. call' = [call EXCEPT !.pc = "cash", !.k = 1]
      BY <1>2, <2>6 DEF PersistOrder, Now
    <3>2. /\ call'.pc = "cash" /\ call'.id = call.id
          /\ call'.orig = call.orig /\ call'.original = call.original
      BY <1>0, <3>1 DEF CallType
    <3> QED
      BY <2>3, <2>6, <3>2 DEF Phases, OrderPhase, OriginalPhase
  <2> QED
    BY <2>1, <2>4, <2>5, <2>6
<1>3. CASE InsertTransition
  <2>1. stored' = stored /\ live' = live
    BY <1>3, SameMaps
    DEF InsertTransition, WriteTransition, AppendTransition
  <2>2. CASE call.pc = "log"
    <3>1. call' = AfterTransition(call)
      BY <1>3, <2>2 DEF InsertTransition, Now
    <3> QED
      BY <1>0, <2>1, <2>2, <3>1, AfterTransitionPhases DEF Phases
  <2>3. CASE call.pc = "fill_log"
    <3>1. call' = [call EXCEPT !.pc = "fill_row"]
      BY <1>3, <2>3 DEF InsertTransition, Now
    <3>2. /\ call'.pc = "fill_row" /\ call'.id = call.id
          /\ call'.order = call.order /\ call'.orig = call.orig
          /\ call'.original = call.original
      BY <1>0, <3>1 DEF CallType
    <3> QED
      BY <1>0, <2>1, <2>3, <3>2 DEF Phases, OrderPhase, OriginalPhase
  <2> QED
    BY <1>3, <2>2, <2>3 DEF InsertTransition, WriteTransition, Now
<1>4. CASE PersistOriginal
  <2>1. /\ call.pc = "orig_row" /\ call.orig # NoId
        /\ call.orig \in Ids /\ call.original \in SimulatedOrder
        /\ call.id \in Ids /\ Persist(call.orig, call.original)
    BY <1>0, <1>4 DEF PersistOriginal, WriteOriginal, Now, CallOK
  <2>2. /\ stored' = [stored EXCEPT ![call.orig] = call.original.status]
        /\ live' = [live EXCEPT ![call.orig] = call.original.status]
    BY <2>1, PersistMaps
  <2>3. /\ call'.pc = "orig_log" /\ call'.id = call.id
        /\ call'.order = call.order /\ call'.orig = call.orig
        /\ call'.original = call.original
    BY <1>0, <1>4 DEF PersistOriginal, CallType
  <2>4. Synced(stored', live', call.orig, call.original.status)
    BY <1>0, <2>1, <2>2 DEF Synced, StatusMap
  <2>5. call.original.status = "REPLACE_REQUESTED" => Pending(call, live')
    BY <1>0, <2>1, <2>2 DEF OriginalPhase, Pending, StatusMap
  <2> QED
    BY <1>0, <2>1, <2>3, <2>4, <2>5
    DEF Phases, OrderPhase, OriginalPhase, Pending
<1>5. CASE InsertOriginalTransition
  <2>1. stored' = stored /\ live' = live
    BY <1>5, SameMaps
    DEF InsertOriginalTransition, WriteOriginalTransition, AppendTransition
  <2>2. call.pc = "orig_log" /\ call.orig # NoId
    BY <1>0, <1>5
    DEF InsertOriginalTransition, WriteOriginalTransition, Now, CallOK
  <2>3. CASE call.original.status = "REPLACE_REQUESTED"
    <3>1. /\ call'.pc = "risk" /\ call'.id = call.id
          /\ call'.order = call.order /\ call'.orig = call.orig
          /\ call'.original = call.original
      BY <1>0, <1>5, <2>3 DEF InsertOriginalTransition, CallType
    <3> QED
      BY <1>0, <2>1, <2>2, <2>3, <3>1
      DEF Phases, OrderPhase, OriginalPhase, Pending
  <2>4. CASE call.original.status # "REPLACE_REQUESTED"
    BY <1>5, <2>1, <2>4, IdlePhases DEF InsertOriginalTransition
  <2> QED
    BY <2>3, <2>4
<1>6. CASE InsertCashEntry \/ InsertFeeEntry \/ InsertPositionEntry
           \/ InsertFill
  <2>1. stored' = stored /\ live' = live
    BY <1>6, SameMaps
    DEF InsertCashEntry, InsertFeeEntry, InsertPositionEntry, InsertFill,
        WriteCash, WriteFee, InsertCash, WritePosition, WriteFill
  <2>2. call.pc \in FillStage
    BY <1>6
    DEF InsertCashEntry, InsertFeeEntry, InsertPositionEntry, InsertFill,
        WriteCash, WriteFee, WritePosition, WriteFill, Now, FillStage
  <2>3. /\ call'.pc \in FillStage \cup {"valuation"}
        /\ call'.orig = call.orig /\ call'.original = call.original
        /\ call'.id = call.id
    BY <1>0, <1>6
    DEF InsertCashEntry, InsertFeeEntry, InsertPositionEntry, InsertFill,
        AfterFill, CallType, FillStage
  <2> QED
    BY <1>0, <2>1, <2>2, <2>3 DEF Phases, OrderPhase, OriginalPhase, FillStage
<1>7. CASE InsertValuation
  <2>1. stored' = stored /\ live' = live
    BY <1>7, SameMaps DEF InsertValuation, WriteValuation
  <2>2. call.pc = "valuation" /\ call' = Submitted(call)
    BY <1>7 DEF InsertValuation, WriteValuation, Now
  <2> QED
    BY <1>0, <2>1, <2>2, SubmittedPhases
<1> QED
  BY <1>1, <1>2, <1>3, <1>4, <1>5, <1>6, <1>7 DEF Step

\* Initially nothing is known of any order.
LEMMA InitStatusInv == Init => StatusInv
  BY IdlePhases
  DEF Init, StatusInv, AllLag, Lag, stored, live, StoredStatus, LiveStatus,
      LoadOrder

\* A crash leaves the stored statuses.
LEMMA CrashMaps ==
  ASSUME TypeInv, Crash
  PROVE  stored' = stored /\ live' = stored
  BY DEF Crash, store, stored, live, StoredStatus, LiveStatus, LoadOrder

\* Every step keeps the invariant.
LEMMA NextStatusInv == TypeInv /\ StatusInv /\ [Next]_vars => StatusInv'
<1> SUFFICES ASSUME TypeInv, StatusInv, [Next]_vars PROVE StatusInv'
  OBVIOUS
<1>0. AllLag(stored, live)
  BY DEF StatusInv
<1>1. CASE Client
  <2>1. stored' = stored /\ live' = live
    BY <1>1, ClientsKeepCall, SameMaps DEF store
  <2> QED
    BY <1>0, <1>1, <2>1, ClientsKeepPhases DEF StatusInv
<1>2. CASE Step
  <2>1. AllLag(stored', live')
    BY <1>0, <1>2, StepsKeepCall, WritesMapStep, MapStepKeepsLag
  <2> QED
    BY <1>2, <2>1, StepsKeepPhases DEF StatusInv
<1>3. CASE StoreError
  <2>1. AllLag(stored', live')
    BY <1>0, <1>3, WritesMapStep, MapStepKeepsLag DEF StoreError
  <2>2. Phases(call', stored', live')
    BY <1>3, IdlePhases DEF StoreError
  <2> QED
    BY <2>1, <2>2 DEF StatusInv
<1>4. CASE Crash
  <2>1. stored' = stored /\ live' = stored /\ call' = IdleCall
    BY <1>4, CrashMaps DEF Crash
  <2>2. AllLag(stored', live')
    BY <2>1 DEF AllLag, Lag
  <2>3. Phases(call', stored', live')
    BY <2>1, IdlePhases
  <2> QED
    BY <2>2, <2>3 DEF StatusInv
<1>5. CASE UNCHANGED vars
  <2>1. stored' = stored /\ live' = live /\ call' = call
    BY <1>5, SameMaps DEF vars, store
  <2> QED
    BY <2>1 DEF StatusInv
<1> QED
  BY <1>1, <1>2, <1>3, <1>4, <1>5 DEF Next

-----------------------------------------------------------------------------
(***************************************************************************)
(* The theorems.                                                           *)
(***************************************************************************)
\* A lag is at most two lifecycle moves.
LEMMA LagIsBehind ==
  ASSUME NEW s, NEW l, Lag(s, l)
  PROVE  Contract!Behind(s, l)
<1>1. CASE s = l \/ Contract!LifecycleEdge(s, l)
  BY <1>1 DEF Contract!Behind
<1>2. CASE /\ l \in {"CANCEL_REQUESTED", "REPLACE_REQUESTED"}
           /\ s \in {"ACCEPTED", "OPEN", "PARTIALLY_FILLED"}
  <2>1. PICK m \in {"OPEN", "PARTIALLY_FILLED"} :
          Contract!LifecycleEdge(s, m) /\ Contract!LifecycleEdge(m, l)
    BY <1>2 DEF Contract!LifecycleEdge, Contract!LegalTransitions
  <2> QED
    BY <2>1 DEF Contract!Behind, Contract!OrderStatus
<1> QED
  BY <1>1, <1>2 DEF Lag

\* However writes are lost and processes die, the orders table is never ahead
\* of the service and at most two lifecycle moves behind it.
THEOREM StoreLags == Spec => []StoreLagsByAtMostTwoMoves
<1>1. StatusInv => StoreLagsByAtMostTwoMoves
  BY LagIsBehind DEF StatusInv, AllLag, stored, live, StoreLagsByAtMostTwoMoves
<1> QED
  BY <1>1, InitTypeInv, NextTypeInv, InitStatusInv, NextStatusInv, PTL
  DEF Spec

\* Every step is a step of the maps, or a crash.
LEMMA NextMapStep ==
  ASSUME TypeInv, StatusInv, [Next]_vars
  PROVE  MapStep \/ Crash
<1>1. CASE Client
  BY <1>1, ClientsKeepCall, SameMaps DEF MapStep, store
<1>2. CASE Step
  BY <1>2, StepsKeepCall, WritesMapStep
<1>3. CASE StoreError
  BY <1>3, WritesMapStep DEF StoreError
<1>4. CASE UNCHANGED vars
  BY <1>4, SameMaps DEF MapStep, vars, store
<1> QED
  BY <1>1, <1>2, <1>3, <1>4 DEF Next

\* No write, retry, restart or late request ever touches the row of an order
\* that reached a terminal status.
THEOREM TerminalRows == Spec => TerminalRowsAreFinal
<1> DEFINE Final == \A o \in Ids : StoredStatus(o) \in TerminalStatus =>
                                     rows'[o] = rows[o]
<1>1. TypeInv /\ StatusInv /\ [Next]_vars => [Final]_vars
  <2> SUFFICES ASSUME TypeInv, StatusInv, [Next]_vars PROVE Final
    OBVIOUS
  <2>1. CASE rows' = rows
    BY <2>1
  <2>2. ASSUME NEW o \in Ids, NEW s \in OrderStatus,
               MayMove(stored, live, o, s),
               \A p \in Ids \ {o} : rows'[p] = rows[p]
        PROVE  Final
    BY <2>2 DEF MayMove, stored
  <2>3. MapStep => Final
    BY <2>1, <2>2 DEF MapStep
  <2>4. Crash => Final
    BY DEF Crash, store
  <2> HIDE DEF Final
  <2> QED
    BY <2>3, <2>4, NextMapStep
<1> QED
  BY <1>1, InitTypeInv, NextTypeInv, InitStatusInv, NextStatusInv, PTL
  DEF Spec, TerminalRowsAreFinal

\* PaperExchange implements OrderContract: as cancel and replace see it, each
\* order follows the lifecycle table, and a restart takes it back at most two
\* moves.
THEOREM ImplementsContract == Spec => FollowsContract
<1>1. Init => Contract!ContractInit
  BY DEF Init, Contract!ContractInit, LiveStatus, LoadOrder
<1>2. TypeInv /\ StatusInv /\ [Next]_vars
        => Contract!ContractNext \/ live' = live
  <2> SUFFICES ASSUME TypeInv, StatusInv, [Next]_vars
               PROVE  Contract!ContractNext \/ live' = live
    OBVIOUS
  <2>1. ASSUME NEW o \in Ids, NEW s \in OrderStatus,
               MayMove(stored, live, o, s), live' = [live EXCEPT ![o] = s]
        PROVE  Contract!ContractNext \/ live' = live
    <3>1. CASE s = live[o]
      BY <2>1, <3>1 DEF live
    <3>2. CASE Contract!LifecycleEdge(live[o], s)
      <4>1. Contract!Move(o)
        BY <2>1, <3>2 DEF Contract!Move, Contract!OrderStatus, OrderStatus, live
      <4> QED
        BY <4>1 DEF Contract!ContractNext
    <3> QED
      BY <2>1, <3>1, <3>2 DEF MayMove
  <2>2. CASE Crash
    <3>1. stored \in StatusMap /\ live' = stored
      BY <2>2, StatusMapType, CrashMaps
    <3>2. \A o \in Ids : Contract!Behind(live'[o], live[o])
      BY <3>1, LagIsBehind DEF StatusInv, AllLag
    <3>3. Contract!Restart
      BY <3>1, <3>2 DEF Contract!Restart, StatusMap, live
    <3> QED
      BY <3>3 DEF Contract!ContractNext
  <2>3. CASE MapStep
    BY <2>1, <2>3 DEF MapStep
  <2> QED
    BY <2>2, <2>3, NextMapStep
<1>3. TypeInv /\ StatusInv /\ [Next]_vars
        => [Contract!ContractNext]_([o \in Ids |-> LiveStatus(o)])
  BY <1>2 DEF live
<1> QED
  BY <1>1, <1>3, InitTypeInv, NextTypeInv, InitStatusInv, NextStatusInv, PTL
  DEF Spec, FollowsContract, Contract!ContractSpec

-----------------------------------------------------------------------------
(***************************************************************************)
(* The transition log with a store that does not fail.  E is where the log *)
(* of each order ends.  Row and log of an order agree but for the order a  *)
(* call is writing, and the transition it writes next starts at E.         *)
(***************************************************************************)
EndOf(o) == IF log[o] = << >> THEN "PENDING" ELSE log[o][Len(log[o])][2]
ends == [o \in Ids |-> EndOf(o)]

IsPath(l) ==
  /\ \A i \in 1 .. Len(l) - 1 : l[i][2] = l[i + 1][1]
  /\ l # << >> => l[1][1] = "PENDING"

Settled(S, E, o) ==
  IF S[o] = "ABSENT" THEN E[o] = "PENDING" ELSE S[o] = E[o] /\ E[o] # "PENDING"

HalfWritten(c, o) ==
  \/ c.pc \in {"log", "fill_row"} /\ o = c.id
  \/ c.pc = "orig_log" /\ o = c.orig

LogPhase(c, S, E) ==
  /\ \A o \in Ids : HalfWritten(c, o) \/ Settled(S, E, o)
  /\ c.pc \in {"row", "log", "fill_log"} => c.from = E[c.id]
  /\ c.pc \in {"orig_row", "orig_log"} => c.from = E[c.orig]
  /\ c.pc = "fill_row" => E[c.id] = c.order.status
  /\ c.pc = "log" => c.order.status # "PENDING"

LogInv ==
  /\ LogPhase(call, stored, ends)
  /\ \A o \in Ids : IsPath(log[o])
  /\ stored = live

\* The log of one order grows by one transition that starts where it ends.
LEMMA AppendMaps ==
  ASSUME TypeInv, NEW o \in Ids, NEW to \in OrderStatus,
         \A p \in Ids : IsPath(log[p]), AppendTransition(o, ends[o], to)
  PROVE  /\ ends' = [ends EXCEPT ![o] = to]
         /\ \A p \in Ids : IsPath(log'[p])
         /\ stored' = stored /\ live' = live
<1>0. log \in [Ids -> Seq(OrderStatus \X OrderStatus)]
  BY DEF TypeInv, TypeOK
<1>1. ends[o] = EndOf(o)
  BY DEF ends
<1>2. \A p \in Ids : log'[p] = IF p = o THEN Append(log[o], <<ends[o], to>>) ELSE log[p]
  BY <1>0 DEF AppendTransition
<1>3. EndOf(o)' = to
  <2> DEFINE l == Append(log[o], <<ends[o], to>>)
  <2>1. log[o] \in Seq(OrderStatus \X OrderStatus)
    BY <1>0
  <2>2. /\ Len(l) = Len(log[o]) + 1 /\ Len(log[o]) \in Nat
        /\ l[Len(log[o]) + 1] = <<ends[o], to>>
    BY <2>1
  <2>3. log'[o] = l
    BY <1>2
  <2> HIDE DEF l
  <2>4. l # << >> /\ l[Len(l)][2] = to
    BY <2>2
  <2> QED
    BY <2>3, <2>4 DEF EndOf
<1>4. \A p \in Ids : EndOf(p)' = IF p = o THEN to ELSE EndOf(p)
  BY <1>2, <1>3 DEF EndOf
<1>5. IsPath(Append(log[o], <<ends[o], to>>))
  <2> DEFINE s == log[o]
             l == Append(s, <<ends[o], to>>)
  <2>1. s \in Seq(OrderStatus \X OrderStatus) /\ IsPath(s)
    BY <1>0
  <2>2. /\ Len(l) = Len(s) + 1 /\ Len(s) \in Nat
        /\ \A i \in 1 .. Len(s) : l[i] = s[i]
        /\ l[Len(s) + 1][1] = ends[o]
    BY <2>1
  <2>3. s # << >> => ends[o] = s[Len(s)][2] /\ Len(s) >= 1
    BY <2>1, <1>1 DEF EndOf
  <2>4. s = << >> => ends[o] = "PENDING" /\ Len(s) = 0
    BY <1>1 DEF EndOf
  <2>5. s # << >> => s[1][1] = "PENDING"
    BY <2>1 DEF IsPath
  <2>6. \A i \in 1 .. Len(s) - 1 : s[i][2] = s[i + 1][1]
    BY <2>1 DEF IsPath
  <2> HIDE DEF s, l
  <2>7. ASSUME NEW i \in 1 .. Len(l) - 1 PROVE l[i][2] = l[i + 1][1]
    <3>1. CASE i < Len(s)
      BY <2>2, <2>6, <2>7, <3>1
    <3>2. CASE i = Len(s)
      <4>1. Len(s) # 0 /\ s # << >>
        BY <2>2, <2>4, <2>7, <3>2
      <4>2. l[i] = s[Len(s)] /\ l[i + 1][1] = ends[o]
        BY <2>2, <3>2, <4>1
      <4> QED
        BY <2>3, <4>1, <4>2
    <3> QED
      BY <2>2, <2>7, <3>1, <3>2
  <2>8. l[1][1] = "PENDING"
    <3>1. CASE s = << >>
      <4>1. l[1][1] = ends[o]
        BY <2>2, <2>4, <3>1
      <4> QED
        BY <2>4, <3>1, <4>1
    <3>2. CASE s # << >>
      BY <2>2, <2>3, <2>5, <3>2
    <3> QED
      BY <3>1, <3>2
  <2>9. IsPath(l)
    BY <2>7, <2>8 DEF IsPath
  <2> QED
    BY <2>9 DEF l, s
<1>6. \A p \in Ids : IsPath(log'[p])
  BY <1>2, <1>5
<1> QED
  BY <1>4, <1>6, SameMaps DEF ends, AppendTransition

\* The idle call is writing nothing.
LEMMA IdleLogPhase ==
  ASSUME NEW S, NEW E, \A o \in Ids : Settled(S, E, o)
  PROVE  LogPhase(IdleCall, S, E)
  BY DEF LogPhase, IdleCall

\* The end of a submission: the original is logged as the request left it.
LEMMA SubmittedLogPhase ==
  ASSUME NEW c, CallOK(c), NEW S, NEW L, NEW E, OriginalPhase(c, S, L),
         c.pc \notin {"idle", "orig_row", "orig_log"},
         \A o \in Ids : Settled(S, E, o)
  PROVE  LogPhase(Submitted(c), S, E)
<1>1. CASE c.orig = NoId
  BY <1>1, IdleLogPhase DEF Submitted
<1>2. CASE c.orig # NoId
  <2>1. /\ Submitted(c).pc = "orig_row" /\ Submitted(c).orig = c.orig
        /\ Submitted(c).from = c.original.status
    BY <1>2 DEF Submitted, CallOK, CallType
  <2>2. /\ c.orig \in Ids /\ c.original.status = "REPLACE_REQUESTED"
        /\ S[c.orig] = "REPLACE_REQUESTED"
    BY <1>2 DEF OriginalPhase, Synced, CallOK
  <2>3. E[c.orig] = "REPLACE_REQUESTED"
    BY <2>2 DEF Settled
  <2> QED
    BY <2>1, <2>2, <2>3 DEF LogPhase
<1> QED
  BY <1>1, <1>2

\* An order that is settled moves on from where its log ends.
LEMMA MoveToLogPhase ==
  ASSUME NEW c, CallOK(c), c.pc # "idle", NEW S, NEW E, NEW s \in OrderStatus,
         c.order.status = E[c.id], \A o \in Ids : Settled(S, E, o)
  PROVE  LogPhase(MoveTo(c, s), S, E)
<1>1. MoveTo(c, s).pc = "row" /\ MoveTo(c, s).id = c.id
  BY MoveToOK
<1>2. MoveTo(c, s).from = c.order.status
  BY DEF MoveTo, CallOK, CallType
<1> QED
  BY <1>1, <1>2 DEF LogPhase

\* Matching an order that is settled as OPEN.
LEMMA MatchedLogPhase ==
  ASSUME NEW c, CallOK(c), NEW S, NEW L, NEW E, OriginalPhase(c, S, L),
         c.pc = "log", c.order.status = "OPEN", E[c.id] = "OPEN",
         \A o \in Ids : Settled(S, E, o)
  PROVE  LogPhase(Matched(c), S, E)
<1>1. CASE c.result = NoResult
  BY <1>1, SubmittedLogPhase DEF Matched
<1>2. CASE c.result # NoResult /\ c.result.status = "RAISED"
  BY <1>2, IdleLogPhase DEF Matched
<1>3. CASE c.result # NoResult /\ c.result.status = "OPEN"
  <2>1. Matched(c) = [c EXCEPT !.pc = "fill_row"]
    BY <1>3 DEF Matched
  <2>2. /\ Matched(c).pc = "fill_row" /\ Matched(c).id = c.id
        /\ Matched(c).order = c.order
    BY <2>1 DEF CallOK, CallType
  <2> QED
    BY <2>2 DEF LogPhase
<1>4. CASE c.result # NoResult /\ c.result.status \notin {"RAISED", "OPEN"}
  <2>1. /\ Matched(c).pc = "fill_log" /\ Matched(c).id = c.id
        /\ Matched(c).from = c.order.status
    BY <1>4 DEF Matched, CallOK, CallType
  <2> QED
    BY <2>1 DEF LogPhase
<1> QED
  BY <1>1, <1>2, <1>3, <1>4

\* What follows a recorded transition, with the log that holds it.
LEMMA AfterTransitionLogPhase ==
  ASSUME NEW c, CallOK(c), c.pc = "log", NEW S, NEW L, NEW E,
         OriginalPhase(c, S, L), E[c.id] = c.order.status,
         \A o \in Ids : Settled(S, E, o)
  PROVE  LogPhase(AfterTransition(c), S, E)
<1>1. CASE c.order.status = "ACCEPTED"
  BY <1>1, MoveToLogPhase DEF AfterTransition, OrderStatus
<1>2. CASE c.order.status = "OPEN"
  BY <1>2, MatchedLogPhase DEF AfterTransition
<1>3. CASE c.order.status = "CANCEL_REQUESTED"
  BY <1>3, MoveToLogPhase DEF AfterTransition, OrderStatus
<1>4. CASE c.order.status \notin {"ACCEPTED", "OPEN", "CANCEL_REQUESTED"}
  BY <1>4, IdleLogPhase DEF AfterTransition
<1> QED
  BY <1>1, <1>2, <1>3, <1>4

\* A client's call starts where the log of its order ends.
LEMMA ClientsKeepLog ==
  ASSUME TypeInv, LogInv, Now("idle"), Client
  PROVE  LogPhase(call', stored, ends)
<1>0. \A o \in Ids : Settled(stored, ends, o)
  BY DEF LogInv, LogPhase, HalfWritten, Now
<1>1. ASSUME NEW o \in Ids, LoadOrder(o) # NoOrder
      PROVE  LoadOrder(o).status = ends[o]
  <2>1. LoadOrder(o) \in SimulatedOrder
    BY <1>1, TypeInvParts, LoadOrderType DEF Optional
  <2>2. live[o] = LoadOrder(o).status /\ live[o] \in OrderStatus
    BY <1>1, <2>1 DEF live, LiveStatus, SimulatedOrder
  <2>3. stored[o] # "ABSENT"
    BY <2>2 DEF LogInv, OrderStatus
  <2> QED
    BY <1>0, <2>2, <2>3 DEF Settled, LogInv
<1>2. ASSUME NEW o \in Ids, SubmitOrderIntent(o)
      PROVE  LogPhase(call', stored, ends)
  <2>1. call'.pc = "risk"
    BY <1>2 DEF SubmitOrderIntent, StartSubmit, IdleCall
  <2> QED
    BY <1>0, <2>1 DEF LogPhase
<1>3. ASSUME NEW o \in Ids, CancelOrder(o)
      PROVE  LogPhase(call', stored, ends)
  <2>1. call'.pc = "row" /\ call'.id = o /\ call'.from = LoadOrder(o).status
    BY <1>3 DEF CancelOrder, IdleCall
  <2> QED
    BY <1>0, <1>1, <1>3, <2>1 DEF LogPhase, CancelOrder
<1>4. ASSUME NEW o \in Ids, NEW n \in Ids, ReplaceOrder(o, n)
      PROVE  LogPhase(call', stored, ends)
  <2>1. call'.pc = "orig_row" /\ call'.orig = o /\ call'.from = LoadOrder(o).status
    BY <1>4 DEF ReplaceOrder, IdleCall
  <2> QED
    BY <1>0, <1>1, <1>4, <2>1 DEF LogPhase, ReplaceOrder
<1> QED
  BY <1>2, <1>3, <1>4 DEF Client

\* Every step of a call leaves log and row where its next write expects them.
LEMMA StepsKeepLog ==
  ASSUME TypeInv, StatusInv, LogInv, Step
  PROVE  LogInv'
<1>0. /\ CallOK(call) /\ call \in CallType
      /\ OrderPhase(call, stored, live) /\ OriginalPhase(call, stored, live)
      /\ stored \in StatusMap /\ live \in StatusMap
      /\ LogPhase(call, stored, ends) /\ stored = live
      /\ \A o \in Ids : IsPath(log[o])
  BY StatusMapType DEF TypeInv, TypeOK, StatusInv, Phases, LogInv
<1>1. CASE InsertRiskDecision
  <2>1. stored' = stored /\ live' = live /\ log' = log /\ ends' = ends
    BY <1>1, SameMaps DEF InsertRiskDecision, WriteDecision, ends, EndOf
  <2>2. PICK s \in {"ACCEPTED", "REJECTED"} : call' = MoveTo(call, s)
    BY <1>1 DEF InsertRiskDecision
  <2>3. call.pc = "risk" /\ call.id \in Ids
    BY <1>0, <1>1 DEF InsertRiskDecision, WriteDecision, Now, CallOK
  <2>4. \A o \in Ids : Settled(stored, ends, o)
    BY <1>0, <2>3 DEF LogPhase, HalfWritten
  <2>5. call.order.status = ends[call.id]
    BY <1>0, <2>3, <2>4 DEF OrderPhase, Pending, Settled
  <2>6. LogPhase(MoveTo(call, s), stored, ends)
    BY <1>0, <2>3, <2>4, <2>5, MoveToLogPhase DEF OrderStatus
  <2> QED
    BY <1>0, <2>1, <2>2, <2>6 DEF LogInv
<1>2. CASE PersistOrder
  <2>1. /\ call.pc \in {"row", "fill_row"}
        /\ call.id \in Ids /\ call.order \in SimulatedOrder
        /\ Persist(call.id, call.order)
    BY <1>0, <1>2 DEF PersistOrder, WriteOrder, Now, CallOK
  <2>2. /\ stored' = [stored EXCEPT ![call.id] = call.order.status]
        /\ live' = [live EXCEPT ![call.id] = call.order.status]
        /\ log' = log /\ ends' = ends
    BY <2>1, PersistMaps DEF Persist, ends, EndOf
  <2>3. \A o \in Ids \ {call.id} : Settled(stored', ends, o)
    BY <1>0, <2>1, <2>2 DEF LogPhase, HalfWritten, Settled, StatusMap
  <2>4. CASE call.pc = "row"
    <3>1. call' = [call EXCEPT !.pc = "log"]
      BY <1>2, <2>4 DEF PersistOrder, Now
    <3>2. /\ call'.pc = "log" /\ call'.id = call.id
          /\ call'.order = call.order /\ call'.from = call.from
      BY <1>0, <3>1 DEF CallType
    <3>3. call.order.status # "PENDING" /\ call.from = ends[call.id]
      BY <1>0, <2>4 DEF OrderPhase, NextRow, LogPhase
    <3>4. LogPhase(call', stored', ends')
      BY <2>2, <2>3, <3>2, <3>3 DEF LogPhase, HalfWritten
    <3> QED
      BY <1>0, <2>2, <3>4 DEF LogInv
  <2>5. CASE call.pc = "fill_row"
    <3>1. /\ ends[call.id] = call.order.status
          /\ call.order.status \in {"OPEN", "PARTIALLY_FILLED", "FILLED"}
      BY <1>0, <2>5 DEF OrderPhase, LogPhase
    <3>2. \A o \in Ids : Settled(stored', ends, o)
      BY <1>0, <2>1, <2>2, <2>3, <3>1 DEF Settled, StatusMap
    <3>3. OriginalPhase(call, stored', live')
      <4>1. call.orig # NoId => call.orig # call.id
        BY <1>0, <2>5 DEF OriginalPhase
      <4> QED
        BY <1>0, <2>1, <2>2, <2>5, <4>1
        DEF OriginalPhase, Synced, StatusMap
    <3>4. CASE call' = Submitted(call)
      BY <1>0, <2>2, <2>5, <3>2, <3>3, <3>4, SubmittedLogPhase DEF LogInv
    <3>5. CASE call' = [call EXCEPT !.pc = "cash", !.k = 1]
      <4>1. call'.pc = "cash"
        BY <1>0, <3>5 DEF CallType
      <4>2. LogPhase(call', stored', ends')
        BY <2>2, <3>2, <4>1 DEF LogPhase
      <4> QED
        BY <1>0, <2>2, <4>2 DEF LogInv
    <3> QED
      BY <1>2, <2>5, <3>4, <3>5 DEF PersistOrder, Now
  <2> QED
    BY <2>1, <2>4, <2>5
<1>3. CASE InsertTransition
  <2>1. /\ call.pc \in {"log", "fill_log"} /\ call.id \in Ids
        /\ call.order.status \in OrderStatus
        /\ AppendTransition(call.id, call.from, call.order.status)
    BY <1>0, <1>3 DEF InsertTransition, WriteTransition, Now, CallOK, SimulatedOrder
  <2>2. call.from = ends[call.id]
    BY <1>0, <2>1 DEF LogPhase
  <2>3. /\ ends' = [ends EXCEPT ![call.id] = call.order.status]
        /\ \A p \in Ids : IsPath(log'[p])
        /\ stored' = stored /\ live' = live
    BY <1>0, <2>1, <2>2, AppendMaps
  <2>4. /\ ends'[call.id] = call.order.status
        /\ \A o \in Ids \ {call.id} : Settled(stored, ends', o)
    BY <1>0, <2>1, <2>3 DEF LogPhase, HalfWritten, Settled, ends
  <2>5. CASE call.pc = "log"
    <3>1. call' = AfterTransition(call)
      BY <1>3, <2>5 DEF InsertTransition, Now
    <3>2. Settled(stored, ends', call.id)
      BY <1>0, <2>1, <2>4, <2>5 DEF OrderPhase, Synced, LogPhase, Settled, OrderStatus
    <3>3. \A o \in Ids : Settled(stored, ends', o)
      BY <2>4, <3>2
    <3>4. LogPhase(call', stored, ends')
      BY <1>0, <2>4, <2>5, <3>1, <3>3, AfterTransitionLogPhase
    <3> QED
      BY <1>0, <2>3, <3>4 DEF LogInv
  <2>6. CASE call.pc = "fill_log"
    <3>1. call' = [call EXCEPT !.pc = "fill_row"]
      BY <1>3, <2>6 DEF InsertTransition, Now
    <3>2. /\ call'.pc = "fill_row" /\ call'.id = call.id /\ call'.order = call.order
      BY <1>0, <3>1 DEF CallType
    <3>3. LogPhase(call', stored, ends')
      BY <2>4, <3>2 DEF LogPhase, HalfWritten
    <3> QED
      BY <1>0, <2>3, <3>3 DEF LogInv
  <2> QED
    BY <2>1, <2>5, <2>6
<1>4. CASE PersistOriginal
  <2>1. /\ call.pc = "orig_row" /\ call.orig # NoId
        /\ call.orig \in Ids /\ call.original \in SimulatedOrder
        /\ Persist(call.orig, call.original)
    BY <1>0, <1>4 DEF PersistOriginal, WriteOriginal, Now, CallOK
  <2>2. /\ stored' = [stored EXCEPT ![call.orig] = call.original.status]
        /\ live' = [live EXCEPT ![call.orig] = call.original.status]
        /\ log' = log /\ ends' = ends
    BY <2>1, PersistMaps DEF Persist, ends, EndOf
  <2>3. /\ call'.pc = "orig_log" /\ call'.orig = call.orig /\ call'.from = call.from
    BY <1>0, <1>4 DEF PersistOriginal, CallType
  <2>4. \A o \in Ids \ {call.orig} : Settled(stored', ends, o)
    BY <1>0, <2>1, <2>2 DEF LogPhase, HalfWritten, Settled, StatusMap
  <2>5. LogPhase(call', stored', ends')
    BY <1>0, <2>1, <2>2, <2>3, <2>4 DEF LogPhase, HalfWritten
  <2> QED
    BY <1>0, <2>2, <2>5 DEF LogInv
<1>5. CASE InsertOriginalTransition
  <2>1. /\ call.pc = "orig_log" /\ call.orig # NoId /\ call.orig \in Ids
        /\ call.original.status \in OrderStatus
        /\ AppendTransition(call.orig, call.from, call.original.status)
    BY <1>0, <1>5
    DEF InsertOriginalTransition, WriteOriginalTransition, Now, CallOK, SimulatedOrder
  <2>2. call.from = ends[call.orig]
    BY <1>0, <2>1 DEF LogPhase
  <2>3. /\ ends' = [ends EXCEPT ![call.orig] = call.original.status]
        /\ \A p \in Ids : IsPath(log'[p])
        /\ stored' = stored /\ live' = live
    BY <1>0, <2>1, <2>2, AppendMaps
  <2>4. /\ stored[call.orig] = call.original.status
        /\ call.original.status \in {"REPLACE_REQUESTED", "REPLACED"}
    BY <1>0, <2>1 DEF OriginalPhase, Synced
  <2>5. \A o \in Ids : Settled(stored, ends', o)
    BY <1>0, <2>1, <2>3, <2>4 DEF LogPhase, HalfWritten, Settled, ends
  <2>6. call' = IdleCall \/ call' = [call EXCEPT !.pc = "risk"]
    BY <1>5 DEF InsertOriginalTransition
  <2>7. call'.pc \in {"idle", "risk"}
    BY <1>0, <2>6 DEF IdleCall, CallType
  <2>8. LogPhase(call', stored, ends')
    BY <2>5, <2>7 DEF LogPhase
  <2> QED
    BY <1>0, <2>3, <2>8 DEF LogInv
<1>6. CASE InsertCashEntry \/ InsertFeeEntry \/ InsertPositionEntry
           \/ InsertFill \/ InsertValuation
  <2>1. stored' = stored /\ live' = live /\ log' = log /\ ends' = ends
    BY <1>6, SameMaps
    DEF InsertCashEntry, InsertFeeEntry, InsertPositionEntry, InsertFill,
        WriteCash, WriteFee, InsertCash, WritePosition, WriteFill,
        InsertValuation, WriteValuation, ends, EndOf
  <2>2. call.pc \in FillStage \cup {"valuation"}
    BY <1>6
    DEF InsertCashEntry, InsertFeeEntry, InsertPositionEntry, InsertFill,
        WriteCash, WriteFee, WritePosition, WriteFill, Now, FillStage,
        InsertValuation, WriteValuation
  <2>3. \A o \in Ids : Settled(stored, ends, o)
    BY <1>0, <2>2 DEF LogPhase, HalfWritten, FillStage
  <2>4. CASE ~InsertValuation
    <3>1. call'.pc \in FillStage \cup {"valuation"}
      BY <1>0, <1>6, <2>4
      DEF InsertCashEntry, InsertFeeEntry, InsertPositionEntry, InsertFill,
          AfterFill, CallType, FillStage
    <3>2. LogPhase(call', stored, ends)
      BY <2>3, <3>1 DEF LogPhase, FillStage
    <3> QED
      BY <1>0, <2>1, <3>2 DEF LogInv
  <2>5. CASE InsertValuation
    <3>1. call' = Submitted(call)
      BY <2>5 DEF InsertValuation
    <3>2. LogPhase(call', stored, ends)
      BY <1>0, <2>2, <2>3, <3>1, SubmittedLogPhase DEF FillStage
    <3> QED
      BY <1>0, <2>1, <3>2 DEF LogInv
  <2> QED
    BY <2>4, <2>5
<1> QED
  BY <1>1, <1>2, <1>3, <1>4, <1>5, <1>6 DEF Step

\* At the start every log is empty and no row is there.
LEMMA InitLogInv == Init => LogInv
<1> SUFFICES ASSUME Init PROVE LogInv
  OBVIOUS
<1>1. \A o \in Ids : stored[o] = "ABSENT" /\ live[o] = "ABSENT" /\ ends[o] = "PENDING"
  BY DEF Init, stored, live, StoredStatus, LiveStatus, LoadOrder, ends, EndOf
<1>2. stored = live
  BY <1>1 DEF stored, live
<1>3. LogPhase(call, stored, ends)
  BY <1>1, IdleLogPhase DEF Init, Settled
<1>4. \A o \in Ids : IsPath(log[o])
  BY DEF Init, IsPath
<1> QED
  BY <1>2, <1>3, <1>4 DEF LogInv

\* Every step of an exchange whose store does not fail.
LEMMA NextLogInv ==
  ASSUME Faults = {}
  PROVE  TypeInv /\ StatusInv /\ LogInv /\ [Next]_vars => LogInv'
<1> SUFFICES ASSUME TypeInv, StatusInv, LogInv, [Next]_vars PROVE LogInv'
  OBVIOUS
<1>1. CASE Client
  <2>1. UNCHANGED <<mem, store>> /\ Now("idle")
    BY <1>1, ClientsKeepCall
    DEF Client, SubmitOrderIntent, StartSubmit, CancelOrder, ReplaceOrder
  <2>2. stored' = stored /\ live' = live /\ log' = log /\ ends' = ends
    BY <2>1, SameMaps DEF store, ends, EndOf
  <2>3. LogPhase(call', stored, ends)
    BY <1>1, <2>1, ClientsKeepLog
  <2> QED
    BY <2>2, <2>3 DEF LogInv
<1>2. CASE Step
  BY <1>2, StepsKeepLog
<1>3. CASE UNCHANGED vars
  <2>1. stored' = stored /\ live' = live /\ log' = log /\ ends' = ends /\ call' = call
    BY <1>3, SameMaps DEF vars, store, ends, EndOf
  <2> QED
    BY <2>1 DEF LogInv
<1>4. ~StoreError /\ ~Crash
  BY DEF StoreError, Crash
<1> QED
  BY <1>1, <1>2, <1>3, <1>4 DEF Next

\* With a store that does not fail the order_transitions of every order are a
\* path from PENDING, and between calls it ends at the status of the row.
THEOREM LogIsThePath ==
  ASSUME Faults = {}
  PROVE  Spec => []LogIsThePathOfTheRow
<1>1. TypeInv /\ LogInv => LogIsThePathOfTheRow
  <2> SUFFICES ASSUME TypeInv, LogInv, NEW o \in Ids
               PROVE  /\ IsPath(log[o])
                      /\ Now("idle") /\ rows[o] # NoOrder =>
                           /\ log[o] # << >>
                           /\ log[o][Len(log[o])][2] = rows[o].status
    BY DEF LogIsThePathOfTheRow, IsPath
  <2>1. IsPath(log[o])
    BY DEF LogInv
  <2>2. CASE Now("idle") /\ rows[o] # NoOrder
    <3>1. Settled(stored, ends, o)
      BY <2>2 DEF LogInv, LogPhase, HalfWritten, Now
    <3>2. stored[o] = rows[o].status /\ stored[o] \in OrderStatus
      BY <2>2 DEF TypeInv, TypeOK, stored, StoredStatus, Optional, SimulatedOrder
    <3>3. EndOf(o) = rows[o].status /\ EndOf(o) # "PENDING"
      BY <3>1, <3>2 DEF Settled, OrderStatus, ends
    <3> QED
      BY <2>1, <3>3 DEF EndOf
  <2> QED
    BY <2>1, <2>2
<1>2. TypeInv /\ StatusInv /\ LogInv /\ [Next]_vars => LogInv'
  BY NextLogInv
<1> QED
  BY <1>1, <1>2, InitTypeInv, NextTypeInv, InitStatusInv, NextStatusInv, InitLogInv, PTL
  DEF Spec

-----------------------------------------------------------------------------
(***************************************************************************)
(* The amounts of the ledger and of the order rows.  F is what the stored  *)
(* fills of each order add up to, M what its position entries moved.       *)
(*                                                                         *)
(* LedgerNeverExceedsRow is not inductive: a later write of the row must   *)
(* not give back what was filled, so the same must hold of the service's   *)
(* own copy and of the order in the call, whose remainder the next write   *)
(* will store; and while a call writes its ledger the sums are exactly     *)
(* those of the fills written so far.                                      *)
(***************************************************************************)
filled == [o \in Ids |-> FilledOf(o)]
moved == [o \in Ids |-> MovedBy(o)]

Taken(order) == order.size - order.remaining_size

\* f filled and m moved of an order of which n are said to be taken.  Nothing
\* is short when the store does not fail.
Tally(n, f, m) == f <= m /\ m <= n /\ (Faults = {} => f = n)

TallyOf(order, F, M, o) == order # NoOrder => Tally(Taken(order), F[o], M[o])

SameSize(row, order) == row # NoOrder => row.size = order.size

\* What the first n fills of the call add up to, and how many of them the
\* positions hold while the call writes its ledger.
Upto(c, n) == SumFunctionOnSet(Sizes(c.result.fills), 1 .. n)
Positioned(c) == IF c.pc = "fill" THEN c.k ELSE c.k - 1

\* The order of the call has not been matched yet, or has just been.
Unmatched(c) == Unfilled(c) /\ c.pc \notin {"fill_log", "fill_row"}
Marked(c) == c.pc \in {"fill_log", "fill_row"} \cup FillStage

CallAmounts(c, F, M) ==
  /\ Unmatched(c) => /\ c.order.remaining_size = c.order.size
                     /\ c.result # NoResult => Accounted(c.order, c.result)
  /\ Marked(c) => Taken(c.order) = Filled(c.result.fills)
  /\ c.pc # "idle" /\ ~Marked(c) => Tally(Taken(c.order), F[c.id], M[c.id])
  /\ c.pc # "idle" /\ c.orig # NoId =>
       Tally(Taken(c.original), F[c.orig], M[c.orig])
  /\ c.pc \in FillStage => /\ F[c.id] = Upto(c, c.k - 1)
                           /\ M[c.id] = Upto(c, Positioned(c))

\* The row and the copy of the order whose ledger the call is writing.
CallTables(c, A, B) ==
  /\ c.pc # "idle" => SameSize(B[c.id], c.order)
  /\ c.pc # "idle" /\ c.orig # NoId => SameSize(B[c.orig], c.original)
  /\ c.pc \in FillStage => /\ A[c.id] = c.order
                           /\ B[c.id] # NoOrder
                           /\ Taken(B[c.id]) = Taken(c.order)

TablesTally(c, A, B, F, M) ==
  \A o \in Ids :
    /\ A[o] # NoOrder => SameSize(B[o], A[o])
    /\ ~(c.pc \in FillStage /\ c.id = o) =>
         TallyOf(A[o], F, M, o) /\ TallyOf(B[o], F, M, o)

\* The position that is written next is not there yet.
NewPosition ==
  call.pc \in {"cash", "fee", "position"} => \A p \in positions : p.fill # FillId

AmountInv ==
  /\ IsFiniteSet(positions) /\ IsFiniteSet(fills)
  /\ CallAmounts(call, filled, moved)
  /\ CallTables(call, mem, rows)
  /\ TablesTally(call, mem, rows, filled, moved)
  /\ NewPosition

\* The entries of one order, with their values.
SumOf(v, T, o) == SumFunctionOnSet(v, {e \in T : e.id = o})

\* A new entry counts for its own order and for no other.
LEMMA EntriesGrow ==
  ASSUME NEW T, IsFiniteSet(T), NEW row, row \notin T, NEW v,
         NEW U, U = T \cup {row}, \A e \in U : v[e] \in Int, NEW o
  PROVE  SumOf(v, U, o)
           = IF row.id = o THEN SumOf(v, T, o) + v[row] ELSE SumOf(v, T, o)
<1> DEFINE Of == {e \in T : e.id = o}
<1>1. IsFiniteSet(Of) /\ row \notin Of /\ v[row] \in Int /\ \A e \in Of : v[e] \in Int
  BY FS_Subset
<1>2. CASE row.id = o
  <2>1. {e \in U : e.id = o} = Of \cup {row}
    BY <1>2
  <2> HIDE DEF Of
  <2>2. SumFunctionOnSet(v, Of \cup {row}) = v[row] + SumFunctionOnSet(v, Of)
    BY <1>1, SumAdd
  <2>3. SumFunctionOnSet(v, Of) \in Int
    BY <1>1, SumType
  <2>4. SumFunctionOnSet(v, Of) = SumOf(v, T, o)
    BY DEF SumOf, Of
  <2>5. SumFunctionOnSet(v, Of \cup {row}) = SumOf(v, U, o)
    BY <2>1 DEF SumOf
  <2> DEFINE a == SumFunctionOnSet(v, Of)
             b == v[row]
  <2>6. a \in Int /\ b \in Int
    BY <1>1, <2>3
  <2> HIDE DEF a, b
  <2>7. SumOf(v, T, o) + v[row] = a + b
    BY <2>4 DEF a, b
  <2>8. SumOf(v, U, o) = b + a
    BY <2>2, <2>5 DEF a, b
  <2> QED
    BY <1>2, <2>6, <2>7, <2>8
<1>3. CASE row.id # o
  <2>1. {e \in U : e.id = o} = Of
    BY <1>3
  <2> QED
    BY <1>3, <2>1 DEF SumOf
<1> QED
  BY <1>2, <1>3


\* Both are natural numbers, and zero for an order without entries.
LEMMA AmountType ==
  ASSUME TypeInv, IsFiniteSet(positions), IsFiniteSet(fills), NEW o \in Ids
  PROVE  /\ filled[o] \in Nat /\ moved[o] \in Nat
         /\ filled[o] = FilledOf(o) /\ moved[o] = MovedBy(o)
         /\ (\A e \in Recorded : e.id # o) => filled[o] = 0 /\ moved[o] = 0
<1> DEFINE A == {g \in fills : g.id = o}
           B == {q \in positions : q.id = o}
           f == [e \in A |-> e.size]
           g == [p \in B |-> IF p.delta < 0 THEN -p.delta ELSE p.delta]
<1>1. /\ fills \subseteq [fill : FillIds, id : Ids, side : OrderSide, price : Nat,
                          size : Nat \ {0}, fee : Nat]
      /\ positions \subseteq [fill : FillIds, id : Ids, price : Nat, delta : Int]
  BY DEF TypeInv, TypeOK
<1>2. IsFiniteSet(A) /\ IsFiniteSet(B)
  BY FS_Subset
<1>3. (\A e \in A : f[e] \in Nat) /\ (\A e \in B : g[e] \in Nat)
  BY <1>1
<1>4. DOMAIN f = A /\ DOMAIN g = B
  OBVIOUS
<1>5. filled[o] = SumFunctionOnSet(f, A) /\ moved[o] = SumFunctionOnSet(g, B)
  BY <1>4 DEF filled, moved, FilledOf, MovedBy, SumFunction
<1>6. filled[o] = FilledOf(o) /\ moved[o] = MovedBy(o)
  BY DEF filled, moved
<1>7. (\A e \in Recorded : e.id # o) => A = {} /\ B = {}
  BY DEF Recorded
<1> HIDE DEF A, B, f, g
<1>8. SumFunctionOnSet(f, A) \in Nat /\ SumFunctionOnSet(g, B) \in Nat
  BY <1>2, <1>3, SumPositive
<1> QED
  BY <1>5, <1>6, <1>7, <1>8, SumEmpty

\* The same sums over the values of the whole table.
LEMMA AmountIsSum ==
  ASSUME NEW T, IsFiniteSet(T), NEW v, NEW o, NEW w,
         \A e \in T : v[e] \in Int,
         w = [e \in {d \in T : d.id = o} |-> v[e]]
  PROVE  SumFunction(w) = SumOf(v, T, o)
<1> DEFINE Of == {d \in T : d.id = o}
<1>1. IsFiniteSet(Of) /\ DOMAIN w = Of /\ \A e \in Of : v[e] \in Int /\ v[e] = w[e]
  BY FS_Subset
<1>2. SumFunction(w) = SumFunctionOnSet(w, Of)
  BY <1>1 DEF SumFunction
<1> HIDE DEF Of
<1>3. SumFunctionOnSet(v, Of) = SumFunctionOnSet(w, Of)
  BY <1>1, SumEqual
<1> QED
  BY <1>2, <1>3 DEF SumOf, Of

\* One more stored fill.
LEMMA FilledGrows ==
  ASSUME TypeInv, IsFiniteSet(fills), NEW row, row \notin fills, row.size \in Nat,
         fills' = fills \cup {row}, NEW o \in Ids
  PROVE  /\ IsFiniteSet(fills')
         /\ FilledOf(o)' = IF row.id = o THEN FilledOf(o) + row.size ELSE FilledOf(o)
<1> DEFINE v == [e \in fills \cup {row} |-> e.size]
<1>1. IsFiniteSet(fills \cup {row})
  BY FS_AddElement
<1>2. \A e \in fills \cup {row} : v[e] \in Int
  BY DEF TypeInv, TypeOK
<1>3. /\ [f \in {g \in fills : g.id = o} |-> f.size]
           = [e \in {d \in fills : d.id = o} |-> v[e]]
      /\ [f \in {g \in fills \cup {row} : g.id = o} |-> f.size]
           = [e \in {d \in fills \cup {row} : d.id = o} |-> v[e]]
      /\ v[row] = row.size
  OBVIOUS
<1> HIDE DEF v
<1>4. FilledOf(o) = SumOf(v, fills, o)
  BY <1>2, <1>3, AmountIsSum DEF FilledOf
<1>5. FilledOf(o)' = SumOf(v, fills', o)
  BY <1>1, <1>2, <1>3, AmountIsSum DEF FilledOf
<1>6. SumOf(v, fills', o)
        = IF row.id = o THEN SumOf(v, fills, o) + v[row] ELSE SumOf(v, fills, o)
  BY <1>2, EntriesGrow
<1> QED
  BY <1>1, <1>3, <1>4, <1>5, <1>6

\* One more position entry.
LEMMA MovedGrows ==
  ASSUME TypeInv, IsFiniteSet(positions), NEW row, row \notin positions,
         row.delta \in Int, positions' = positions \cup {row}, NEW o \in Ids
  PROVE  /\ IsFiniteSet(positions')
         /\ MovedBy(o)' = IF row.id = o
                          THEN MovedBy(o) + (IF row.delta < 0 THEN -row.delta
                                                              ELSE row.delta)
                          ELSE MovedBy(o)
<1> DEFINE v == [p \in positions \cup {row} |->
                   IF p.delta < 0 THEN -p.delta ELSE p.delta]
<1>1. IsFiniteSet(positions \cup {row})
  BY FS_AddElement
<1>2. \A e \in positions \cup {row} : v[e] \in Int
  BY DEF TypeInv, TypeOK
<1>3. /\ [p \in {q \in positions : q.id = o} |->
            IF p.delta < 0 THEN -p.delta ELSE p.delta]
           = [e \in {d \in positions : d.id = o} |-> v[e]]
      /\ [p \in {q \in positions \cup {row} : q.id = o} |->
            IF p.delta < 0 THEN -p.delta ELSE p.delta]
           = [e \in {d \in positions \cup {row} : d.id = o} |-> v[e]]
      /\ v[row] = IF row.delta < 0 THEN -row.delta ELSE row.delta
  OBVIOUS
<1> HIDE DEF v
<1>4. MovedBy(o) = SumOf(v, positions, o)
  BY <1>2, <1>3, AmountIsSum DEF MovedBy
<1>5. MovedBy(o)' = SumOf(v, positions', o)
  BY <1>1, <1>2, <1>3, AmountIsSum DEF MovedBy
<1>6. SumOf(v, positions', o)
        = IF row.id = o THEN SumOf(v, positions, o) + v[row]
                        ELSE SumOf(v, positions, o)
  BY <1>2, EntriesGrow
<1> QED
  BY <1>1, <1>3, <1>4, <1>5, <1>6

-----------------------------------------------------------------------------
(***************************************************************************)
(* The amounts through the computations between two writes.                *)
(***************************************************************************)
\* No fills, no quantity.
LEMMA EmptyFilled == Filled(<< >>) = 0
<1> DEFINE s == Sizes(<< >>)
<1>1. DOMAIN s = {}
  BY DEF Sizes
<1> QED
  BY <1>1, SumEmpty DEF Filled, SumFunction

\* Accounting looks at nothing of the order but its remainder.
LEMMA AccountedFor ==
  ASSUME NEW o, NEW p, NEW r, o.remaining_size = p.remaining_size, Accounted(o, r)
  PROVE  Accounted(p, r)
  BY DEF Accounted

\* The fills of a result one by one.
LEMMA UptoFills ==
  ASSUME NEW c, c.result \in FillResult
  PROVE  /\ Upto(c, 0) = 0
         /\ Filled(c.result.fills) \in Nat
         /\ \A k \in DOMAIN c.result.fills :
              /\ k \in Nat \ {0} /\ Upto(c, k - 1) \in Nat /\ Upto(c, k) \in Nat
              /\ Upto(c, k) = Upto(c, k - 1) + c.result.fills[k].size
              /\ Upto(c, k) <= Filled(c.result.fills)
              /\ ~(k < Len(c.result.fills)) => Upto(c, k) = Filled(c.result.fills)
<1> DEFINE l == c.result.fills
           m == Len(l)
           s == Sizes(l)
<1>1. l \in Seq(FillTerms) /\ m \in Nat /\ DOMAIN l = 1 .. m
  BY DEF FillResult
<1>2. \A k \in 1 .. m : l[k].size \in Nat /\ s[k] = l[k].size
  <2> SUFFICES ASSUME NEW k \in 1 .. m
               PROVE  l[k].size \in Nat /\ s[k] = l[k].size
    OBVIOUS
  <2>1. l[k] \in FillTerms
    BY <1>1
  <2>2. s[k] = l[k].size
    BY <1>1 DEF Sizes
  <2> QED
    BY <2>1, <2>2 DEF FillTerms
<1>3. DOMAIN s = 1 .. m
  BY <1>1 DEF Sizes
<1>4. Filled(l) = SumFunctionOnSet(s, 1 .. m)
  BY <1>3 DEF Filled, SumFunction
<1>5. \A n : Upto(c, n) = SumFunctionOnSet(s, 1 .. n)
  BY DEF Upto
<1>6. \A k \in 1 .. m : s[k] \in Nat
  BY <1>2
<1> HIDE DEF l, m, s
<1>7. \A n \in 0 .. m : IsFiniteSet(1 .. n) /\ 1 .. n \in SUBSET (1 .. m)
  BY <1>1, UptoIsFinite
<1>8. ASSUME NEW n \in 0 .. m
      PROVE  /\ SumFunctionOnSet(s, 1 .. n) \in Nat
             /\ SumFunctionOnSet(s, 1 .. n) <= SumFunctionOnSet(s, 1 .. m)
  <2>1. IsFiniteSet(1 .. n) /\ 1 .. n \in SUBSET (1 .. m) /\ IsFiniteSet(1 .. m)
    BY <1>1, <1>7
  <2>2. \A x \in 1 .. n : s[x] \in Nat
    BY <1>6, <2>1
  <2>3. SumFunctionOnSet(s, 1 .. n) \in Nat
    BY <2>1, <2>2, SumPositive
  <2>4. SumFunctionOnSet(s, 1 .. n) <= SumFunctionOnSet(s, 1 .. m)
    BY <1>6, <2>1, SumPart
  <2> QED
    BY <2>3, <2>4
<1>9. ASSUME NEW k \in 1 .. m
      PROVE  /\ k \in Nat \ {0} /\ k - 1 \in 0 .. m /\ k \in 0 .. m
             /\ SumFunctionOnSet(s, 1 .. k)
                  = SumFunctionOnSet(s, 1 .. k - 1) + s[k]
  <2>1. k - 1 \in Nat /\ (k - 1) + 1 = k /\ k - 1 \in 0 .. m /\ k \in 0 .. m
    BY <1>1
  <2>2. \A x \in 1 .. k : s[x] \in Int
    BY <1>1, <1>6
  <2> DEFINE n == k - 1
  <2>3. n \in Nat /\ n + 1 = k
    BY <2>1
  <2> HIDE DEF n
  <2>4. SumFunctionOnSet(s, 1 .. n + 1) = SumFunctionOnSet(s, 1 .. n) + s[n + 1]
    BY <2>2, <2>3, SumUpto
  <2> QED
    BY <2>1, <2>3, <2>4 DEF n
<1>10. Upto(c, 0) = 0
  <2>1. 1 .. 0 = {}
    OBVIOUS
  <2> QED
    BY <1>5, <2>1, SumEmpty
<1>11. m \in 0 .. m
  BY <1>1
<1>12. ASSUME NEW k \in 1 .. m
       PROVE  /\ k \in Nat \ {0} /\ Upto(c, k - 1) \in Nat /\ Upto(c, k) \in Nat
              /\ Upto(c, k) = Upto(c, k - 1) + l[k].size
              /\ Upto(c, k) <= Filled(l)
              /\ ~(k < m) => Upto(c, k) = Filled(l)
  <2>1. ~(k < m) => k = m
    BY <1>1
  <2>2. s[k] = l[k].size
    BY <1>2
  <2> QED
    BY <1>4, <1>5, <1>8, <1>9, <2>1, <2>2
<1> QED
  BY <1>1, <1>4, <1>8, <1>10, <1>11, <1>12 DEF l, m

\* A transition moves no quantity.
LEMMA TransitionTaken ==
  ASSUME NEW o \in SimulatedOrder, NEW s \in OrderStatus
  PROVE  /\ Taken(Transition(o, s)) = Taken(o)
         /\ Transition(o, s).size = o.size
         /\ Transition(o, s).remaining_size = o.remaining_size
  BY DEF Transition, Taken, SimulatedOrder

\* The two fill moves take what is no longer remaining.
LEMMA MarkTaken ==
  ASSUME NEW o \in SimulatedOrder, NEW r \in Nat
  PROVE  /\ Taken(MarkFilled(o)) = o.size
         /\ MarkFilled(o).size = o.size
         /\ Taken(MarkPartiallyFilled(o, r)) = o.size - r
         /\ MarkPartiallyFilled(o, r).size = o.size
  BY DEF MarkFilled, MarkPartiallyFilled, Transition, Taken, SimulatedOrder

Amounts(c, A, B, F, M) == CallAmounts(c, F, M) /\ CallTables(c, A, B)

\* The idle call owes nothing.
LEMMA IdleAmounts ==
  ASSUME NEW A, NEW B, NEW F, NEW M
  PROVE  Amounts(IdleCall, A, B, F, M)
  BY DEF Amounts, CallAmounts, CallTables, Unmatched, Unfilled, Marked, FillStage,
         IdleCall

\* The end of a submission.
LEMMA SubmittedAmounts ==
  ASSUME NEW c, CallOK(c), c.pc # "idle", NEW A, NEW B, NEW F, NEW M,
         Amounts(c, A, B, F, M), Tally(Taken(c.order), F[c.id], M[c.id])
  PROVE  Amounts(Submitted(c), A, B, F, M)
<1>1. CASE c.orig = NoId
  BY <1>1, IdleAmounts DEF Submitted
<1>2. CASE c.orig # NoId
  <2> DEFINE d == Submitted(c)
  <2>1. c.original \in SimulatedOrder /\ c \in CallType /\ "REPLACED" \in OrderStatus
    BY <1>2 DEF CallOK, OrderStatus
  <2>2. /\ d.pc = "orig_row" /\ d.original = Transition(c.original, "REPLACED")
        /\ d.orig = c.orig /\ d.id = c.id /\ d.order = c.order
    BY <1>2, <2>1 DEF Submitted, CallType
  <2>3. ~Unfilled(d)
    BY SubmittedNotUnfilled
  <2>4. /\ Taken(d.original) = Taken(c.original)
        /\ d.original.size = c.original.size
    BY <2>1, <2>2, TransitionTaken
  <2> HIDE DEF d
  <2>5. CallAmounts(d, F, M)
    BY <1>2, <2>2, <2>3, <2>4
    DEF Amounts, CallAmounts, Unmatched, Marked, FillStage
  <2>6. CallTables(d, A, B)
    BY <1>2, <2>2, <2>4 DEF Amounts, CallTables, SameSize, FillStage
  <2> QED
    BY <2>5, <2>6 DEF Amounts, d
<1> QED
  BY <1>1, <1>2

\* Moving an order on to another status.
LEMMA MoveToAmounts ==
  ASSUME NEW c, CallOK(c), c.pc # "idle", ~Marked(c), NEW s \in OrderStatus,
         NEW A, NEW B, NEW F, NEW M, Amounts(c, A, B, F, M),
         s \in {"ACCEPTED", "REJECTED", "OPEN"} => Unmatched(c)
  PROVE  Amounts(MoveTo(c, s), A, B, F, M)
<1> DEFINE d == MoveTo(c, s)
<1>1. c.order \in SimulatedOrder
  BY DEF CallOK
<1>2. /\ d.pc = "row" /\ d.order = Transition(c.order, s) /\ d.id = c.id
      /\ d.orig = c.orig /\ d.original = c.original /\ d.result = c.result
  BY MoveToOK
<1>3. /\ Taken(d.order) = Taken(c.order) /\ d.order.size = c.order.size
      /\ d.order.remaining_size = c.order.remaining_size /\ d.order.status = s
  BY <1>1, <1>2, TransitionTaken, TransitionType
<1> HIDE DEF d
<1>4. Unmatched(d) => Unmatched(c)
  BY <1>2, <1>3 DEF Unmatched, Unfilled
<1>5. ~Marked(d) /\ d.pc \notin FillStage
  BY <1>2 DEF Marked, FillStage
<1>6. Unmatched(c) /\ c.result # NoResult => Accounted(d.order, c.result)
  <2>1. c.order.remaining_size = d.order.remaining_size
    BY <1>3
  <2> QED
    BY <2>1, AccountedFor DEF Amounts, CallAmounts
<1>7. CallAmounts(d, F, M)
  BY <1>2, <1>3, <1>4, <1>5, <1>6 DEF Amounts, CallAmounts
<1>8. CallTables(d, A, B)
  BY <1>2, <1>3, <1>5 DEF Amounts, CallTables, SameSize
<1> QED
  BY <1>7, <1>8 DEF Amounts, d

\* Matching an order of which nothing has been taken.
LEMMA MatchedAmounts ==
  ASSUME NEW c, CallOK(c), c.pc = "log", c.order.status = "OPEN",
         NEW A, NEW B, NEW F, NEW M, Amounts(c, A, B, F, M)
  PROVE  Amounts(Matched(c), A, B, F, M)
<1> DEFINE d == Matched(c)
<1>0. /\ c \in CallType /\ c.order \in SimulatedOrder /\ Unmatched(c) /\ ~Marked(c)
      /\ c.order.remaining_size = c.order.size /\ c.order.size \in Nat
  BY DEF CallOK, Amounts, CallAmounts, Unmatched, Unfilled, Marked, FillStage,
         SimulatedOrder
<1>1. CASE c.result = NoResult
  <2>1. Tally(Taken(c.order), F[c.id], M[c.id])
    BY <1>0 DEF Amounts, CallAmounts
  <2> QED
    BY <1>1, <2>1, SubmittedAmounts DEF Matched
<1>2. CASE c.result # NoResult /\ c.result.status = "RAISED"
  BY <1>2, IdleAmounts DEF Matched
<1>3. CASE c.result # NoResult /\ c.result.status # "RAISED"
  <2> DEFINE r == c.result
  <2>1. r \in FillResult /\ r.remaining_size \in Nat /\ Filled(r.fills) \in Nat
    BY <1>3, UptoFills DEF CallOK, GoodResult, FillResult
  <2>2. /\ Filled(r.fills) + r.remaining_size = c.order.size
        /\ r.status = "FILLED" => r.remaining_size = 0
        /\ r.status = "OPEN" => r.fills = << >>
    BY <1>0, <1>3 DEF Amounts, CallAmounts, Accounted
  <2>3. /\ d.pc \in {"fill_log", "fill_row"} /\ d.result = r /\ d.id = c.id
        /\ d.orig = c.orig /\ d.original = c.original
        /\ d.order.size = c.order.size /\ Taken(d.order) = Filled(r.fills)
    <3>1. CASE r.status = "OPEN"
      <4>1. d = [c EXCEPT !.pc = "fill_row"]
        BY <1>3, <3>1 DEF Matched
      <4>2. Filled(r.fills) = 0
        BY <2>2, <3>1, EmptyFilled
      <4>3. Taken(c.order) = 0
        BY <1>0 DEF Taken
      <4> QED
        BY <1>0, <4>1, <4>2, <4>3 DEF CallType
    <3>2. CASE r.status = "FILLED"
      <4>1. d = [c EXCEPT !.from = c.order.status,
                   !.order = MarkFilled(c.order), !.pc = "fill_log"]
        BY <1>3, <3>2 DEF Matched
      <4>2. Taken(MarkFilled(c.order)) = c.order.size /\ MarkFilled(c.order).size = c.order.size
        BY <1>0, <2>1, MarkTaken
      <4>3. Filled(r.fills) = c.order.size
        BY <1>0, <2>1, <2>2, <3>2
      <4>4. /\ d.order = MarkFilled(c.order) /\ d.pc = "fill_log" /\ d.result = r
            /\ d.id = c.id /\ d.orig = c.orig /\ d.original = c.original
        BY <1>0, <4>1 DEF CallType
      <4> QED
        BY <4>2, <4>3, <4>4
    <3>3. CASE r.status \notin {"OPEN", "FILLED"}
      <4> DEFINE marked == MarkPartiallyFilled(c.order, r.remaining_size)
      <4>1. d = [c EXCEPT !.from = c.order.status, !.pc = "fill_log",
                   !.order = marked]
        BY <1>3, <3>3 DEF Matched
      <4>2. Taken(marked) = c.order.size - r.remaining_size /\ marked.size = c.order.size
        BY <1>0, <2>1, MarkTaken
      <4>3. Filled(r.fills) = c.order.size - r.remaining_size
        BY <1>0, <2>1, <2>2
      <4> HIDE DEF marked
      <4>4. /\ d.order = marked /\ d.pc = "fill_log" /\ d.result = r
            /\ d.id = c.id /\ d.orig = c.orig /\ d.original = c.original
        BY <1>0, <4>1 DEF CallType
      <4> QED
        BY <4>2, <4>3, <4>4
    <3> QED
      BY <3>1, <3>2, <3>3
  <2> HIDE DEF d, r
  <2>4. CallAmounts(d, F, M)
    <3>1. c.pc # "idle" /\ d.pc # "idle" /\ d.pc \notin FillStage /\ ~Unmatched(d) /\ Marked(d)
      BY <2>3 DEF Unmatched, Marked, FillStage
    <3> QED
      BY <2>3, <3>1 DEF Amounts, CallAmounts
  <2>5. CallTables(d, A, B)
    <3>1. c.pc # "idle" /\ d.pc \notin FillStage
      BY <2>3 DEF FillStage
    <3> QED
      BY <2>3, <3>1 DEF Amounts, CallTables, SameSize
  <2> QED
    BY <2>4, <2>5 DEF Amounts, d
<1> QED
  BY <1>1, <1>2, <1>3

\* What follows a recorded transition.
LEMMA AfterTransitionAmounts ==
  ASSUME NEW c, CallOK(c), c.pc = "log", NEW A, NEW B, NEW F, NEW M,
         Amounts(c, A, B, F, M)
  PROVE  Amounts(AfterTransition(c), A, B, F, M)
<1>0. ~Marked(c) /\ (c.order.status = "ACCEPTED" => Unmatched(c))
  BY DEF Marked, FillStage, Unmatched, Unfilled
<1>1. CASE c.order.status = "ACCEPTED"
  BY <1>0, <1>1, MoveToAmounts DEF AfterTransition, OrderStatus
<1>2. CASE c.order.status = "OPEN"
  BY <1>2, MatchedAmounts DEF AfterTransition
<1>3. CASE c.order.status = "CANCEL_REQUESTED"
  BY <1>0, <1>3, MoveToAmounts DEF AfterTransition, OrderStatus
<1>4. CASE c.order.status \notin {"ACCEPTED", "OPEN", "CANCEL_REQUESTED"}
  BY <1>4, IdleAmounts DEF AfterTransition
<1> QED
  BY <1>1, <1>2, <1>3, <1>4

-----------------------------------------------------------------------------
(***************************************************************************)
(* The amounts through the writes.                                         *)
(***************************************************************************)
\* Neither sum changes when its table does not.
LEMMA SameAmounts ==
  ASSUME UNCHANGED <<positions, fills>>
  PROVE  filled' = filled /\ moved' = moved
  BY DEF filled, moved, FilledOf, MovedBy

\* What the sums are while the call writes its ledger.
LEMMA LedgerAmounts ==
  ASSUME TypeInv, AmountInv, call.pc \in FillStage
  PROVE  /\ call.id \in Ids /\ call.k \in Nat \ {0} /\ CurrentFill.size \in Nat \ {0}
         /\ Upto(call, call.k - 1) \in Nat /\ Upto(call, call.k) \in Nat
         /\ Upto(call, call.k) = Upto(call, call.k - 1) + CurrentFill.size
         /\ Upto(call, call.k) <= Taken(call.order)
         /\ ~(call.k < Len(call.result.fills)) => Upto(call, call.k) = Taken(call.order)
         /\ filled[call.id] = Upto(call, call.k - 1)
         /\ moved[call.id] = IF call.pc = "fill" THEN Upto(call, call.k)
                                                 ELSE Upto(call, call.k - 1)
<1>1. /\ call.result \in FillResult /\ call.k \in DOMAIN call.result.fills
      /\ call.id \in Ids
  BY DEF TypeInv, CallOK, GoodResult, FillStage
<1>2. /\ call.k \in Nat \ {0} /\ Upto(call, call.k - 1) \in Nat
      /\ Upto(call, call.k) \in Nat
      /\ Upto(call, call.k) = Upto(call, call.k - 1) + CurrentFill.size
      /\ Upto(call, call.k) <= Filled(call.result.fills)
      /\ ~(call.k < Len(call.result.fills)) =>
           Upto(call, call.k) = Filled(call.result.fills)
  BY <1>1, UptoFills DEF CurrentFill
<1>3. /\ Taken(call.order) = Filled(call.result.fills)
      /\ filled[call.id] = Upto(call, call.k - 1)
      /\ moved[call.id] = Upto(call, Positioned(call))
  BY DEF AmountInv, CallAmounts, Marked, FillStage
<1>4. CurrentFill.size \in Nat \ {0}
  BY CurrentFillType DEF CurrentFill, TypeInv
<1> QED
  BY <1>1, <1>2, <1>3, <1>4 DEF Positioned

\* Whatever a call is doing, no record of an order is short of the ledger.
LEMMA NeverShort ==
  ASSUME TypeInv, AmountInv, NEW o \in Ids
  PROVE  /\ mem[o] # NoOrder => filled[o] <= moved[o] /\ moved[o] <= Taken(mem[o])
         /\ rows[o] # NoOrder => filled[o] <= moved[o] /\ moved[o] <= Taken(rows[o])
<1>1. CASE call.pc \in FillStage /\ call.id = o
  <2>1. mem[o] = call.order /\ Taken(rows[o]) = Taken(call.order)
    BY <1>1 DEF AmountInv, CallTables
  <2> DEFINE a == Upto(call, call.k - 1)
             b == Upto(call, call.k)
             n == Taken(call.order)
  <2>2. /\ a \in Nat /\ b \in Nat /\ CurrentFill.size \in Nat /\ n \in Int
        /\ b = a + CurrentFill.size /\ b <= n
        /\ filled[o] = a /\ moved[o] = IF call.pc = "fill" THEN b ELSE a
    <3>1. call.order \in SimulatedOrder
      BY <1>1 DEF TypeInv, CallOK, FillStage
    <3> QED
      BY <1>1, <3>1, LedgerAmounts DEF Taken, SimulatedOrder
  <2> HIDE DEF a, b, n
  <2>3. filled[o] <= moved[o] /\ moved[o] <= n
    BY <2>2
  <2> QED
    BY <2>1, <2>3 DEF n
<1>2. CASE ~(call.pc \in FillStage /\ call.id = o)
  BY <1>2 DEF AmountInv, TablesTally, TallyOf, Tally
<1> QED
  BY <1>1, <1>2

\* An order that no call has filled yet.
LEMMA NothingYet ==
  ASSUME TypeInv, LedgerInv, IsFiniteSet(positions), IsFiniteSet(fills), Unfilled(call),
         call.pc # "idle"
  PROVE  call.id \in Ids /\ filled[call.id] = 0 /\ moved[call.id] = 0
<1>1. call.id \in Ids
  BY DEF TypeInv, CallOK
<1>2. \A e \in Recorded : e.id # call.id
  BY DEF LedgerInv, Untouched
<1> QED
  BY <1>1, <1>2, AmountType

\* A persisted order is in both tables, with its remainder.
LEMMA PersistTables ==
  ASSUME TypeInv, NEW o \in Ids, NEW order \in SimulatedOrder, Persist(o, order),
         SameSize(rows[o], order)
  PROVE  /\ \A p \in Ids : p # o => mem'[p] = mem[p] /\ rows'[p] = rows[p]
         /\ mem'[o] = order /\ order # NoOrder
         /\ rows'[o] # NoOrder /\ rows'[o].size = order.size
         /\ Taken(rows'[o]) = Taken(order)
         /\ UNCHANGED <<positions, fills>> /\ filled' = filled /\ moved' = moved
<1>1. /\ mem \in [Ids -> Optional(SimulatedOrder, NoOrder)]
      /\ rows \in [Ids -> Optional(SimulatedOrder, NoOrder)]
  BY DEF TypeInv, TypeOK
<1>2. /\ mem' = [mem EXCEPT ![o] = order]
      /\ rows' = [rows EXCEPT ![o] = Upsert(rows[o], order)]
      /\ UNCHANGED <<positions, fills>>
  BY <1>1 DEF Persist
<1>3. rows'[o] = Upsert(rows[o], order) /\ mem'[o] = order
  BY <1>1, <1>2
<1>4. order # NoOrder /\ Upsert(rows[o], order) # NoOrder
  BY <1>1, UpsertType, IdAssumption
<1>5. /\ Upsert(rows[o], order).size = order.size
      /\ Upsert(rows[o], order).remaining_size = order.remaining_size
  BY <1>1 DEF Upsert, SameSize, SimulatedOrder, Optional
<1> QED
  BY <1>1, <1>2, <1>3, <1>4, <1>5, SameAmounts DEF Taken

\* The tables tally after the row of an order that tallies.
LEMMA PersistTally ==
  ASSUME TypeInv, AmountInv, NEW o \in Ids, NEW order \in SimulatedOrder,
         Persist(o, order), SameSize(rows[o], order), call.pc \notin FillStage,
         call'.pc \in FillStage => call'.id = o,
         call'.pc \notin FillStage => Tally(Taken(order), filled[o], moved[o])
  PROVE  TablesTally(call', mem', rows', filled', moved')
<1> SUFFICES ASSUME NEW p \in Ids
             PROVE  /\ mem'[p] # NoOrder => SameSize(rows'[p], mem'[p])
                    /\ ~(call'.pc \in FillStage /\ call'.id = p) =>
                         /\ TallyOf(mem'[p], filled', moved', p)
                         /\ TallyOf(rows'[p], filled', moved', p)
  BY DEF TablesTally
<1>1. CASE p = o
  BY <1>1, PersistTables DEF SameSize, TallyOf
<1>2. CASE p # o
  <2>1. /\ mem'[p] = mem[p] /\ rows'[p] = rows[p]
        /\ filled' = filled /\ moved' = moved
    BY <1>2, PersistTables
  <2> QED
    BY <2>1 DEF AmountInv, TablesTally
<1> QED
  BY <1>1, <1>2

-----------------------------------------------------------------------------
(***************************************************************************)
(* The amounts through the steps.                                          *)
(***************************************************************************)
\* A step that changes neither the orders nor the amounts.
LEMMA OtherStepsKeepAmounts ==
  ASSUME AmountInv, UNCHANGED <<mem, rows, positions, fills>>,
         call.pc \notin FillStage, call'.pc \notin FillStage,
         Amounts(call', mem, rows, filled, moved)
  PROVE  AmountInv'
<1>1. filled' = filled /\ moved' = moved
  BY SameAmounts
<1>2. NewPosition'
  BY DEF NewPosition, FillStage
<1>3. TablesTally(call', mem', rows', filled', moved')
  BY <1>1 DEF AmountInv, TablesTally
<1> QED
  BY <1>1, <1>2, <1>3 DEF AmountInv, Amounts

\* A client's call: a new order of which nothing is taken, or one the tables
\* already tally with.
LEMMA ClientsKeepAmounts ==
  ASSUME TypeInv, AmountInv, Client, LedgerInv'
  PROVE  AmountInv'
<1>0. /\ UNCHANGED <<mem, store>> /\ Now("idle")
  BY DEF Client, SubmitOrderIntent, StartSubmit, CancelOrder, ReplaceOrder
<1>1. /\ UNCHANGED <<mem, rows, positions, fills>> /\ call.pc = "idle"
      /\ filled' = filled /\ moved' = moved
  BY <1>0, SameAmounts DEF store, Now
<1>2. Unfilled(call') => \A e \in Recorded : e.id # call'.id
  BY <1>0 DEF store, LedgerInv, Untouched, Recorded
<1>3. ASSUME NEW o \in Ids, Fresh(o)
      PROVE  rows[o] = NoOrder
  BY <1>3 DEF Fresh, LoadOrder
<1>4. ASSUME NEW o \in Ids, LoadOrder(o) # NoOrder
      PROVE  /\ LoadOrder(o) \in SimulatedOrder
             /\ SameSize(rows[o], LoadOrder(o))
             /\ Tally(Taken(LoadOrder(o)), filled[o], moved[o])
  <2>1. LoadOrder(o) \in SimulatedOrder
    BY <1>4, TypeInvParts, LoadOrderType DEF Optional
  <2>2. /\ mem[o] # NoOrder => SameSize(rows[o], mem[o])
        /\ TallyOf(mem[o], filled, moved, o) /\ TallyOf(rows[o], filled, moved, o)
    BY <1>1 DEF AmountInv, TablesTally, FillStage
  <2> QED
    BY <1>4, <2>1, <2>2 DEF LoadOrder, SameSize, TallyOf
<1>5. ASSUME NEW i \in Intents, NEW s \in Snapshots
      PROVE  /\ CreateOrder(i).remaining_size = CreateOrder(i).size
             /\ Taken(CreateOrder(i)) = 0
             /\ MatchAgainst(i, s) # NoResult =>
                  Accounted(CreateOrder(i), MatchAgainst(i, s))
  <2>1. CreateOrder(i) \in SimulatedOrder
    BY CreateOrderType
  <2>2. CreateOrder(i).remaining_size = CreateOrder(i).size
    BY DEF CreateOrder
  <2>3. Taken(CreateOrder(i)) = 0
    BY <2>1, <2>2 DEF Taken, SimulatedOrder
  <2>4. OpenOrder(i).remaining_size = CreateOrder(i).remaining_size
    BY <2>1, TransitionTaken DEF OpenOrder, OrderStatus
  <2>5. MatchAgainst(i, s) # NoResult => Accounted(OpenOrder(i), MatchAgainst(i, s))
    BY MatchType
  <2> QED
    BY <2>2, <2>3, <2>4, <2>5, AccountedFor
<1>6. Tally(0, 0, 0)
  BY DEF Tally
<1>7. ASSUME NEW o \in Ids, SubmitOrderIntent(o)
      PROVE  AmountInv'
  <2>1. PICK i \in Intents, s \in Snapshots :
          /\ call'.pc = "risk" /\ call'.id = o /\ call'.order = CreateOrder(i)
          /\ call'.result = MatchAgainst(i, s) /\ call'.orig = NoId
    BY <1>7 DEF SubmitOrderIntent, StartSubmit, IdleCall
  <2>2. Unfilled(call')
    BY <2>1 DEF Unfilled
  <2>3. filled[o] = 0 /\ moved[o] = 0
    BY <1>2, <2>1, <2>2, AmountType DEF AmountInv
  <2>4. rows[o] = NoOrder
    BY <1>3, <1>7 DEF SubmitOrderIntent
  <2>5. CallAmounts(call', filled, moved)
    BY <1>5, <1>6, <2>1, <2>3 DEF CallAmounts, Marked, FillStage
  <2>6. CallTables(call', mem, rows)
    BY <2>1, <2>4 DEF CallTables, SameSize, FillStage
  <2> QED
    BY <1>1, <2>1, <2>5, <2>6, OtherStepsKeepAmounts DEF Amounts, FillStage
<1>8. ASSUME NEW o \in Ids, CancelOrder(o)
      PROVE  AmountInv'
  <2>1. /\ LoadOrder(o) # NoOrder /\ call'.pc = "row" /\ call'.id = o
        /\ call'.order = Transition(LoadOrder(o), "CANCEL_REQUESTED")
        /\ call'.orig = NoId
    BY <1>8 DEF CancelOrder, IdleCall
  <2>2. /\ LoadOrder(o) \in SimulatedOrder /\ SameSize(rows[o], LoadOrder(o))
        /\ Tally(Taken(LoadOrder(o)), filled[o], moved[o])
    BY <1>4, <2>1
  <2>3. /\ call'.order.status = "CANCEL_REQUESTED"
        /\ Taken(call'.order) = Taken(LoadOrder(o))
        /\ call'.order.size = LoadOrder(o).size
    BY <2>1, <2>2, TransitionType, TransitionTaken DEF OrderStatus
  <2>4. CallAmounts(call', filled, moved)
    BY <2>1, <2>2, <2>3 DEF CallAmounts, Unmatched, Unfilled, Marked, FillStage
  <2>5. CallTables(call', mem, rows)
    BY <2>1, <2>2, <2>3 DEF CallTables, SameSize, FillStage
  <2> QED
    BY <1>1, <2>1, <2>4, <2>5, OtherStepsKeepAmounts DEF Amounts, FillStage
<1>9. ASSUME NEW o \in Ids, NEW n \in Ids, ReplaceOrder(o, n)
      PROVE  AmountInv'
  <2>1. PICK i \in Intents, s \in Snapshots :
          /\ call'.pc = "orig_row" /\ call'.id = n /\ call'.order = CreateOrder(i)
          /\ call'.result = MatchAgainst(i, s) /\ call'.orig = o
          /\ call'.original = Transition(LoadOrder(o), "REPLACE_REQUESTED")
    BY <1>9 DEF ReplaceOrder, IdleCall
  <2>2. /\ LoadOrder(o) \in SimulatedOrder /\ SameSize(rows[o], LoadOrder(o))
        /\ Tally(Taken(LoadOrder(o)), filled[o], moved[o])
    BY <1>4, <1>9 DEF ReplaceOrder
  <2>3. /\ call'.original.status = "REPLACE_REQUESTED"
        /\ Taken(call'.original) = Taken(LoadOrder(o))
        /\ call'.original.size = LoadOrder(o).size
    BY <2>1, <2>2, TransitionType, TransitionTaken DEF OrderStatus
  <2>4. filled[n] = 0 /\ moved[n] = 0
    <3>1. Unfilled(call')
      BY <2>1, <2>3 DEF Unfilled
    <3> QED
      BY <1>2, <2>1, <3>1, AmountType DEF AmountInv
  <2>5. rows[n] = NoOrder
    BY <1>3, <1>9 DEF ReplaceOrder
  <2>6. CallAmounts(call', filled, moved)
    BY <1>5, <1>6, <2>1, <2>2, <2>3, <2>4 DEF CallAmounts, Marked, FillStage
  <2>7. CallTables(call', mem, rows)
    BY <2>1, <2>2, <2>3, <2>5 DEF CallTables, SameSize, FillStage
  <2> QED
    BY <1>1, <2>1, <2>6, <2>7, OtherStepsKeepAmounts DEF Amounts, FillStage
<1> QED
  BY <1>7, <1>8, <1>9 DEF Client

\* The steps that write neither an order nor its ledger.
LEMMA PathStepsKeepAmounts ==
  ASSUME TypeInv, AmountInv,
         \/ InsertRiskDecision \/ InsertTransition \/ InsertOriginalTransition
         \/ InsertValuation
  PROVE  AmountInv'
<1>0. CallOK(call) /\ call \in CallType /\ Amounts(call, mem, rows, filled, moved)
  BY DEF TypeInv, CallOK, AmountInv, Amounts
<1>1. CASE InsertRiskDecision
  <2>1. call.pc = "risk" /\ UNCHANGED <<mem, rows, positions, fills>>
    BY <1>1 DEF InsertRiskDecision, WriteDecision, Now
  <2>2. PICK s \in {"ACCEPTED", "REJECTED"} : call' = MoveTo(call, s)
    BY <1>1 DEF InsertRiskDecision
  <2>3. s \in OrderStatus /\ ~Marked(call) /\ Unmatched(call) /\ call.pc \notin FillStage
    BY <2>1 DEF OrderStatus, Marked, Unmatched, Unfilled, FillStage
  <2>4. MoveTo(call, s).pc = "row"
    BY <1>0, <2>1, <2>3, MoveToOK
  <2>5. Amounts(MoveTo(call, s), mem, rows, filled, moved)
    BY <1>0, <2>1, <2>3, MoveToAmounts
  <2> QED
    BY <2>1, <2>2, <2>3, <2>4, <2>5, OtherStepsKeepAmounts DEF FillStage
<1>2. CASE InsertTransition
  <2>1. UNCHANGED <<mem, rows, positions, fills>>
    BY <1>2 DEF InsertTransition, WriteTransition, AppendTransition
  <2>2. CASE Now("log")
    <3>1. call.pc = "log" /\ call' = AfterTransition(call)
      BY <1>2, <2>2 DEF InsertTransition, Now
    <3>2. AfterTransition(call).pc \notin FillStage
      BY <1>0, <3>1, AfterTransitionUnfilled
    <3>3. Amounts(AfterTransition(call), mem, rows, filled, moved)
      BY <1>0, <3>1, AfterTransitionAmounts
    <3> QED
      BY <2>1, <3>1, <3>2, <3>3, OtherStepsKeepAmounts DEF FillStage
  <2>3. CASE Now("fill_log")
    <3>1. /\ call.pc = "fill_log" /\ call' = [call EXCEPT !.pc = "fill_row"]
      BY <1>2, <2>3 DEF InsertTransition, Now
    <3>2. /\ call'.pc = "fill_row" /\ call'.id = call.id /\ call'.order = call.order
          /\ call'.orig = call.orig /\ call'.original = call.original
          /\ call'.result = call.result
      BY <1>0, <3>1 DEF CallType
    <3>3. CallAmounts(call', filled, moved)
      BY <1>0, <3>1, <3>2 DEF Amounts, CallAmounts, Unmatched, Marked, FillStage
    <3>4. CallTables(call', mem, rows)
      BY <1>0, <3>1, <3>2 DEF Amounts, CallTables, FillStage
    <3> QED
      BY <2>1, <3>1, <3>2, <3>3, <3>4, OtherStepsKeepAmounts DEF Amounts, FillStage
  <2> QED
    BY <1>2, <2>2, <2>3 DEF InsertTransition, WriteTransition
<1>3. CASE InsertOriginalTransition
  <2>1. call.pc = "orig_log" /\ UNCHANGED <<mem, rows, positions, fills>>
    BY <1>3
    DEF InsertOriginalTransition, WriteOriginalTransition, AppendTransition, Now
  <2>2. CASE call.original.status = "REPLACE_REQUESTED"
    <3>1. call' = [call EXCEPT !.pc = "risk"]
      BY <1>3, <2>2 DEF InsertOriginalTransition
    <3>2. /\ call'.pc = "risk" /\ call'.id = call.id /\ call'.order = call.order
          /\ call'.orig = call.orig /\ call'.original = call.original
          /\ call'.result = call.result
      BY <1>0, <3>1 DEF CallType
    <3>3. Unmatched(call)
      BY <2>1, <2>2 DEF Unmatched, Unfilled
    <3>4. CallAmounts(call', filled, moved)
      BY <1>0, <2>1, <3>2, <3>3 DEF Amounts, CallAmounts, Marked, FillStage
    <3>5. CallTables(call', mem, rows)
      BY <1>0, <2>1, <3>2 DEF Amounts, CallTables, FillStage
    <3> QED
      BY <2>1, <3>2, <3>4, <3>5, OtherStepsKeepAmounts DEF Amounts, FillStage
  <2>3. CASE call.original.status # "REPLACE_REQUESTED"
    <3>1. call' = IdleCall /\ IdleCall.pc = "idle"
      BY <1>3, <2>3 DEF InsertOriginalTransition, IdleCall
    <3> QED
      BY <2>1, <3>1, IdleAmounts, OtherStepsKeepAmounts DEF FillStage
  <2> QED
    BY <2>2, <2>3
<1>4. CASE InsertValuation
  <2>1. /\ call.pc = "valuation" /\ UNCHANGED <<mem, rows, positions, fills>>
        /\ call' = Submitted(call)
    BY <1>4 DEF InsertValuation, WriteValuation, Now
  <2>2. Tally(Taken(call.order), filled[call.id], moved[call.id])
    BY <1>0, <2>1 DEF Amounts, CallAmounts, Marked, FillStage
  <2>3. Amounts(Submitted(call), mem, rows, filled, moved)
    BY <1>0, <2>1, <2>2, SubmittedAmounts
  <2>4. Submitted(call).pc \notin FillStage
    BY <1>0, SubmittedNotUnfilled
  <2> QED
    BY <2>1, <2>3, <2>4, OtherStepsKeepAmounts DEF FillStage
<1> QED
  BY <1>1, <1>2, <1>3, <1>4

\* The row of the order.  Before its fills are written to the ledger the order
\* has none there, so the row may take any of them.
LEMMA PersistKeepsAmounts ==
  ASSUME TypeInv, StatusInv, LedgerInv, AmountInv, PersistOrder
  PROVE  AmountInv'
<1>0. /\ CallOK(call) /\ call \in CallType /\ Amounts(call, mem, rows, filled, moved)
      /\ OriginalPhase(call, stored, live)
  BY DEF TypeInv, CallOK, AmountInv, Amounts, StatusInv, Phases
<1>1. /\ call.pc \in {"row", "fill_row"} /\ Persist(call.id, call.order)
      /\ call.id \in Ids /\ call.order \in SimulatedOrder /\ call.pc \notin FillStage
      /\ SameSize(rows[call.id], call.order)
  BY <1>0 DEF PersistOrder, WriteOrder, Now, CallOK, Amounts, CallTables, FillStage
<1>2. /\ \A p \in Ids : p # call.id => mem'[p] = mem[p] /\ rows'[p] = rows[p]
      /\ mem'[call.id] = call.order /\ rows'[call.id] # NoOrder
      /\ rows'[call.id].size = call.order.size
      /\ Taken(rows'[call.id]) = Taken(call.order)
      /\ UNCHANGED <<positions, fills>> /\ filled' = filled /\ moved' = moved
  BY <1>1, PersistTables
<1>3. call.orig # NoId => /\ call.orig \in Ids /\ rows'[call.orig] = rows[call.orig]
                          /\ SameSize(rows[call.orig], call.original)
  BY <1>0, <1>1, <1>2 DEF OriginalPhase, CallOK, Amounts, CallTables
<1>4. CallTables(call, mem', rows')
  BY <1>1, <1>2, <1>3 DEF CallTables, SameSize
<1>5. CASE Now("row")
  <2>1. call.pc = "row" /\ call' = [call EXCEPT !.pc = "log"]
    BY <1>5 DEF PersistOrder, Now
  <2>2. /\ call'.pc = "log" /\ call'.id = call.id /\ call'.order = call.order
        /\ call'.orig = call.orig /\ call'.original = call.original
        /\ call'.result = call.result
    BY <1>0, <2>1 DEF CallType
  <2>3. Tally(Taken(call.order), filled[call.id], moved[call.id])
    BY <1>0, <2>1 DEF Amounts, CallAmounts, Marked, FillStage
  <2>4. CallAmounts(call', filled', moved')
    BY <1>0, <1>2, <2>1, <2>2, <2>3
    DEF Amounts, CallAmounts, Unmatched, Unfilled, Marked, FillStage
  <2>5. CallTables(call', mem', rows')
    BY <1>4, <2>1, <2>2 DEF CallTables, FillStage
  <2>6. TablesTally(call', mem', rows', filled', moved')
    BY <1>1, <2>2, <2>3, PersistTally DEF FillStage
  <2>7. NewPosition'
    BY <2>2 DEF NewPosition
  <2> QED
    BY <1>2, <2>4, <2>5, <2>6, <2>7 DEF AmountInv
<1>6. CASE Now("fill_row")
  <2>0. /\ call.pc = "fill_row" /\ Unfilled(call) /\ call.result \in FillResult
        /\ Taken(call.order) = Filled(call.result.fills)
    BY <1>0, <1>6
    DEF Now, Unfilled, Amounts, CallAmounts, Marked, CallOK, GoodResult
  <2>1. filled[call.id] = 0 /\ moved[call.id] = 0
    BY <2>0, NothingYet DEF AmountInv
  <2>2. CASE call.result.fills = << >>
    <3>1. call' = Submitted(call) /\ call'.pc \notin FillStage
      BY <1>0, <1>6, <2>2, SubmittedNotUnfilled DEF PersistOrder, Now
    <3>2. Tally(Taken(call.order), filled[call.id], moved[call.id])
      BY <2>0, <2>1, <2>2, EmptyFilled DEF Tally
    <3>3. TablesTally(call', mem', rows', filled', moved')
      BY <1>1, <3>1, <3>2, PersistTally
    <3>4. Amounts(call, mem', rows', filled, moved)
      BY <1>0, <1>4 DEF Amounts
    <3>5. Amounts(Submitted(call), mem', rows', filled, moved)
      BY <1>0, <2>0, <3>2, <3>4, SubmittedAmounts
    <3>6. NewPosition'
      BY <3>1 DEF NewPosition, FillStage
    <3> QED
      BY <1>2, <3>1, <3>3, <3>5, <3>6 DEF AmountInv, Amounts
  <2>3. CASE call.result.fills # << >>
    <3>1. call' = [call EXCEPT !.pc = "cash", !.k = 1]
      BY <1>6, <2>3 DEF PersistOrder, Now
    <3>2. /\ call'.pc = "cash" /\ call'.id = call.id /\ call'.order = call.order
          /\ call'.orig = call.orig /\ call'.original = call.original
          /\ call'.result = call.result /\ call'.k = 1
      BY <1>0, <3>1 DEF CallType
    <3>3. /\ Upto(call', call'.k - 1) = 0 /\ Positioned(call') = call'.k - 1
      <4>1. Upto(call, 0) = 0
        BY <2>0, UptoFills
      <4> QED
        BY <3>2, <4>1 DEF Upto, Positioned
    <3>4. CallAmounts(call', filled', moved')
      <4>1. ~Unmatched(call') /\ Marked(call') /\ call'.pc # "idle" /\ call.pc # "idle"
        BY <2>0, <3>2 DEF Unmatched, Unfilled, Marked, FillStage
      <4> QED
        BY <1>0, <1>2, <2>0, <2>1, <3>2, <3>3, <4>1 DEF Amounts, CallAmounts
    <3>5. CallTables(call', mem', rows')
      BY <1>2, <1>4, <2>0, <3>2 DEF CallTables
    <3>6. TablesTally(call', mem', rows', filled', moved')
      BY <1>1, <3>2, PersistTally DEF FillStage
    <3>7. NewPosition'
      <4>1. FillId'[1] = call.id
        BY <3>2 DEF FillId
      <4>2. \A p \in positions : p.fill[1] = p.id /\ p.id # call.id
        BY <2>0 DEF LedgerInv, Owned, Untouched, Recorded
      <4> QED
        BY <1>2, <4>1, <4>2 DEF NewPosition
    <3> QED
      BY <1>2, <3>4, <3>5, <3>6, <3>7 DEF AmountInv
  <2> QED
    BY <2>2, <2>3
<1> QED
  BY <1>1, <1>5, <1>6 DEF Now

\* The row of the order that is being replaced.
LEMMA PersistOriginalKeepsAmounts ==
  ASSUME TypeInv, StatusInv, AmountInv, PersistOriginal
  PROVE  AmountInv'
<1>0. /\ CallOK(call) /\ call \in CallType /\ Amounts(call, mem, rows, filled, moved)
      /\ OriginalPhase(call, stored, live)
  BY DEF TypeInv, CallOK, AmountInv, Amounts, StatusInv, Phases
<1>1. /\ call.pc = "orig_row" /\ Persist(call.orig, call.original)
      /\ call.orig # NoId /\ call.orig \in Ids /\ call.original \in SimulatedOrder
      /\ call.id \in Ids /\ call.id # call.orig /\ call.pc \notin FillStage
      /\ SameSize(rows[call.orig], call.original)
      /\ Tally(Taken(call.original), filled[call.orig], moved[call.orig])
      /\ call' = [call EXCEPT !.pc = "orig_log"]
  BY <1>0
  DEF PersistOriginal, WriteOriginal, Now, CallOK, Amounts, CallTables, CallAmounts,
      OriginalPhase, FillStage
<1>2. /\ \A p \in Ids : p # call.orig => mem'[p] = mem[p] /\ rows'[p] = rows[p]
      /\ rows'[call.orig].size = call.original.size
      /\ UNCHANGED <<positions, fills>> /\ filled' = filled /\ moved' = moved
  BY <1>1, PersistTables
<1>3. /\ call'.pc = "orig_log" /\ call'.id = call.id /\ call'.order = call.order
      /\ call'.orig = call.orig /\ call'.original = call.original
      /\ call'.result = call.result
  BY <1>0, <1>1 DEF CallType
<1>4. CallAmounts(call', filled', moved')
  BY <1>0, <1>1, <1>2, <1>3
  DEF Amounts, CallAmounts, Unmatched, Unfilled, Marked, FillStage
<1>5. CallTables(call', mem', rows')
  BY <1>0, <1>1, <1>2, <1>3 DEF Amounts, CallTables, SameSize, FillStage
<1>6. TablesTally(call', mem', rows', filled', moved')
  BY <1>1, <1>3, PersistTally DEF FillStage
<1>7. NewPosition'
  BY <1>3 DEF NewPosition
<1> QED
  BY <1>2, <1>4, <1>5, <1>6, <1>7 DEF AmountInv

\* The cash entries move no shares.
LEMMA CashKeepsAmounts ==
  ASSUME TypeInv, AmountInv, InsertCashEntry \/ InsertFeeEntry
  PROVE  AmountInv'
<1>1. PICK n \in {"fee", "position"} :
        /\ call.pc \in {"cash", "fee"} /\ call' = [call EXCEPT !.pc = n]
        /\ UNCHANGED <<mem, rows, log, positions, fills>>
  BY DEF InsertCashEntry, InsertFeeEntry, WriteCash, WriteFee, InsertCash, Now
<1>2. /\ call'.pc = n /\ call'.id = call.id /\ call'.order = call.order
      /\ call'.orig = call.orig /\ call'.original = call.original
      /\ call'.result = call.result /\ call'.k = call.k
  BY <1>1 DEF TypeInv, CallOK, CallType
<1>3. filled' = filled /\ moved' = moved /\ FillId' = FillId
  BY <1>1, <1>2, SameAmounts DEF FillId
<1>4. /\ Upto(call', call'.k - 1) = Upto(call, call.k - 1)
      /\ Upto(call', Positioned(call')) = Upto(call, Positioned(call))
  BY <1>1, <1>2 DEF Upto, Positioned
<1>5. /\ ~Unmatched(call') /\ Marked(call) /\ Marked(call')
      /\ call.pc \in FillStage /\ call'.pc \in FillStage
      /\ call.pc # "idle" /\ call'.pc # "idle"
  BY <1>1, <1>2 DEF Unmatched, Unfilled, Marked, FillStage
<1>6. CallAmounts(call', filled', moved')
  BY <1>2, <1>3, <1>4, <1>5 DEF AmountInv, CallAmounts
<1>7. CallTables(call', mem', rows')
  BY <1>1, <1>2, <1>5 DEF AmountInv, CallTables
<1>8. TablesTally(call', mem', rows', filled', moved')
  BY <1>1, <1>2, <1>3, <1>5 DEF AmountInv, TablesTally
<1>9. NewPosition'
  BY <1>1, <1>2, <1>3 DEF AmountInv, NewPosition
<1> QED
  BY <1>1, <1>6, <1>7, <1>8, <1>9 DEF AmountInv

\* A position entry moves the fill it is about.
LEMMA PositionWritten ==
  ASSUME TypeInv, AmountInv, WritePosition
  PROVE  /\ call.pc = "position" /\ UNCHANGED <<mem, rows, log, fills>>
         /\ IsFiniteSet(positions') /\ filled' = filled
         /\ \A o \in Ids : moved'[o] = IF o = call.id THEN Upto(call, call.k) ELSE moved[o]
<1> DEFINE row == [fill |-> FillId, id |-> call.id, price |-> CurrentFill.price,
                   delta |-> PositionDelta(call.order.side, CurrentFill)]
<1>1. /\ call.pc = "position" /\ positions' = positions \cup {row}
      /\ UNCHANGED <<mem, rows, log, fills>>
  BY DEF WritePosition, Now
<1>2. /\ row.fill = FillId /\ row.id = call.id
      /\ row.delta = PositionDelta(call.order.side, CurrentFill)
  OBVIOUS
<1> HIDE DEF row
<1>3. row \notin positions
  BY <1>1, <1>2 DEF AmountInv, NewPosition
<1>4. /\ CurrentFill.size \in Nat /\ call.order.side \in OrderSide
  BY <1>1, CurrentFillType DEF CurrentFill, TypeInv, FillStage
<1>5. /\ row.delta \in Int
      /\ (IF row.delta < 0 THEN -row.delta ELSE row.delta) = CurrentFill.size
  BY <1>2, <1>4 DEF PositionDelta, OrderSide
<1>6. ASSUME NEW o \in Ids
      PROVE  /\ IsFiniteSet(positions')
             /\ moved'[o] = IF o = call.id THEN moved[o] + CurrentFill.size ELSE moved[o]
  <2>1. /\ IsFiniteSet(positions')
        /\ MovedBy(o)' = IF row.id = o
                         THEN MovedBy(o) + (IF row.delta < 0 THEN -row.delta
                                                             ELSE row.delta)
                         ELSE MovedBy(o)
    BY <1>1, <1>3, <1>5, MovedGrows DEF AmountInv
  <2>2. moved[o] = MovedBy(o) /\ moved'[o] = MovedBy(o)'
    BY DEF moved
  <2> QED
    BY <1>2, <1>5, <2>1, <2>2
<1>7. /\ call.id \in Ids /\ moved[call.id] = Upto(call, call.k - 1)
      /\ Upto(call, call.k) = Upto(call, call.k - 1) + CurrentFill.size
  BY <1>1, LedgerAmounts DEF FillStage
<1>8. filled' = filled
  BY <1>1 DEF filled, FilledOf
<1> QED
  BY <1>1, <1>6, <1>7, <1>8

\* A stored fill.
LEMMA FillWritten ==
  ASSUME TypeInv, LedgerInv, AmountInv, WriteFill
  PROVE  /\ call.pc = "fill" /\ UNCHANGED <<mem, rows, log, positions>>
         /\ IsFiniteSet(fills') /\ moved' = moved
         /\ \A o \in Ids :
              filled'[o] = IF o = call.id THEN Upto(call, call.k) ELSE filled[o]
<1> DEFINE row == [fill |-> FillId, id |-> call.id, side |-> call.order.side,
                   price |-> CurrentFill.price, size |-> CurrentFill.size,
                   fee |-> CurrentFee]
<1>1. /\ call.pc = "fill" /\ fills' = fills \cup {row}
      /\ UNCHANGED <<mem, rows, log, positions>>
  BY DEF WriteFill, Now
<1>2. row.fill = FillId /\ row.id = call.id /\ row.size = CurrentFill.size
  OBVIOUS
<1> HIDE DEF row
<1>3. row \notin fills
  BY <1>1, <1>2 DEF LedgerInv, FillPhase, FillStage
<1>4. CurrentFill.size \in Nat
  BY <1>1, CurrentFillType DEF CurrentFill, TypeInv, FillStage
<1>5. ASSUME NEW o \in Ids
      PROVE  /\ IsFiniteSet(fills')
             /\ filled'[o] = IF o = call.id THEN filled[o] + CurrentFill.size
                                            ELSE filled[o]
  <2>1. /\ IsFiniteSet(fills')
        /\ FilledOf(o)' = IF row.id = o THEN FilledOf(o) + row.size ELSE FilledOf(o)
    BY <1>1, <1>2, <1>3, <1>4, FilledGrows DEF AmountInv
  <2>2. filled[o] = FilledOf(o) /\ filled'[o] = FilledOf(o)'
    BY DEF filled
  <2> QED
    BY <1>2, <2>1, <2>2
<1>6. /\ call.id \in Ids /\ filled[call.id] = Upto(call, call.k - 1)
      /\ Upto(call, call.k) = Upto(call, call.k - 1) + CurrentFill.size
  BY <1>1, LedgerAmounts DEF FillStage
<1>7. moved' = moved
  BY <1>1 DEF moved, MovedBy
<1> QED
  BY <1>1, <1>5, <1>6, <1>7

\* The position moves before the fill is stored.
LEMMA PositionKeepsAmounts ==
  ASSUME TypeInv, StatusInv, AmountInv, InsertPositionEntry
  PROVE  AmountInv'
<1>1. /\ WritePosition /\ call' = [call EXCEPT !.pc = "fill"]
  BY DEF InsertPositionEntry
<1>2. /\ call.pc = "position" /\ UNCHANGED <<mem, rows, log, fills>>
      /\ IsFiniteSet(positions') /\ filled' = filled
      /\ \A o \in Ids : moved'[o] = IF o = call.id THEN Upto(call, call.k) ELSE moved[o]
  BY <1>1, PositionWritten
<1>3. /\ call'.pc = "fill" /\ call'.id = call.id /\ call'.order = call.order
      /\ call'.orig = call.orig /\ call'.original = call.original
      /\ call'.result = call.result /\ call'.k = call.k
  BY <1>1 DEF TypeInv, CallOK, CallType
<1>4. /\ Upto(call', call'.k - 1) = Upto(call, call.k - 1)
      /\ Upto(call', Positioned(call')) = Upto(call, call.k)
      /\ moved'[call.id] = Upto(call, call.k)
  <2>1. call.id \in Ids
    BY <1>2, LedgerAmounts DEF FillStage
  <2> QED
    BY <1>2, <1>3, <2>1 DEF Upto, Positioned
<1>5. /\ ~Unmatched(call') /\ Marked(call) /\ Marked(call')
      /\ call.pc \in FillStage /\ call'.pc \in FillStage
      /\ call.pc # "idle" /\ call'.pc # "idle"
  BY <1>2, <1>3 DEF Unmatched, Unfilled, Marked, FillStage
<1>6. call.orig # NoId => call.orig \in Ids /\ call.orig # call.id
  BY <1>5 DEF TypeInv, CallOK, StatusInv, Phases, OriginalPhase
<1>7. CallAmounts(call', filled', moved')
  BY <1>2, <1>3, <1>4, <1>5, <1>6 DEF AmountInv, CallAmounts
<1>8. CallTables(call', mem', rows')
  BY <1>2, <1>3, <1>5 DEF AmountInv, CallTables
<1>9. TablesTally(call', mem', rows', filled', moved')
  BY <1>2, <1>3, <1>5 DEF AmountInv, TablesTally, TallyOf
<1>10. NewPosition'
  BY <1>3 DEF NewPosition
<1> QED
  BY <1>2, <1>7, <1>8, <1>9, <1>10 DEF AmountInv

\* The fill is stored; after the last one the ledger holds all that was taken.
LEMMA FillKeepsAmounts ==
  ASSUME TypeInv, StatusInv, LedgerInv, AmountInv, InsertFill
  PROVE  AmountInv'
<1>0. call \in CallType
  BY DEF TypeInv, CallOK
<1>1. WriteFill /\ call' = AfterFill(call)
  BY DEF InsertFill
<1>2. /\ call.pc = "fill" /\ UNCHANGED <<mem, rows, log, positions>>
      /\ IsFiniteSet(fills') /\ moved' = moved
      /\ \A o \in Ids :
           filled'[o] = IF o = call.id THEN Upto(call, call.k) ELSE filled[o]
  BY <1>1, FillWritten
<1>3. /\ call.id \in Ids /\ call.k \in Nat \ {0} /\ Upto(call, call.k) \in Nat
      /\ moved[call.id] = Upto(call, call.k)
      /\ ~(call.k < Len(call.result.fills)) => Upto(call, call.k) = Taken(call.order)
  BY <1>2, LedgerAmounts DEF FillStage
<1>4. filled'[call.id] = Upto(call, call.k) /\ moved'[call.id] = Upto(call, call.k)
  BY <1>2, <1>3
<1>5. Marked(call) /\ call.pc \in FillStage /\ call.pc # "idle"
  BY <1>2 DEF Marked, FillStage
<1>6. call.orig # NoId => call.orig \in Ids /\ call.orig # call.id
  BY <1>5 DEF TypeInv, CallOK, StatusInv, Phases, OriginalPhase
<1>7. CASE call.k < Len(call.result.fills)
  <2>1. /\ call'.pc = "cash" /\ call'.id = call.id /\ call'.order = call.order
        /\ call'.orig = call.orig /\ call'.original = call.original
        /\ call'.result = call.result /\ call'.k = call.k + 1
    BY <1>0, <1>1, <1>7 DEF AfterFill, CallType
  <2>2. /\ call'.k - 1 = call.k
    BY <1>3, <2>1
  <2>3. /\ Upto(call', call'.k - 1) = Upto(call, call.k)
        /\ Upto(call', Positioned(call')) = Upto(call, call.k)
    BY <2>1, <2>2 DEF Upto, Positioned
  <2>4. ~Unmatched(call') /\ Marked(call') /\ call'.pc \in FillStage /\ call'.pc # "idle"
    BY <2>1 DEF Unmatched, Unfilled, Marked, FillStage
  <2>5. CallAmounts(call', filled', moved')
    BY <1>2, <1>4, <1>5, <1>6, <2>1, <2>3, <2>4 DEF AmountInv, CallAmounts
  <2>6. CallTables(call', mem', rows')
    BY <1>2, <1>5, <2>1, <2>4 DEF AmountInv, CallTables
  <2>7. TablesTally(call', mem', rows', filled', moved')
    BY <1>2, <1>5, <2>1, <2>4 DEF AmountInv, TablesTally, TallyOf
  <2>8. NewPosition'
    <3> SUFFICES ASSUME NEW p \in positions, p.fill = FillId'
                 PROVE  FALSE
      BY <1>2 DEF NewPosition
    <3>1. FillId'[1] = call.id /\ FillId'[3] = call.k + 1
      BY <2>1 DEF FillId
    <3>2. p.id = call.id /\ p.fill[3] = call.k + 1
      BY <3>1 DEF LedgerInv, Owned, Recorded
    <3>3. p.fill[3] <= call.k
      BY <1>2, <3>2 DEF LedgerInv, FillPhase, Recorded, FillStage
    <3> QED
      BY <1>3, <3>2, <3>3
  <2> QED
    BY <1>2, <2>5, <2>6, <2>7, <2>8 DEF AmountInv
<1>8. CASE ~(call.k < Len(call.result.fills))
  <2>1. /\ call'.pc = "valuation" /\ call'.id = call.id /\ call'.order = call.order
        /\ call'.orig = call.orig /\ call'.original = call.original
    BY <1>0, <1>1, <1>8 DEF AfterFill, CallType
  <2>2. Tally(Taken(call.order), filled'[call.id], moved'[call.id])
    BY <1>3, <1>4, <1>8 DEF Tally
  <2>3. ~Unmatched(call') /\ ~Marked(call') /\ call'.pc \notin FillStage /\ call'.pc # "idle"
    BY <2>1 DEF Unmatched, Unfilled, Marked, FillStage
  <2>4. CallAmounts(call', filled', moved')
    BY <1>2, <1>5, <1>6, <2>1, <2>2, <2>3 DEF AmountInv, CallAmounts
  <2>5. CallTables(call', mem', rows')
    BY <1>2, <1>5, <2>1, <2>3 DEF AmountInv, CallTables
  <2>6. TablesTally(call', mem', rows', filled', moved')
    <3> SUFFICES ASSUME NEW o \in Ids
                 PROVE  /\ mem[o] # NoOrder => SameSize(rows[o], mem[o])
                        /\ TallyOf(mem[o], filled', moved', o)
                        /\ TallyOf(rows[o], filled', moved', o)
      BY <1>2, <2>3 DEF TablesTally
    <3>1. mem[o] # NoOrder => SameSize(rows[o], mem[o])
      BY DEF AmountInv, TablesTally
    <3>2. CASE o = call.id
      <4>1. mem[o] = call.order /\ Taken(rows[o]) = Taken(call.order)
        BY <1>5, <3>2 DEF AmountInv, CallTables
      <4> QED
        BY <2>2, <3>1, <3>2, <4>1 DEF TallyOf
    <3>3. CASE o # call.id
      <4>1. filled'[o] = filled[o] /\ moved'[o] = moved[o]
        BY <1>2, <3>3
      <4>2. TallyOf(mem[o], filled, moved, o) /\ TallyOf(rows[o], filled, moved, o)
        BY <3>3 DEF AmountInv, TablesTally
      <4> QED
        BY <3>1, <4>1, <4>2 DEF TallyOf
    <3> QED
      BY <3>2, <3>3
  <2>7. NewPosition'
    BY <2>1 DEF NewPosition
  <2> QED
    BY <1>2, <2>4, <2>5, <2>6, <2>7 DEF AmountInv
<1> QED
  BY <1>7, <1>8

-----------------------------------------------------------------------------
(***************************************************************************)
(* The amounts through the failures.                                       *)
(***************************************************************************)
\* A write that failed, whether it was made or not, and a process that died
\* leave no record of an order short of the ledger.
LEMMA FailuresKeepAmounts ==
  ASSUME TypeInv, StatusInv, LedgerInv, AmountInv, StoreError \/ Crash
  PROVE  AmountInv'
<1>0. /\ CallOK(call) /\ Faults # {} /\ call' = IdleCall
      /\ IsFiniteSet(positions) /\ IsFiniteSet(fills)
      /\ mem \in [Ids -> Optional(SimulatedOrder, NoOrder)]
  BY DEF StoreError, Crash, TypeInv, TypeOK, AmountInv
<1> DEFINE Fine(order, f, m) == order # NoOrder => f <= m /\ m <= Taken(order)
<1>1. ASSUME IsFiniteSet(positions'), IsFiniteSet(fills'),
             \A o \in Ids : /\ mem'[o] # NoOrder => SameSize(rows'[o], mem'[o])
                            /\ Fine(mem'[o], filled'[o], moved'[o])
                            /\ Fine(rows'[o], filled'[o], moved'[o])
      PROVE  AmountInv'
  <2>1. Amounts(call', mem', rows', filled', moved')
    BY <1>0, IdleAmounts
  <2>2. TablesTally(call', mem', rows', filled', moved')
    BY <1>0, <1>1 DEF TablesTally, TallyOf, Tally
  <2>3. NewPosition'
    BY <1>0 DEF NewPosition, IdleCall
  <2> QED
    BY <1>1, <2>1, <2>2, <2>3 DEF AmountInv, Amounts
<1>2. \A o \in Ids : /\ Fine(mem[o], filled[o], moved[o])
                     /\ Fine(rows[o], filled[o], moved[o])
                     /\ mem[o] # NoOrder => SameSize(rows[o], mem[o])
  BY NeverShort DEF AmountInv, TablesTally
<1>3. CASE UNCHANGED <<rows, positions, fills>>
           /\ \A o \in Ids : mem'[o] = mem[o] \/ mem'[o] = NoOrder
  <2>1. filled' = filled /\ moved' = moved
    BY <1>3, SameAmounts
  <2> QED
    BY <1>0, <1>1, <1>2, <1>3, <2>1
<1>4. ASSUME NEW o \in Ids, NEW order \in SimulatedOrder, SameSize(rows[o], order),
             filled[o] <= moved[o] /\ moved[o] <= Taken(order),
             \/ Persist(o, order)
             \/ mem' = [mem EXCEPT ![o] = order] /\ UNCHANGED <<rows, positions, fills>>
      PROVE  AmountInv'
  <2>1. /\ UNCHANGED <<positions, fills>> /\ filled' = filled /\ moved' = moved
    BY <1>4, SameAmounts DEF Persist
  <2>2. /\ \A p \in Ids : p # o => mem'[p] = mem[p] /\ rows'[p] = rows[p]
        /\ mem'[o] = order /\ SameSize(rows'[o], order)
        /\ rows'[o] = rows[o] \/ Taken(rows'[o]) = Taken(order)
    <3>1. CASE Persist(o, order)
      BY <1>4, <3>1, PersistTables DEF SameSize
    <3>2. CASE mem' = [mem EXCEPT ![o] = order] /\ UNCHANGED <<rows, positions, fills>>
      BY <1>0, <1>4, <3>2
    <3> QED
      BY <1>4, <3>1, <3>2
  <2>3. ASSUME NEW p \in Ids
        PROVE  /\ mem'[p] # NoOrder => SameSize(rows'[p], mem'[p])
               /\ Fine(mem'[p], filled'[p], moved'[p])
               /\ Fine(rows'[p], filled'[p], moved'[p])
    <3>1. CASE p = o
      BY <1>2, <1>4, <2>1, <2>2, <3>1
    <3>2. CASE p # o
      BY <1>2, <2>1, <2>2, <3>2
    <3> QED
      BY <3>1, <3>2
  <2> QED
    BY <1>0, <1>1, <2>1, <2>3
<1>5. ASSUME Now("row") \/ Now("fill_row")
      PROVE  /\ call.id \in Ids /\ call.order \in SimulatedOrder
             /\ SameSize(rows[call.id], call.order)
             /\ filled[call.id] <= moved[call.id] /\ moved[call.id] <= Taken(call.order)
  <2>1. /\ call.pc \in {"row", "fill_row"} /\ call.id \in Ids
        /\ call.order \in SimulatedOrder /\ SameSize(rows[call.id], call.order)
    BY <1>0, <1>5 DEF Now, CallOK, AmountInv, CallTables
  <2>2. CASE call.pc = "row"
    BY <2>1, <2>2 DEF AmountInv, CallAmounts, Marked, FillStage, Tally
  <2>3. CASE call.pc = "fill_row"
    <3>1. /\ Unfilled(call) /\ call.result \in FillResult
          /\ Taken(call.order) = Filled(call.result.fills)
      BY <1>0, <2>3
      DEF Unfilled, CallOK, GoodResult, AmountInv, CallAmounts, Marked
    <3>2. filled[call.id] = 0 /\ moved[call.id] = 0
      BY <1>0, <2>3, <3>1, NothingYet
    <3>3. Filled(call.result.fills) \in Nat
      BY <3>1, UptoFills
    <3> QED
      BY <2>1, <3>1, <3>2, <3>3
  <2> QED
    BY <2>1, <2>2, <2>3
<1>6. ASSUME Now("orig_row")
      PROVE  /\ call.orig \in Ids /\ call.original \in SimulatedOrder
             /\ SameSize(rows[call.orig], call.original)
             /\ filled[call.orig] <= moved[call.orig]
             /\ moved[call.orig] <= Taken(call.original)
  BY <1>0, <1>6 DEF Now, CallOK, AmountInv, CallTables, CallAmounts, Tally
<1>7. CASE WriteOrder
  BY <1>4, <1>5, <1>7 DEF WriteOrder
<1>8. CASE WriteOriginal
  BY <1>4, <1>6, <1>8 DEF WriteOriginal
<1>9. CASE WriteLost
  <2>1. UNCHANGED <<rows, positions, fills>>
    BY <1>9 DEF WriteLost, store
  <2>2. CASE Now("row") \/ Now("fill_row")
    <3>1. mem' = [mem EXCEPT ![call.id] = call.order]
      BY <1>9, <2>2 DEF WriteLost, Now
    <3> QED
      BY <1>4, <1>5, <2>1, <2>2, <3>1
  <2>3. CASE Now("orig_row")
    <3>1. mem' = [mem EXCEPT ![call.orig] = call.original]
      BY <1>9, <2>3 DEF WriteLost, Now
    <3> QED
      BY <1>4, <1>6, <2>1, <2>3, <3>1
  <2>4. CASE ~Now("row") /\ ~Now("fill_row") /\ ~Now("orig_row")
    BY <1>3, <1>9, <2>1, <2>4 DEF WriteLost
  <2> QED
    BY <2>2, <2>3, <2>4
<1>10. CASE WritePosition \/ WriteFill
  <2>1. /\ UNCHANGED <<mem, rows>> /\ call.pc \in FillStage
        /\ IsFiniteSet(positions') /\ IsFiniteSet(fills')
        /\ \A o \in Ids : o # call.id => filled'[o] = filled[o] /\ moved'[o] = moved[o]
    BY <1>0, <1>10, PositionWritten, FillWritten DEF FillStage
  <2>2. filled'[call.id] <= moved'[call.id] /\ moved'[call.id] <= Taken(call.order)
    <3> DEFINE a == Upto(call, call.k - 1)
               b == Upto(call, call.k)
               n == Taken(call.order)
    <3>1. /\ a \in Nat /\ b \in Nat /\ CurrentFill.size \in Nat
          /\ b = a + CurrentFill.size /\ b <= n /\ call.id \in Ids
          /\ filled[call.id] = a /\ (call.pc = "fill" => moved[call.id] = b)
      BY <2>1, LedgerAmounts
    <3>2. \/ filled'[call.id] = a /\ moved'[call.id] = b
          \/ filled'[call.id] = b /\ moved'[call.id] = b
      BY <1>10, <3>1, PositionWritten, FillWritten
    <3> HIDE DEF a, b, n
    <3>3. filled'[call.id] <= moved'[call.id] /\ moved'[call.id] <= n
      BY <3>1, <3>2
    <3> QED
      BY <3>3 DEF n
  <2>3. mem[call.id] = call.order /\ Taken(rows[call.id]) = Taken(call.order)
    BY <2>1 DEF AmountInv, CallTables
  <2>4. ASSUME NEW o \in Ids
        PROVE  /\ mem'[o] # NoOrder => SameSize(rows'[o], mem'[o])
               /\ Fine(mem'[o], filled'[o], moved'[o])
               /\ Fine(rows'[o], filled'[o], moved'[o])
    <3>1. CASE o = call.id
      BY <1>2, <2>1, <2>2, <2>3, <3>1
    <3>2. CASE o # call.id
      BY <1>2, <2>1, <3>2
    <3> QED
      BY <3>1, <3>2
  <2> QED
    BY <1>1, <2>1, <2>4
<1>11. CASE UNCHANGED <<mem, rows, positions, fills>>
  BY <1>3, <1>11
<1>12. CASE Crash
  BY <1>3, <1>12 DEF Crash, store
<1>13. CASE StoreError
  <2>1. \/ WriteOrder \/ WriteOriginal \/ WriteLost \/ WritePosition \/ WriteFill
        \/ UNCHANGED <<mem, rows, positions, fills>>
    BY <1>13
    DEF StoreError, WriteReached, WriteDecision, WriteTransition,
        WriteOriginalTransition, WriteCash, WriteFee, WriteValuation, InsertCash,
        AppendTransition
  <2> QED
    BY <1>7, <1>8, <1>9, <1>10, <1>11, <2>1
<1> QED
  BY <1>12, <1>13

-----------------------------------------------------------------------------
\* At the start there is nothing to account for.
LEMMA InitAmountInv == Init => AmountInv
<1> SUFFICES ASSUME Init PROVE AmountInv
  OBVIOUS
<1>1. IsFiniteSet(positions) /\ IsFiniteSet(fills)
  BY FS_EmptySet DEF Init
<1>2. Amounts(call, mem, rows, filled, moved)
  BY IdleAmounts DEF Init
<1>3. TablesTally(call, mem, rows, filled, moved)
  BY DEF Init, TablesTally, TallyOf
<1>4. NewPosition
  BY DEF Init, NewPosition, IdleCall
<1> QED
  BY <1>1, <1>2, <1>3, <1>4 DEF AmountInv, Amounts

\* Every step keeps the amounts in agreement.
LEMMA NextAmountInv ==
  TypeInv /\ StatusInv /\ LedgerInv /\ AmountInv /\ [Next]_vars /\ LedgerInv'
    => AmountInv'
<1> SUFFICES ASSUME TypeInv, StatusInv, LedgerInv, AmountInv, [Next]_vars, LedgerInv'
             PROVE  AmountInv'
  OBVIOUS
<1>1. CASE Client
  BY <1>1, ClientsKeepAmounts
<1>2. CASE Step
  BY <1>2, PathStepsKeepAmounts, PersistKeepsAmounts, PersistOriginalKeepsAmounts,
     CashKeepsAmounts, PositionKeepsAmounts, FillKeepsAmounts DEF Step
<1>3. CASE StoreError \/ Crash
  BY <1>3, FailuresKeepAmounts
<1>4. CASE UNCHANGED vars
  <2>1. UNCHANGED <<mem, rows, log, positions, fills, call>>
    BY <1>4 DEF vars, store
  <2>2. filled' = filled /\ moved' = moved /\ FillId' = FillId
    BY <2>1, SameAmounts DEF FillId
  <2>3. NewPosition'
    BY <2>1, <2>2 DEF AmountInv, NewPosition
  <2> QED
    BY <2>1, <2>2, <2>3 DEF AmountInv
<1> QED
  BY <1>1, <1>2, <1>3, <1>4 DEF Next

\* Errors and crashes anywhere, any number of them: the cash, fee, position and
\* fill rows of a fill agree with each other, and what an order's positions
\* moved and its fills add up to never exceeds what its row says was filled,
\* because _persist_order commits the smaller remainder before apply_fill
\* commits the first entry.
THEOREM LedgerAlwaysAgrees == Spec => []LedgerAgrees
<1>1. TypeInv /\ LedgerInv /\ AmountInv => LedgerAgrees
  <2> SUFFICES ASSUME TypeInv, LedgerInv, AmountInv PROVE LedgerAgrees
    OBVIOUS
  <2>1. LedgerRowsAgree
    BY DEF LedgerInv
  <2>2. ASSUME NEW o \in Ids, rows[o] # NoOrder
        PROVE  /\ MovedBy(o) <= rows[o].size - rows[o].remaining_size
               /\ FilledOf(o) <= MovedBy(o)
    <3>1. filled[o] = FilledOf(o) /\ moved[o] = MovedBy(o)
      BY DEF filled, moved
    <3> QED
      BY <2>2, <3>1, NeverShort DEF Taken
  <2> QED
    BY <2>1, <2>2 DEF LedgerAgrees, LedgerNeverExceedsRow
<1> QED
  BY <1>1, InitTypeInv, NextTypeInv, InitRiskInv, NextRiskInv, InitLedgerInv,
     NextLedgerInv, InitStatusInv, NextStatusInv, InitAmountInv, NextAmountInv, PTL
  DEF Spec

-----------------------------------------------------------------------------
(***************************************************************************)
(* Orders at rest, with a store that does not fail: the only stored status *)
(* that does not rest is the one of the order the call is about to move.   *)
(***************************************************************************)
Rests(s) ==
  s \in {"ABSENT", "OPEN", "PARTIALLY_FILLED", "REPLACE_REQUESTED"}
        \cup TerminalStatus

OnTheWay(c, o) ==
  /\ o = c.id
  /\ \/ c.pc = "log" /\ c.order.status \in {"ACCEPTED", "CANCEL_REQUESTED"}
     \/ c.pc = "row" /\ c.order.status \in {"OPEN", "CANCELED"}

RestInv == \A o \in Ids : Rests(stored[o]) \/ OnTheWay(call, o)

\* A call's step leaves at rest what it is not about to move.
LEMMA StepsKeepRest ==
  ASSUME TypeInv, StatusInv, RestInv, Step
  PROVE  RestInv'
<1>0. /\ CallOK(call) /\ call \in CallType /\ stored \in StatusMap
      /\ OrderPhase(call, stored, live) /\ OriginalPhase(call, stored, live)
  BY StatusMapType DEF TypeInv, CallOK, StatusInv, Phases
<1>1. CASE PersistOrder
  <2>1. /\ call.pc \in {"row", "fill_row"} /\ call.id \in Ids
        /\ call.order \in SimulatedOrder /\ Persist(call.id, call.order)
    BY <1>0, <1>1 DEF PersistOrder, WriteOrder, Now, CallOK
  <2>2. stored' = [stored EXCEPT ![call.id] = call.order.status]
    BY <2>1, PersistMaps
  <2>3. /\ stored'[call.id] = call.order.status
        /\ \A o \in Ids : o # call.id => Rests(stored'[o])
    BY <1>0, <2>1, <2>2 DEF RestInv, OnTheWay, StatusMap
  <2>4. CASE Now("row")
    <3>1. call.pc = "row" /\ call' = [call EXCEPT !.pc = "log"]
      BY <1>1, <2>4 DEF PersistOrder, Now
    <3>2. call'.pc = "log" /\ call'.id = call.id /\ call'.order = call.order
      BY <1>0, <3>1 DEF CallType
    <3>3. \/ Rests(call.order.status)
          \/ call.order.status \in {"ACCEPTED", "CANCEL_REQUESTED"}
      BY <1>0, <3>1 DEF OrderPhase, NextRow, Rests, TerminalStatus
    <3> QED
      BY <2>3, <3>2, <3>3 DEF RestInv, OnTheWay
  <2>5. CASE Now("fill_row")
    <3>1. Rests(call.order.status)
      BY <1>0, <2>5 DEF OrderPhase, Now, Rests, TerminalStatus
    <3> QED
      BY <2>3, <3>1 DEF RestInv
  <2> QED
    BY <2>1, <2>4, <2>5 DEF Now
<1>2. CASE InsertTransition
  <2>1. stored' = stored
    BY <1>2, SameMaps DEF InsertTransition, WriteTransition, AppendTransition
  <2>2. \A o \in Ids : o # call.id => Rests(stored[o])
    BY DEF RestInv, OnTheWay
  <2>3. CASE Now("log") /\ call.order.status \in {"ACCEPTED", "CANCEL_REQUESTED"}
    <3>1. PICK s \in {"OPEN", "CANCELED"} : call' = MoveTo(call, s)
      BY <1>2, <2>3 DEF InsertTransition, AfterTransition
    <3>2. /\ call.pc # "idle" /\ s \in OrderStatus /\ call.order \in SimulatedOrder
      BY <1>0, <2>3 DEF Now, OrderStatus, CallOK
    <3>3. call'.pc = "row" /\ call'.id = call.id /\ call'.order.status = s
      BY <1>0, <3>1, <3>2, MoveToOK, TransitionType
    <3> QED
      BY <2>1, <2>2, <3>3 DEF RestInv, OnTheWay
  <2>4. CASE ~(Now("log") /\ call.order.status \in {"ACCEPTED", "CANCEL_REQUESTED"})
    <3>1. call.pc \in {"log", "fill_log"}
      BY <1>2 DEF InsertTransition, WriteTransition, Now
    <3> QED
      BY <2>1, <2>4, <3>1 DEF RestInv, OnTheWay, Now
  <2> QED
    BY <2>3, <2>4
<1>3. CASE PersistOriginal
  <2>1. /\ call.pc = "orig_row" /\ call.orig \in Ids /\ call.original \in SimulatedOrder
        /\ Persist(call.orig, call.original)
        /\ call.original.status \in {"REPLACE_REQUESTED", "REPLACED"}
    BY <1>0, <1>3 DEF PersistOriginal, WriteOriginal, Now, CallOK, OriginalPhase
  <2>2. stored' = [stored EXCEPT ![call.orig] = call.original.status]
    BY <2>1, PersistMaps
  <2>3. \A o \in Ids : Rests(stored[o])
    BY <2>1 DEF RestInv, OnTheWay
  <2>4. Rests(call.original.status)
    BY <2>1 DEF Rests, TerminalStatus
  <2> QED
    BY <1>0, <2>1, <2>2, <2>3, <2>4 DEF RestInv, StatusMap
<1>4. CASE UNCHANGED <<mem, rows>> /\ call.pc \notin {"row", "log"}
  BY <1>4, SameMaps DEF RestInv, OnTheWay
<1> QED
  BY <1>1, <1>2, <1>3, <1>4
  DEF Step, InsertRiskDecision, WriteDecision, InsertOriginalTransition,
      WriteOriginalTransition, AppendTransition, InsertCashEntry, WriteCash, InsertCash,
      InsertFeeEntry, WriteFee, InsertPositionEntry, WritePosition, InsertFill,
      WriteFill, InsertValuation, WriteValuation, Now

\* Every step of an exchange whose store does not fail.
LEMMA NextRestInv ==
  ASSUME Faults = {}
  PROVE  TypeInv /\ StatusInv /\ RestInv /\ [Next]_vars => RestInv'
<1> SUFFICES ASSUME TypeInv, StatusInv, RestInv, [Next]_vars PROVE RestInv'
  OBVIOUS
<1>1. CASE Client
  <2>1. UNCHANGED <<mem, rows>> /\ call.pc = "idle"
    BY <1>1
    DEF Client, SubmitOrderIntent, StartSubmit, CancelOrder, ReplaceOrder, store, Now
  <2> QED
    BY <2>1, SameMaps DEF RestInv, OnTheWay
<1>2. CASE Step
  BY <1>2, StepsKeepRest
<1>3. CASE UNCHANGED vars
  BY <1>3, SameMaps DEF vars, store, RestInv, OnTheWay
<1>4. ~StoreError /\ ~Crash
  BY DEF StoreError, Crash
<1> QED
  BY <1>1, <1>2, <1>3, <1>4 DEF Next

\* With a store that does not fail, whenever no call is in progress: every
\* stored order rests (it is terminal, on the book, or an original whose
\* replacement did not go through), and what its row says was filled, its fills
\* and its position movements are the same number of shares.
THEOREM OrdersAlwaysSettle ==
  ASSUME Faults = {}
  PROVE  Spec => []OrdersSettle
<1>1. TypeInv /\ AmountInv /\ RestInv => OrdersSettle
  <2> SUFFICES ASSUME TypeInv, AmountInv, RestInv, Now("idle"), NEW o \in Ids,
                      rows[o] # NoOrder
               PROVE  /\ rows[o].status \in TerminalStatus \cup
                           {"OPEN", "PARTIALLY_FILLED", "REPLACE_REQUESTED"}
                      /\ FilledOf(o) = rows[o].size - rows[o].remaining_size
                      /\ MovedBy(o) = FilledOf(o)
    BY DEF OrdersSettle, OrdersRest, FillsAccountForTheRow
  <2>1. call.pc = "idle" /\ rows[o] \in SimulatedOrder
    BY DEF Now, TypeInv, TypeOK, Optional
  <2>2. stored[o] = rows[o].status /\ rows[o].status # "ABSENT"
    BY <2>1 DEF stored, StoredStatus, SimulatedOrder, OrderStatus
  <2>3. Rests(rows[o].status)
    BY <2>1, <2>2 DEF RestInv, OnTheWay
  <2>4. Tally(Taken(rows[o]), filled[o], moved[o])
    BY <2>1 DEF AmountInv, TablesTally, TallyOf, FillStage
  <2>5. /\ filled[o] = FilledOf(o) /\ moved[o] = MovedBy(o)
        /\ filled[o] \in Nat /\ moved[o] \in Nat
    BY AmountType DEF AmountInv
  <2> DEFINE f == filled[o]
             m == moved[o]
             n == Taken(rows[o])
  <2>6. f \in Nat /\ m \in Nat /\ f <= m /\ m <= n /\ f = n
    BY <2>4, <2>5 DEF Tally
  <2> HIDE DEF f, m, n
  <2>7. f = n /\ m = f
    BY <2>6
  <2> QED
    BY <2>2, <2>3, <2>5, <2>7 DEF f, m, n, Taken, Rests
<1>2. TypeInv /\ StatusInv /\ RestInv /\ [Next]_vars => RestInv'
  BY NextRestInv
<1>3. Init => RestInv
  BY DEF Init, RestInv, stored, StoredStatus, Rests
<1> QED
  BY <1>1, <1>2, <1>3, InitTypeInv, NextTypeInv, InitRiskInv, NextRiskInv, InitLedgerInv,
     NextLedgerInv, InitStatusInv, NextStatusInv, InitAmountInv, NextAmountInv, PTL
  DEF Spec

=============================================================================
