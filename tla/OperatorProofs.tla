----------------------------- MODULE OperatorProofs -----------------------------
(***************************************************************************)
(* The operator console for every set of runs, every way the connections   *)
(* may come and go and every market snapshot: types, the switches of the   *)
(* mode, and the gate of the safety assessment.                            *)
(*                                                                         *)
(* That a switch is sound does not follow from the step alone: the         *)
(* preflight was run some steps before, on other connections.  SwitchInv   *)
(* adds that what a preflight allowed has been possible since, and that    *)
(* what is possible now is on record.  The gate is a fact of one snapshot, *)
(* proved for each kind of alert (which of the two critical scopes it      *)
(* occupies, and when) and put together over the union of all kinds.       *)
(***************************************************************************)
EXTENDS OperatorConsole, TLAPS

SwitchInv ==
  /\ PossibleNow(links) \subseteq possible
  /\ preflight # Nothing /\ preflight.allowed => preflight.target \in possible

ConsoleInv == TypeOK /\ SwitchInv

-----------------------------------------------------------------------------
(***************************************************************************)
(* The modes a preflight allows.                                           *)
(***************************************************************************)
LEMMA PreflightType ==
  ASSUME NEW target \in Modes, NEW l \in Links
  PROVE  Preflight(target, l, {}) \in [target : Modes, allowed : BOOLEAN]
  BY DEF Preflight

\* Without alerts a preflight allows what the connections make possible.
LEMMA PreflightAllowsThePossible ==
  ASSUME NEW target \in Modes, NEW l \in Links, Preflight(target, l, {}).allowed
  PROVE  target \in PossibleNow(l)
<1>1. Preflight(target, l, {}).target = target
  BY DEF Preflight
<1>2. CASE target = "live-disabled"
  BY <1>2 DEF PossibleNow
<1>3. CASE target # "live-disabled"
  <2>1. \A c \in Required(target) : c \in DOMAIN l /\ l[c] # "down"
    BY <1>3 DEF Preflight
  <2>2. \A c \in DOMAIN l : l[c] \in ConnectionStatuses
    BY ConsoleAssumption
  <2>3. \A c \in Required(target) : c \in DOMAIN l /\ l[c] \in {"healthy", "degraded"}
    BY <2>1, <2>2 DEF ConnectionStatuses
  <2> QED
    BY <2>3 DEF PossibleNow, Possible, Required
<1> QED
  BY <1>2, <1>3

-----------------------------------------------------------------------------
(***************************************************************************)
(* The steps of the console keep the invariant.                            *)
(***************************************************************************)
LEMMA InitConsole == Init => ConsoleInv
  BY DEF Init, ConsoleInv, SwitchInv, TypeOK, Modes, PossibleNow

\* A switch puts every run into the new mode.
LEMMA SetGlobalModeRows ==
  ASSUME TypeOK, NEW m \in Modes, SetGlobalMode(m)
  PROVE  /\ mode' \in Modes
         /\ runs' \in [Runs -> {Nothing} \cup RunRows]
         /\ \A r \in Runs : runs'[r] # Nothing => runs'[r].mode = mode'
<1>1. \A r \in Runs : runs[r] # Nothing => [runs[r] EXCEPT !.mode = m] \in RunRows
  BY DEF TypeOK, RunRows
<1>2. \A r \in Runs : runs[r] # Nothing => [runs[r] EXCEPT !.mode = m].mode = m
  BY DEF TypeOK, RunRows
<1> QED
  BY <1>1, <1>2 DEF SetGlobalMode

\* Starting a run adds a live row with the mode of the console.
LEMMA StartRunRows ==
  ASSUME TypeOK, NEW r \in Runs, NEW local \in Locals, StartRun(r, local)
  PROVE  /\ mode' \in Modes
         /\ runs' \in [Runs -> {Nothing} \cup RunRows]
         /\ \A x \in Runs : runs'[x] # Nothing => runs'[x].mode = mode'
         /\ ~Live(r) /\ Live(r)'
<1> DEFINE row == [mode |-> mode', local |-> local, state |-> "starting", over |-> FALSE]
<1>1. mode' \in Modes
  BY DEF StartRun, ModeForRun, Modes
<1>2. row \in RunRows /\ row.mode = mode' /\ ~row.over
  BY <1>1 DEF RunRows, RunStates
<1>3. \A x \in Runs : runs[x] # Nothing =>
        [runs[x] EXCEPT !.mode = mode'] \in RunRows /\ [runs[x] EXCEPT !.mode = mode'].mode = mode'
  BY <1>1 DEF TypeOK, RunRows
<1>4. runs' = [x \in Runs |->
                 IF x = r THEN row
                 ELSE IF runs[x] = Nothing THEN Nothing ELSE [runs[x] EXCEPT !.mode = mode']]
  BY DEF StartRun
<1> HIDE DEF row
<1>5. runs'[r] = row /\ row # Nothing
  BY <1>2, <1>4, ConsoleAssumption
<1>6. ~Live(r) /\ Live(r)'
  BY <1>2, <1>5 DEF StartRun, Live
<1> QED
  BY <1>1, <1>2, <1>3, <1>4, <1>6

\* A run that beats, ends or fails stays a run.
LEMMA EndRunRows ==
  ASSUME TypeOK, NEW r \in Runs, Heartbeat(r) \/ FinishRun(r) \/ FailRun(r)
  PROVE  runs' \in [Runs -> {Nothing} \cup RunRows]
<1>1. runs[r] \in RunRows
  BY DEF TypeOK, Heartbeat, FinishRun, FailRun, Live
<1>2. \A s \in RunStates, o \in BOOLEAN :
        /\ [runs[r] EXCEPT !.state = s] \in RunRows
        /\ [runs[r] EXCEPT !.state = s, !.over = o] \in RunRows
  BY <1>1 DEF RunRows
<1>3. CASE Heartbeat(r)
  BY <1>2, <1>3, ZenonT(60) DEF Heartbeat, TypeOK, RunStates
<1>4. CASE FinishRun(r)
  BY <1>2, <1>4 DEF FinishRun, TypeOK, RunStates
<1>5. CASE FailRun(r)
  BY <1>2, <1>5 DEF FailRun, TypeOK, RunStates
<1> QED
  BY <1>3, <1>4, <1>5

\* Every step of the console keeps the invariant.
LEMMA NextConsole == ConsoleInv /\ [Next]_vars => ConsoleInv'
<1> SUFFICES ASSUME ConsoleInv, [Next]_vars PROVE ConsoleInv'
  OBVIOUS
<1> USE DEF ConsoleInv
<1>1. ASSUME NEW s \in Snapshots, Assess(s) PROVE ConsoleInv'
  BY <1>1 DEF Assess, TypeOK, SwitchInv
<1>2. ASSUME assessed' = Nothing, NEW r \in Runs, NEW local \in Locals, StartRun(r, local)
      PROVE  ConsoleInv'
  BY <1>2, StartRunRows DEF StartRun, TypeOK, SwitchInv
<1>3. ASSUME assessed' = Nothing, NEW r \in Runs, Heartbeat(r) \/ FinishRun(r) \/ FailRun(r)
      PROVE  ConsoleInv'
  <2>1. UNCHANGED <<links, mode, preflight, possible>>
    BY <1>3 DEF Heartbeat, FinishRun, FailRun
  <2> QED
    BY <1>3, <2>1, EndRunRows DEF TypeOK, SwitchInv
<1>4. ASSUME assessed' = Nothing, NEW target \in Modes, RunPreflight(target)
      PROVE  ConsoleInv'
  <2>1. preflight' \in [target : Modes, allowed : BOOLEAN] /\ preflight'.target = target
    BY <1>4, PreflightType DEF RunPreflight, TypeOK, Preflight
  <2>2. preflight'.allowed => target \in PossibleNow(links)
    BY <1>4, PreflightAllowsThePossible DEF RunPreflight, TypeOK
  <2> QED
    BY <1>4, <2>1, <2>2 DEF RunPreflight, TypeOK, SwitchInv
<1>5. ASSUME assessed' = Nothing, ConfirmModeSwitch PROVE ConsoleInv'
  <2>1. preflight.target \in Modes
    BY <1>5 DEF ConfirmModeSwitch, TypeOK
  <2> QED
    BY <1>5, <2>1, SetGlobalModeRows DEF ConfirmModeSwitch, TypeOK, SwitchInv
<1>6. ASSUME assessed' = Nothing, LinksChange PROVE ConsoleInv'
  <2>1. PossibleNow(links') \subseteq Modes
    BY DEF PossibleNow
  <2> QED
    BY <1>6, <2>1 DEF LinksChange, TypeOK, SwitchInv
<1>7. CASE UNCHANGED vars
  BY <1>7 DEF vars, TypeOK, SwitchInv
<1> QED
  BY <1>1, <1>2, <1>3, <1>4, <1>5, <1>6, <1>7 DEF Next

\* Registry, session and connections keep their types.
THEOREM ConsoleTypeCorrect == Spec => []TypeOK
<1>1. ConsoleInv => TypeOK
  BY DEF ConsoleInv
<1> QED
  BY InitConsole, NextConsole, <1>1, PTL DEF Spec

\* operator_console_app.confirm_mode_switch sets the mode a preflight allowed
\* at some earlier time; each run shows the new mode, and a switch that starts
\* no run goes only to a mode whose connections were once all there.
THEOREM ConsoleSwitchesSound == Spec => SwitchesAreSound
<1> DEFINE Sound ==
      mode' # mode =>
        /\ \A r \in Runs : runs'[r] # Nothing => runs'[r].mode = mode'
        /\ (\A r \in Runs : ~Live(r) => ~Live(r)') => mode' \in possible
<1>1. ConsoleInv /\ [Next]_vars => [Sound]_vars
  <2> SUFFICES ASSUME ConsoleInv, [Next]_vars, mode' # mode PROVE Sound
    OBVIOUS
  <2>1. ASSUME NEW r \in Runs, NEW local \in Locals, StartRun(r, local) PROVE Sound
    BY <2>1, StartRunRows DEF ConsoleInv
  <2>2. ASSUME ConfirmModeSwitch PROVE Sound
    <3>1. preflight.target \in Modes /\ preflight.target \in possible
      BY <2>2 DEF ConfirmModeSwitch, ConsoleInv, TypeOK, SwitchInv
    <3>2. mode' = preflight.target
      BY <2>2 DEF ConfirmModeSwitch, SetGlobalMode
    <3> QED
      BY <2>2, <3>1, <3>2, SetGlobalModeRows DEF ConfirmModeSwitch, ConsoleInv
  <2> QED
    BY <2>1, <2>2
    DEF Next, vars, Assess, Heartbeat, FinishRun, FailRun, RunPreflight, LinksChange
<1> QED
  BY InitConsole, NextConsole, <1>1, PTL DEF Spec, SwitchesAreSound

-----------------------------------------------------------------------------
(***************************************************************************)
(* The alerts: which scope each kind blocks, and when.                     *)
(***************************************************************************)
Blocked(alerts, scope) == Blockers(alerts, scope) # {}
All == "all_new_orders"
More == "increase_exposure"

\* One alert blocks its own scope, if it is critical.
LEMMA BlockedOne ==
  ASSUME NEW alert, NEW scope
  PROVE  Blocked({alert}, scope) <=> alert.severity = "Critical" /\ alert.scope = scope
  BY DEF Blocked, Blockers

\* No alerts block nothing.
LEMMA BlockedNone ==
  ASSUME NEW scope
  PROVE  ~Blocked({}, scope)
  BY DEF Blocked, Blockers

\* The severities and scopes of the alerts.
LEMMA Scopes ==
  ASSUME NEW code
  PROVE  /\ StopsAll(code).severity = "Critical" /\ StopsAll(code).scope = All
         /\ StopsIncrease(code).severity = "Critical" /\ StopsIncrease(code).scope = More
         /\ Display(code, "Warning").severity # "Critical"
         /\ Display(code, "Info").severity # "Critical"
         /\ All # More
  BY DEF StopsAll, StopsIncrease, Display, Alert, All, More

\* What stops all orders blocks them alone, and likewise what stops more
\* exposure; what is displayed blocks nothing.
LEMMA BlockedAlerts ==
  ASSUME NEW code
  PROVE  /\ Blocked({StopsAll(code)}, All) /\ ~Blocked({StopsAll(code)}, More)
         /\ ~Blocked({StopsIncrease(code)}, All) /\ Blocked({StopsIncrease(code)}, More)
         /\ \A scope : /\ ~Blocked({Display(code, "Warning")}, scope)
                       /\ ~Blocked({Display(code, "Info")}, scope)
  BY BlockedOne, Scopes

\* A set of alerts is blocked where one of two parts is.
LEMMA BlockedUnion ==
  ASSUME NEW A, NEW B, NEW scope
  PROVE  Blocked(A \cup B, scope) <=> Blocked(A, scope) \/ Blocked(B, scope)
  BY DEF Blocked, Blockers

\* A graded alert blocks an increase of exposure exactly when it is critical.
LEMMA GradedBlocks ==
  ASSUME NEW warning, NEW critical \in BOOLEAN, NEW name
  PROVE  /\ ~Blocked(Graded(warning, critical, name), All)
         /\ Blocked(Graded(warning, critical, name), More) <=> critical
<1>1. CASE critical
  <2>1. Graded(warning, critical, name) = {StopsIncrease(name)}
    BY <1>1 DEF Graded
  <2> QED
    BY <1>1, <2>1, BlockedAlerts
<1>2. CASE ~critical
  <2>1. Graded(warning, critical, name) \in {{}, {Display(name, "Warning")}}
    BY <1>2 DEF Graded, If
  <2> QED
    BY <1>2, <2>1, BlockedNone, BlockedAlerts
<1> QED
  BY <1>1, <1>2

\* The state of the market blocks all orders exactly when it is not tradable.
LEMMA MarketStateBlocks ==
  ASSUME NEW s \in SafetySnapshots
  PROVE  /\ Blocked(MarketStateAlerts(s), All) <=> ~s.active \/ ~s.accepting \/ ~s.available
         /\ ~Blocked(MarketStateAlerts(s), More)
<1> DEFINE closed == If(~s.active, StopsAll("MARKET_CLOSED"))
           refuses == If(~s.accepting, StopsAll("MARKET_NOT_ACCEPTING_ORDERS"))
           elsewhere == If(~s.available, StopsAll("MODE_UNAVAILABLE"))
<1>1. (Blocked(closed, All) <=> ~s.active) /\ ~Blocked(closed, More)
  <2>1. closed = IF s.active THEN {} ELSE {StopsAll("MARKET_CLOSED")}
    BY DEF If
  <2> QED
    BY <2>1, BlockedNone, BlockedAlerts
<1>2. (Blocked(refuses, All) <=> ~s.accepting) /\ ~Blocked(refuses, More)
  <2>1. refuses = IF s.accepting THEN {} ELSE {StopsAll("MARKET_NOT_ACCEPTING_ORDERS")}
    BY DEF If
  <2> QED
    BY <2>1, BlockedNone, BlockedAlerts
<1>3. (Blocked(elsewhere, All) <=> ~s.available) /\ ~Blocked(elsewhere, More)
  <2>1. elsewhere = IF s.available THEN {} ELSE {StopsAll("MODE_UNAVAILABLE")}
    BY DEF If
  <2> QED
    BY <2>1, BlockedNone, BlockedAlerts
<1>4. MarketStateAlerts(s) = (closed \cup refuses) \cup elsewhere
  BY DEF MarketStateAlerts
<1> HIDE DEF closed, refuses, elsewhere
<1>5. \A scope : Blocked(MarketStateAlerts(s), scope)
                   <=> Blocked(closed \cup refuses, scope) \/ Blocked(elsewhere, scope)
  BY <1>4, BlockedUnion
<1>6. \A scope : Blocked(closed \cup refuses, scope)
                   <=> Blocked(closed, scope) \/ Blocked(refuses, scope)
  BY BlockedUnion
<1>7. /\ Blocked(MarketStateAlerts(s), All)
           <=> Blocked(closed, All) \/ Blocked(refuses, All) \/ Blocked(elsewhere, All)
      /\ Blocked(MarketStateAlerts(s), More)
           <=> Blocked(closed, More) \/ Blocked(refuses, More) \/ Blocked(elsewhere, More)
  BY <1>5, <1>6
<1> QED
  BY <1>1, <1>2, <1>3, <1>7

\* The connections block all orders exactly when one is down or unknown.
LEMMA ConnectionBlocks ==
  ASSUME NEW l \in Links
  PROVE  /\ Blocked(ConnectionAlerts(l), All)
              <=> \E c \in Components : c \notin DOMAIN l \/ l[c] = "down"
         /\ ~Blocked(ConnectionAlerts(l), More)
<1> DEFINE missing == If(~(Components \subseteq DOMAIN l), StopsAll("KEY_CONNECTION_INCOMPLETE"))
           down == {StopsAll(c) : c \in {x \in DOMAIN l : l[x] = "down"}}
           degraded == {Display(c, "Warning") : c \in {x \in DOMAIN l : l[x] = "degraded"}}
<1>1. \A scope : Blocked(ConnectionAlerts(l), scope)
                   <=> Blocked(missing, scope) \/ Blocked(down, scope) \/ Blocked(degraded, scope)
  BY BlockedUnion DEF ConnectionAlerts
<1>2. /\ Blocked(missing, All) <=> ~(Components \subseteq DOMAIN l)
      /\ ~Blocked(missing, More)
  <2>1. CASE Components \subseteq DOMAIN l
    <3>1. missing = {}
      BY <2>1 DEF If
    <3> QED
      BY <2>1, <3>1, BlockedNone
  <2>2. CASE ~(Components \subseteq DOMAIN l)
    <3>1. missing = {StopsAll("KEY_CONNECTION_INCOMPLETE")}
      BY <2>2 DEF If
    <3> QED
      BY <2>2, <3>1, BlockedAlerts
  <2> QED
    BY <2>1, <2>2
<1>3. /\ Blocked(down, All) <=> \E c \in DOMAIN l : l[c] = "down"
      /\ ~Blocked(down, More)
  BY Scopes DEF Blocked, Blockers
<1>4. ~Blocked(degraded, All) /\ ~Blocked(degraded, More)
  BY Scopes DEF Blocked, Blockers
<1>5. DOMAIN l \subseteq Components
  BY ConsoleAssumption
<1> HIDE DEF missing, down, degraded
<1> QED
  BY <1>1, <1>2, <1>3, <1>4, <1>5

\* The expiry blocks an increase exactly within the last 15 minutes.
LEMMA ExpiryBlocks ==
  ASSUME NEW s \in SafetySnapshots
  PROVE  /\ ~Blocked(ExpiryAlerts(s), All)
         /\ Blocked(ExpiryAlerts(s), More) <=> s.expiry # Unknown /\ s.expiry < 15
<1>1. CASE s.expiry = Unknown
  BY <1>1, BlockedNone DEF ExpiryAlerts
<1>2. CASE s.expiry # Unknown /\ s.expiry < 15
  <2>1. ExpiryAlerts(s) = {StopsIncrease("EXPIRY_CRITICAL")}
    BY <1>2, ConsoleAssumption DEF ExpiryAlerts, SafetySnapshots
  <2> QED
    BY <1>2, <2>1, BlockedAlerts
<1>3. CASE s.expiry # Unknown /\ ~(s.expiry < 15)
  <2>1. ExpiryAlerts(s) \in {{}, {Display("EXPIRY_WARNING", "Warning")},
                             {Display("EXPIRY_INFO", "Info")}}
    BY <1>3 DEF ExpiryAlerts
  <2> QED
    BY <1>3, <2>1, BlockedNone, BlockedAlerts
<1> QED
  BY <1>1, <1>2, <1>3

\* The spread blocks an increase exactly when it is wide in cents and in ticks.
LEMMA SpreadBlocks ==
  ASSUME NEW s \in SafetySnapshots
  PROVE  /\ ~Blocked(SpreadAlerts(s), All)
         /\ Blocked(SpreadAlerts(s), More)
              <=> /\ s.bid # Unknown /\ s.ask # Unknown
                  /\ s.ask - s.bid > 50 /\ s.ask - s.bid > 5 * s.tick
<1> DEFINE wide == (s.bid # Unknown /\ s.ask # Unknown) /\ s.ask - s.bid > Larger(5 * s.tick, 50)
<1>1. wide <=> /\ s.bid # Unknown /\ s.ask # Unknown
               /\ s.ask - s.bid > 50 /\ s.ask - s.bid > 5 * s.tick
  BY DEF SafetySnapshots, Larger
<1>2. wide \in BOOLEAN
  OBVIOUS
<1> QED
  BY <1>1, <1>2, GradedBlocks DEF SpreadAlerts

\* The depth that counts: what was measured, or the smaller side that is known.
ThinTop(s) ==
  \/ s.topDepth # Unknown /\ s.topDepth < s.minSize
  \/ s.topDepth = Unknown /\ \E d \in {s.bidDepth, s.askDepth} : d # Unknown /\ d < s.minSize

\* The depth blocks an increase exactly when the top of the book is thin.
LEMMA DepthBlocks ==
  ASSUME NEW s \in SafetySnapshots
  PROVE  /\ ~Blocked(DepthAlerts(s), All)
         /\ Blocked(DepthAlerts(s), More) <=> ThinTop(s)
<1> DEFINE depth == IF s.topDepth # Unknown THEN s.topDepth ELSE InferTopDepth(s)
           thin == depth # Unknown /\ depth < s.minSize
<1>1. thin <=> ThinTop(s)
  <2>1. CASE s.topDepth # Unknown
    BY <2>1 DEF ThinTop
  <2>2. CASE s.topDepth = Unknown /\ s.bidDepth = Unknown
    BY <2>2 DEF ThinTop, InferTopDepth
  <2>3. CASE s.topDepth = Unknown /\ s.bidDepth # Unknown /\ s.askDepth = Unknown
    BY <2>3 DEF ThinTop, InferTopDepth
  <2>4. CASE s.topDepth = Unknown /\ s.bidDepth # Unknown /\ s.askDepth # Unknown
    <3>1. InferTopDepth(s) = Smaller(s.bidDepth, s.askDepth)
      BY <2>4 DEF InferTopDepth
    <3>2. s.bidDepth \in Nat /\ s.askDepth \in Nat /\ s.minSize \in Nat
      BY <2>4 DEF SafetySnapshots
    <3>3. Smaller(s.bidDepth, s.askDepth) # Unknown
      BY <3>2, ConsoleAssumption DEF Smaller
    <3> QED
      BY <2>4, <3>1, <3>2, <3>3 DEF ThinTop, Smaller
  <2> QED
    BY <2>1, <2>2, <2>3, <2>4
<1>2. thin \in BOOLEAN
  OBVIOUS
<1> QED
  BY <1>1, <1>2, GradedBlocks DEF DepthAlerts

\* Activity blocks an increase exactly when the last trade is old or unknown.
LEMMA ActivityBlocks ==
  ASSUME NEW s \in SafetySnapshots
  PROVE  /\ ~Blocked(ActivityAlerts(s), All)
         /\ Blocked(ActivityAlerts(s), More) <=> s.idle = Unknown \/ s.idle >= 15
<1> DEFINE critical == s.idle = Unknown \/ s.idle >= 15
<1>1. critical \in BOOLEAN
  OBVIOUS
<1> QED
  BY <1>1, GradedBlocks DEF ActivityAlerts

\* Filled gaps block an increase exactly from the fourth on.
LEMMA GapFillBlocks ==
  ASSUME NEW s \in SafetySnapshots
  PROVE  /\ ~Blocked(GapFillAlerts(s), All)
         /\ Blocked(GapFillAlerts(s), More) <=> s.gaps > 3
<1> DEFINE warning == s.gaps > 0
           critical == s.gaps > 3
<1>1. warning \in BOOLEAN /\ critical \in BOOLEAN
  OBVIOUS
<1>2. GapFillAlerts(s) = Graded(warning, critical, "GAP_FILL")
  BY DEF GapFillAlerts
<1> HIDE DEF warning, critical
<1>3. /\ ~Blocked(GapFillAlerts(s), All)
      /\ Blocked(GapFillAlerts(s), More) <=> critical
  BY <1>1, <1>2, GradedBlocks
<1> QED
  BY <1>3 DEF critical

\* A book with a side that is empty, or ten times smaller than the other.
Lopsided(s) ==
  /\ s.bid # Unknown /\ s.ask # Unknown /\ s.bidDepth # Unknown /\ s.askDepth # Unknown
  /\ \/ 0 \in {s.bidDepth, s.askDepth}
     \/ s.bidDepth >= 10 * s.askDepth \/ s.askDepth >= 10 * s.bidDepth

\* The book blocks an increase exactly when it is empty or lopsided.
LEMMA BookBlocks ==
  ASSUME NEW s \in SafetySnapshots
  PROVE  /\ ~Blocked(BookAlerts(s), All)
         /\ Blocked(BookAlerts(s), More)
              <=> (s.bid = Unknown /\ s.ask = Unknown) \/ Lopsided(s)
<1>1. CASE s.bid = Unknown /\ s.ask = Unknown
  <2>1. BookAlerts(s) = {StopsIncrease("BOOK")}
    BY <1>1 DEF BookAlerts
  <2> QED
    BY <1>1, <2>1, BlockedAlerts
<1>2. CASE (s.bid = Unknown) # (s.ask = Unknown)
  <2>1. BookAlerts(s) = {Display("BOOK", "Warning")}
    BY <1>2 DEF BookAlerts
  <2> QED
    BY <1>2, <2>1, BlockedAlerts DEF Lopsided
<1>3. CASE s.bid # Unknown /\ s.ask # Unknown /\ (s.bidDepth = Unknown \/ s.askDepth = Unknown)
  <2>1. BookAlerts(s) = {Display("BOOK", "Warning")}
    BY <1>3 DEF BookAlerts
  <2> QED
    BY <1>3, <2>1, BlockedAlerts DEF Lopsided
<1>4. CASE s.bid # Unknown /\ s.ask # Unknown /\ s.bidDepth # Unknown /\ s.askDepth # Unknown
  <2> DEFINE small == Smaller(s.bidDepth, s.askDepth)
             large == Larger(s.bidDepth, s.askDepth)
             bad == small = 0 \/ (small > 0 /\ large >= 10 * small)
  <2>1. BookAlerts(s) = If(bad, StopsIncrease("BOOK"))
    BY <1>4 DEF BookAlerts
  <2>2. s.bidDepth \in Nat /\ s.askDepth \in Nat
    BY <1>4 DEF SafetySnapshots
  <2>3. bad <=> Lopsided(s)
    BY <1>4, <2>2 DEF Lopsided, Smaller, Larger
  <2> HIDE DEF bad
  <2>4. BookAlerts(s) = IF bad THEN {StopsIncrease("BOOK")} ELSE {}
    BY <2>1 DEF If
  <2> QED
    BY <1>4, <2>3, <2>4, BlockedNone, BlockedAlerts
<1> QED
  BY <1>1, <1>2, <1>3, <1>4

-----------------------------------------------------------------------------
\* Over all kinds: what blocks everything, and what blocks more exposure.
LEMMA EvaluationBlocks ==
  ASSUME NEW s \in SafetySnapshots, links \in Links
  PROVE  /\ Blocked(Evaluate(s, links), All) <=> OutOfReach(s)
         /\ Blocked(Evaluate(s, links), More) <=> Risky(s)
<1> DEFINE kinds == {MarketStateAlerts(s), ConnectionAlerts(links), ExpiryAlerts(s),
                     SpreadAlerts(s), DepthAlerts(s), ActivityAlerts(s), GapFillAlerts(s),
                     BookAlerts(s)}
<1>1. \A scope : Blocked(UNION kinds, scope) <=> \E k \in kinds : Blocked(k, scope)
  <2> HIDE DEF kinds
  <2> QED
    BY DEF Blocked, Blockers
<1>2. \A scope : Blocked(Evaluate(s, links), scope)
        <=> \/ Blocked(MarketStateAlerts(s), scope) \/ Blocked(ConnectionAlerts(links), scope)
            \/ Blocked(ExpiryAlerts(s), scope) \/ Blocked(SpreadAlerts(s), scope)
            \/ Blocked(DepthAlerts(s), scope) \/ Blocked(ActivityAlerts(s), scope)
            \/ Blocked(GapFillAlerts(s), scope) \/ Blocked(BookAlerts(s), scope)
  <2> HIDE DEF kinds
  <2>1. Evaluate(s, links) = UNION kinds
    BY DEF Evaluate, kinds
  <2> QED
    BY <1>1, <2>1 DEF kinds
<1>3. Blocked(Evaluate(s, links), All) <=> OutOfReach(s)
  BY <1>2, MarketStateBlocks, ConnectionBlocks, ExpiryBlocks, SpreadBlocks, DepthBlocks,
     ActivityBlocks, GapFillBlocks, BookBlocks DEF OutOfReach
<1>4. Risky(s) <=> \/ s.expiry # Unknown /\ s.expiry < 15
                   \/ s.idle = Unknown \/ s.idle >= 15
                   \/ s.gaps > 3
                   \/ s.bid = Unknown /\ s.ask = Unknown
                   \/ /\ s.bid # Unknown /\ s.ask # Unknown
                      /\ s.ask - s.bid > 50 /\ s.ask - s.bid > 5 * s.tick
                   \/ ThinTop(s) \/ Lopsided(s)
  BY DEF Risky, Thin, ThinTop, Lopsided
<1>5. Blocked(Evaluate(s, links), More) <=> Risky(s)
  BY <1>2, <1>4, MarketStateBlocks, ConnectionBlocks, ExpiryBlocks, SpreadBlocks, DepthBlocks,
     ActivityBlocks, GapFillBlocks, BookBlocks
<1> QED
  BY <1>3, <1>5

\* OperatorSafetyService.evaluate and gate_action, for every snapshot and all
\* connections: cancel always passes, exposure is reduced unless market or
\* connections are out of reach, and grows only where nothing critical is
\* known; the state shown says the same.
THEOREM ConsoleGateFits == Spec => []GateFitsTheMarket
<1>1. TypeOK => GateFitsTheMarket
  <2> SUFFICES ASSUME TypeOK, assessed # Nothing PROVE GateFitsTheMarket
    BY DEF GateFitsTheMarket
  <2> DEFINE alerts == Evaluate(assessed, links)
  <2>1. assessed \in SafetySnapshots /\ links \in Links
    BY ConsoleAssumption DEF TypeOK
  <2>2. /\ Blockers(alerts, "all_new_orders") # {} <=> OutOfReach(assessed)
        /\ Blockers(alerts, "increase_exposure") # {} <=> Risky(assessed)
    BY <2>1, EvaluationBlocks DEF Blocked, All, More
  <2> HIDE DEF alerts
  <2>3. Gate(alerts, "cancel")
    BY DEF Gate
  <2>4. \A a \in {"reduce", "close", "risk_release"} :
          Gate(alerts, a) <=> ~OutOfReach(assessed)
    BY <2>2 DEF Gate
  <2>5. \A a \in {"increase_exposure", "replace"} :
          Gate(alerts, a) <=> ~OutOfReach(assessed) /\ ~Risky(assessed)
    BY <2>2 DEF Gate
  <2>6. /\ (BlockState(alerts) = "allowed") <=> Gate(alerts, "increase_exposure")
        /\ (BlockState(alerts) = "fully blocked") <=> ~Gate(alerts, "reduce")
    BY DEF BlockState, Gate
  <2> QED
    BY <2>3, <2>4, <2>5, <2>6 DEF GateFitsTheMarket, alerts
<1> QED
  BY ConsoleTypeCorrect, <1>1, PTL

=============================================================================
