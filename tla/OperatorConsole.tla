---------------------------- MODULE OperatorConsole ----------------------------
(***************************************************************************)
(* The runtime registry (services/operator_runtime_registry.py) and the    *)
(* operator console beside the runs that publish into it                   *)
(* (strategy_cli.py, realtime_strategy_runner.py): the operator runs a     *)
(* preflight and confirms it later, while runs start, beat and end and     *)
(* connections come and go.                                                *)
(*                                                                         *)
(* A safety assessment of a market reads only the snapshot and the         *)
(* connections, so it is taken while the registry is empty and is gone     *)
(* with the next step: nothing else depends on it.                         *)
(***************************************************************************)
EXTENDS OperatorSafety, TLC

CONSTANTS
  Runs,          \* the run ids
  Links,         \* the connections the provider may report
  Snapshots,     \* the market snapshots to assess
  Nothing        \* no run, no preflight, no assessment

RunStates == {"starting", "running", "finished", "error"}
Locals == {"replay", "research", "realtime_paper"}
RunRows == [mode : Modes, local : Locals, state : RunStates, over : BOOLEAN]

\* MarketSafetySnapshot, in the units of OperatorSafety.
SafetySnapshots ==
  [active : BOOLEAN, accepting : BOOLEAN, available : BOOLEAN,
   bid : Int \cup {Unknown}, ask : Int \cup {Unknown}, tick : Nat, minSize : Nat,
   bidDepth : Nat \cup {Unknown}, askDepth : Nat \cup {Unknown},
   topDepth : Nat \cup {Unknown},
   expiry : Int \cup {Unknown}, idle : Int \cup {Unknown}, gaps : Nat]

ASSUME ConsoleAssumption ==
  /\ \A l \in Links : DOMAIN l \subseteq Components /\ l \in [DOMAIN l -> ConnectionStatuses]
  /\ Snapshots \subseteq SafetySnapshots
  /\ Unknown \notin Int
  /\ Nothing \notin RunRows

VARIABLES
  links,       \* connections_provider()
  mode,        \* the global mode of the registry
  runs,        \* its runs: [mode, local, state, over]
  preflight,   \* mode_preflight_result of the session
  assessed,    \* the snapshot assessed last
  possible     \* the modes that could have been entered at some moment so far

vars == <<links, mode, runs, preflight, assessed, possible>>

\* Every component the mode needs is connected and not down.
Possible(m, connections) ==
  \A c \in {"DB", "RISK"} \cup IF m = "paper" THEN {"MARKET_DATA_WS", "EXECUTION"} ELSE {} :
    c \in DOMAIN connections /\ connections[c] \in {"healthy", "degraded"}

PossibleNow(connections) == {m \in Modes : m = "live-disabled" \/ Possible(m, connections)}

Init ==
  /\ links \in Links
  /\ mode = "live-disabled"
  /\ runs = [r \in Runs |-> Nothing]
  /\ preflight = Nothing
  /\ assessed = Nothing
  /\ possible = PossibleNow(links)

-----------------------------------------------------------------------------
\* A switch the runs are not told of.
SetGlobalModeOnly(m) == mode' = m /\ runs' = runs

\* set_global_mode: the mode of the registry and of every run in it.
SetGlobalMode(m) ==
  /\ mode' = m
  /\ runs' = [r \in Runs |-> IF runs[r] = Nothing THEN Nothing
                             ELSE [runs[r] EXCEPT !.mode = m]]

Live(r) == runs[r] # Nothing /\ ~runs[r].over

ModeForRun(local) == IF local = "realtime_paper" THEN "paper" ELSE "replay"

\* _publish_run_start: the global mode follows the run, with no preflight.  A
\* configured run id may be used again and replaces the row of the run before.
StartRun(r, local) ==
  /\ ~Live(r)
  /\ mode' = ModeForRun(local)
  /\ runs' = [x \in Runs |->
                IF x = r THEN [mode |-> mode', local |-> local, state |-> "starting", over |-> FALSE]
                ELSE IF runs[x] = Nothing THEN Nothing ELSE [runs[x] EXCEPT !.mode = mode']]
  /\ UNCHANGED <<links, preflight, possible>>

\* _publish_runtime_state of the realtime runner, the last one from on_finish.
Heartbeat(r) ==
  /\ Live(r) /\ runs[r].local = "realtime_paper" /\ runs[r].state \in {"starting", "running"}
  /\ \E s \in {"running", "finished"} : runs' = [runs EXCEPT ![r].state = s]
  /\ UNCHANGED <<links, mode, preflight, possible>>

\* _publish_run_finish: a realtime run is finished by its runner before.
FinishRun(r) ==
  /\ Live(r)
  /\ runs[r].state = IF runs[r].local = "realtime_paper" THEN "finished" ELSE "starting"
  /\ runs' = [runs EXCEPT ![r].state = "finished", ![r].over = TRUE]
  /\ UNCHANGED <<links, mode, preflight, possible>>

\* _publish_run_failure: the run, or the collection of its results, raised.
FailRun(r) ==
  /\ Live(r)
  /\ runs' = [runs EXCEPT ![r].state = "error", ![r].over = TRUE]
  /\ UNCHANGED <<links, mode, preflight, possible>>

\* The console: the preflight is kept in the session until the next one.
RunPreflight(target) ==
  /\ preflight' = Preflight(target, links, {})
  /\ UNCHANGED <<links, mode, runs, possible>>

\* confirm_mode_switch, with the box ticked.
ConfirmModeSwitch ==
  /\ preflight # Nothing /\ preflight.allowed
  /\ SetGlobalMode(preflight.target)
  /\ UNCHANGED <<links, preflight, possible>>

Assess(s) ==
  /\ \A r \in Runs : runs[r] = Nothing
  /\ preflight = Nothing /\ assessed = Nothing
  /\ assessed' = s
  /\ UNCHANGED <<links, mode, runs, preflight, possible>>

LinksChange ==
  /\ links' \in Links
  /\ possible' = possible \cup PossibleNow(links')
  /\ UNCHANGED <<mode, runs, preflight>>

Next ==
  \/ \E s \in Snapshots : Assess(s)
  \/ /\ assessed' = Nothing
     /\ \/ \E r \in Runs, local \in Locals : StartRun(r, local)
        \/ \E r \in Runs : Heartbeat(r) \/ FinishRun(r) \/ FailRun(r)
        \/ \E target \in Modes : RunPreflight(target)
        \/ ConfirmModeSwitch
        \/ LinksChange

Spec == Init /\ [][Next]_vars

-----------------------------------------------------------------------------
(***************************************************************************)
(* Properties.                                                             *)
(***************************************************************************)
TypeOK ==
  /\ links \in Links /\ mode \in Modes
  /\ runs \in [Runs -> {Nothing} \cup RunRows]
  /\ preflight \in {Nothing} \cup [target : Modes, allowed : BOOLEAN]
  /\ assessed \in {Nothing} \cup Snapshots
  /\ possible \subseteq Modes

\* The facts that must stop every new order, and those that must stop more
\* exposure; said of the snapshot, not of the alerts.
OutOfReach(s) ==
  \/ ~s.active \/ ~s.accepting \/ ~s.available
  \/ \E c \in Components : c \notin DOMAIN links \/ links[c] = "down"

Thin(s) ==
  \/ s.bid = Unknown /\ s.ask = Unknown
  \/ s.bid # Unknown /\ s.ask # Unknown /\ s.ask - s.bid > 50 /\ s.ask - s.bid > 5 * s.tick
  \/ s.topDepth # Unknown /\ s.topDepth < s.minSize
  \/ s.topDepth = Unknown /\ \E d \in {s.bidDepth, s.askDepth} : d # Unknown /\ d < s.minSize
  \/ /\ s.bid # Unknown /\ s.ask # Unknown /\ s.bidDepth # Unknown /\ s.askDepth # Unknown
     /\ \/ 0 \in {s.bidDepth, s.askDepth}
        \/ s.bidDepth >= 10 * s.askDepth \/ s.askDepth >= 10 * s.bidDepth

Risky(s) ==
  \/ s.expiry # Unknown /\ s.expiry < 15
  \/ s.idle = Unknown \/ s.idle >= 15
  \/ s.gaps > 3
  \/ Thin(s)

\* However many alerts come together: orders can always be canceled, exposure
\* can be reduced unless the market or a connection is out of reach, and it
\* grows only where nothing critical is known.  What is shown agrees.
GateFitsTheMarket ==
  assessed # Nothing =>
    LET alerts == Evaluate(assessed, links) IN
    /\ Gate(alerts, "cancel")
    /\ \A a \in {"reduce", "close", "risk_release"} :
         Gate(alerts, a) <=> ~OutOfReach(assessed)
    /\ \A a \in {"increase_exposure", "replace"} :
         Gate(alerts, a) <=> ~OutOfReach(assessed) /\ ~Risky(assessed)
    /\ (BlockState(alerts) = "allowed") <=> Gate(alerts, "increase_exposure")
    /\ (BlockState(alerts) = "fully blocked") <=> ~Gate(alerts, "reduce")

\* After a switch every run shows the new mode, and the operator cannot have
\* switched to a mode whose connections were never all there, though the
\* preflight may be older than the connections, the runs and other switches.
SwitchesAreSound ==
  [][mode' # mode =>
       /\ \A r \in Runs : runs'[r] # Nothing => runs'[r].mode = mode'
       /\ (\A r \in Runs : ~Live(r) => ~Live(r)') => mode' \in possible]_vars

=============================================================================
