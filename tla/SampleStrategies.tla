--------------------------- MODULE SampleStrategies ---------------------------
(***************************************************************************)
(* The strategies of strategy/scheduled.py and strategy/default_probe.py   *)
(* as pure operators on their state: [order, cycles, emitted].             *)
(*                                                                         *)
(* cycles are the TokenCycleState of the stress strategy, order the tokens *)
(* in the order of that dict; emitted are the tokens the other two have    *)
(* sent a signal for.  A stage is the number of signals sent.  Times are   *)
(* in units of 10 seconds and exposures in percent.                        *)
(*                                                                         *)
(* What a strategy reads of the market data is one value:                  *)
(*   "open"     nothing against an order                                   *)
(*   "closed"   not active or not accepting orders                         *)
(*   "flagged"  expiry_critical, liquidity_critical, new_order_blocked, or *)
(*              a new_order_status of partially_blocked or fully_blocked   *)
(*   "thin"     liquidity or volume below the minima of the probe          *)
(***************************************************************************)
EXTENDS Integers, Sequences, FiniteSets

MarketFlags == {"open", "closed", "flagged", "thin"}

\* PROFILE_CONFIGS
Profiles ==
  [light |-> [targets |-> <<5, 8, 10, 0>>, interval |-> 3, trigger |-> 3, active |-> 10],
   medium |-> [targets |-> <<5, 10, 3, 0>>, interval |-> 2, trigger |-> 2, active |-> 10],
   heavy |-> [targets |-> <<3, 12, 6, 15, 0>>, interval |-> 1, trigger |-> 1, active |-> 20]]

\* The profile of a strategy made without arguments, as load_object does, where
\* the config names none.
DefaultProfile == "medium"

\* _resolve_profile_config: an override replaces interval, trigger or active.
ResolveProfile(profile, overrides) ==
  LET base == Profiles[profile] IN
  [f \in DOMAIN base |-> IF f \in DOMAIN overrides THEN overrides[f] ELSE base[f]]

FreshCycle ==
  [stage |-> 0, target |-> 0, at |-> 0, events |-> 0, complete |-> FALSE, data |-> "open"]

\* on_init
FreshState == [order |-> <<>>, cycles |-> <<>>, emitted |-> {}]

Signal(token, target, ts) == [token |-> token, target |-> target, ts |-> ts]

-----------------------------------------------------------------------------
(***************************************************************************)
(* ScheduledBootstrapStressStrategy.                                       *)
(***************************************************************************)
\* _has_open_exposure_block
Blocked(data) == data \in {"closed", "flagged"}

Active(cycles) == {t \in DOMAIN cycles : cycles[t].stage > 0 /\ ~cycles[t].complete}

\* _can_start_new_cycle
CanStartNewCycle(config, cycles, token, data) ==
  /\ ~Blocked(data)
  /\ Cardinality(Active(cycles) \ {token}) < config.active

\* The interval must have passed, not just elapsed.
ReadyForNextStageLater(config, cycle, ts) ==
  ts - cycle.at > config.interval \/ cycle.events >= config.trigger

\* _ready_for_next_stage
ReadyForNextStage(config, cycle, ts) ==
  ts - cycle.at >= config.interval \/ cycle.events >= config.trigger

\* _blocks_increase
BlocksIncrease(config, cycle, data) ==
  config.targets[cycle.stage + 1] > cycle.target /\ Blocked(data)

Advances(config, cycles, token, ts, data) ==
  LET cycle == cycles[token] IN
  /\ cycle.stage < Len(config.targets)
  /\ IF cycle.stage = 0 THEN CanStartNewCycle(config, cycles, token, data)
     ELSE ReadyForNextStage(config, cycle, ts)
  /\ ~BlocksIncrease(config, cycle, data)

\* _advance_if_due, with the data to decide on in the cycle.  The result is
\* the state and the signals.
AdvanceIfDue(config, state, token, ts) ==
  LET cycle == state.cycles[token]
      target == config.targets[cycle.stage + 1]
      sent == [cycle EXCEPT !.stage = @ + 1, !.target = target, !.at = ts, !.events = 0,
                            !.complete = target = 0] IN
  IF ~Advances(config, state.cycles, token, ts, cycle.data)
  THEN <<[state EXCEPT !.cycles[token].complete =
            @ \/ cycle.stage >= Len(config.targets)], <<>>>>
  ELSE <<[state EXCEPT !.cycles[token] = sent], <<Signal(token, target, ts)>>>>

WithCycle(cycles, token, cycle) ==
  [t \in DOMAIN cycles \cup {token} |-> IF t = token THEN cycle ELSE cycles[t]]

\* The data of the event used up by the event.
KnowingOnce(state, token, data) ==
  LET known == token \in DOMAIN state.cycles
      cycle == IF known THEN state.cycles[token] ELSE FreshCycle
      noted == [cycle EXCEPT !.data = IF known THEN @ ELSE data, !.events = @ + 1] IN
  [state EXCEPT !.order = IF known THEN @ ELSE Append(@, token),
                !.cycles = WithCycle(@, token, noted)]

\* The setdefault of on_event and what it notes of the event.
Knowing(state, token, data) ==
  LET known == token \in DOMAIN state.cycles
      cycle == IF known THEN state.cycles[token] ELSE FreshCycle
      noted == [cycle EXCEPT !.data = data, !.events = @ + 1] IN
  [state EXCEPT !.order = IF known THEN @ ELSE Append(@, token),
                !.cycles = WithCycle(@, token, noted)]

StressOnEvent(config, state, token, ts, data) ==
  AdvanceIfDue(config, Knowing(state, token, data), token, ts)

\* on_clock: the tokens in order, each on the last data it had an event with
\* and on what the tokens before it have started.
ClockStep(config, pass, token, ts) ==
  LET next == AdvanceIfDue(config, pass[1], token, ts)
  IN  IF pass[1].cycles[token].complete THEN pass
      ELSE <<next[1], pass[2] \o next[2]>>

StressOnClock(config, state, ts) ==
  LET pass[n \in 0 .. Len(state.order)] ==
        IF n = 0 THEN <<state, <<>>>>
        ELSE ClockStep(config, pass[n - 1], state.order[n], ts)
  IN  pass[Len(state.order)]

-----------------------------------------------------------------------------
(***************************************************************************)
(* ScheduledBootstrapStrategy and DefaultProbeStrategy: one signal for a   *)
(* token, then none.                                                       *)
(***************************************************************************)
Emit(state, token, target, ts) ==
  <<[state EXCEPT !.emitted = @ \cup {token}], <<Signal(token, target, ts)>>>>

BootstrapOnEvent(state, token, ts, data) ==
  IF token \in state.emitted \/ data = "closed" THEN <<state, <<>>>>
  ELSE Emit(state, token, 2, ts)

\* Only what is held counts, not what has been signalled.
CanProbeHeldOnly(config, state, token, held, data) ==
  /\ data = "open"
  /\ Cardinality(held) < config.positions
  /\ token \notin held

\* _can_probe: a token that is held and was signalled counts twice.
CanProbe(config, state, token, held, data) ==
  /\ data = "open"
  /\ Cardinality(held) + Cardinality(state.emitted) < config.positions
  /\ token \notin held

ProbeOnEvent(config, state, token, ts, held, data) ==
  IF token \in state.emitted \/ ~CanProbe(config, state, token, held, data)
  THEN <<state, <<>>>>
  ELSE Emit(state, token, config.stake, ts)

=============================================================================
