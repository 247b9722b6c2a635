------------------------------ MODULE StrategyRun ------------------------------
(***************************************************************************)
(* A run of one of the sample strategies over a list of market events: as  *)
(* ReplayRuntime.run (services/replay_runtime.py) replays them, sorted and *)
(* with clock ticks in between, or as run_realtime_paper                   *)
(* (services/strategy_cli.py) passes them on, as they come and without a   *)
(* clock.                                                                  *)
(*                                                                         *)
(* The events are the staged events of an automated run (StagedBooks),     *)
(* whose markets are all open, or a feed of another caller, in any order   *)
(* and with markets in any state at any event.  Positions come from fills, *)
(* which only a realtime run has, during the call that sent the signal.    *)
(***************************************************************************)
EXTENDS StagedBooks, SampleStrategies

CONSTANTS
  Tokens,      \* the tokens of the universe, in order
  Replies,     \* what the CLOB may return: a book, or NoBook, for each token
  Feeds,       \* the lists of events of other callers: sequences of [token, ts]
  Kinds,       \* the strategies
  Configured,  \* the strategy sections of the configs: [profile, overrides]
  NoProfile,   \* the profile of a section without stress_profile
  Positions,   \* max_positions of the probe
  Stake,       \* stake_per_trade
  Starts,      \* the times the first event may have
  TimeStep     \* step_interval

ConfigOf(section) ==
  LET profiled == section.profile # NoProfile
      stress == ResolveProfile(IF profiled THEN section.profile ELSE DefaultProfile,
                               section.overrides) IN
  [profiled |-> profiled, targets |-> stress.targets, interval |-> stress.interval,
   trigger |-> stress.trigger, active |-> stress.active, positions |-> Positions, stake |-> Stake]

Configs == {ConfigOf(section) : section \in Configured}

ASSUME StrategyRunAssumption ==
  /\ Kinds \subseteq {"stress", "probe", "bootstrap"}
  /\ TimeStep \in Nat \ {0} /\ Positions \in Nat /\ Stake \in Nat /\ Starts \subseteq Nat
  /\ \A c \in Configured :
       /\ c.profile \in {"light", "medium", "heavy", NoProfile}
       /\ DOMAIN c.overrides \subseteq {"interval", "trigger", "active"}
       /\ \A f \in DOMAIN c.overrides : c.overrides[f] \in Nat

TokenSet == {Tokens[i] : i \in DOMAIN Tokens}

\* A universe of different tokens, their books, and feeds of events on them;
\* a replay of no events is refused.
ASSUME FeedsAssumption ==
  /\ Tokens \in Seq(TokenSet) /\ Tokens # <<>>
  /\ \A i, j \in DOMAIN Tokens : Tokens[i] = Tokens[j] => i = j
  /\ \A books \in Replies, t \in TokenSet : books[t] = NoBook \/ IsBook(books[t])
  /\ \A feed \in Feeds : feed # <<>> /\ feed \in Seq([token : TokenSet, ts : Nat])

VARIABLES
  config,    \* the resolved config
  kind,      \* the strategy
  replay,    \* whether the run is a replay
  staged,    \* whether the events are the staged ones
  events,    \* the events in the order of delivery
  next,      \* index of the next event
  tick,      \* next_tick of a replay
  calls,     \* the times the strategy was called with
  state,     \* the state of the strategy
  held,      \* the tokens with a position
  data,      \* the market data each token last had an event with
  signals    \* the signals, each with the data its token had then

vars == <<config, kind, replay, staged, events, next, tick, calls, state, held, data, signals>>
run == <<config, kind, replay, staged, events>>

-----------------------------------------------------------------------------
\* Without the +1: a tick at the first event when that lies on the grid.
AlignFirstTickOnGrid(ts) == (ts \div TimeStep) * TimeStep

\* _align_first_tick: the first multiple of the step after the first event.
AlignFirstTick(ts) == (ts \div TimeStep + 1) * TimeStep

\* sorted(events, key=ts) is stable: by time, then by place.
Ordered(list) ==
  LET places == SortedPlaces(DOMAIN list, [i \in DOMAIN list |-> list[i].ts])
  IN  [k \in DOMAIN places |-> list[places[k]]]

FirstTs(list) == list[1].ts
LastTs == events[Len(events)].ts

\* The stages of the strategy, profile or not.
StageCountOfTargets == Len(config.targets)

\* _bootstrap_stage_offsets: without a stress_profile there is one stage, also
\* for the stress strategy, which then takes the default profile.
StageCount == IF config.profiled THEN Len(config.targets) ELSE 1

StagedLists == {BootstrapEvents(Tokens, books, start, config.interval, StageCount) :
                  books \in Replies, start \in Starts}

Init ==
  /\ config \in Configs /\ kind \in Kinds /\ replay \in BOOLEAN /\ staged \in BOOLEAN
  /\ \E list \in IF staged THEN StagedLists ELSE Feeds :
       events = IF replay THEN Ordered(list) ELSE list
  /\ next = 1
  /\ tick = AlignFirstTick(FirstTs(events))
  /\ calls = <<>>
  /\ state = FreshState
  /\ held = {}
  /\ data = [t \in TokenSet |-> "open"]
  /\ signals = <<>>

-----------------------------------------------------------------------------
\* The ticks before the next event, and after the last one up to its time.
TickDue ==
  replay /\ IF next <= Len(events) THEN tick < events[next].ts ELSE tick <= LastTs

\* A call of the strategy: the signals it returns join those of the run.
Noted(list, seen) ==
  [i \in DOMAIN list |-> [signal |-> list[i], data |-> seen[list[i].token]]]

Called(ts, result, seen) ==
  /\ state' = result[1]
  /\ calls' = Append(calls, ts)
  /\ signals' = signals \o Noted(result[2], seen)

OnEvent(e, flag) ==
  CASE kind = "stress" -> StressOnEvent(config, state, e.token, e.ts, flag)
    [] kind = "probe" -> ProbeOnEvent(config, state, e.token, e.ts, held, flag)
    [] kind = "bootstrap" -> BootstrapOnEvent(state, e.token, e.ts, flag)

\* filled: the order of the signal is filled at once, at least in part.
DeliverEvent(flag, filled) ==
  LET e == events[next]
      result == OnEvent(e, flag) IN
  /\ next <= Len(events) /\ ~TickDue
  /\ staged => flag = "open"
  /\ data' = [data EXCEPT ![e.token] = flag]
  /\ Called(e.ts, result, data')
  /\ filled => ~replay /\ result[2] # <<>>
  /\ held' = IF filled THEN held \cup {e.token} ELSE held
  /\ next' = next + 1
  /\ UNCHANGED <<run, tick>>

\* on_clock: only the stress strategy does something with it.
DeliverTick ==
  /\ TickDue
  /\ Called(tick, IF kind = "stress" THEN StressOnClock(config, state, tick)
                  ELSE <<state, <<>>>>, data)
  /\ tick' = tick + TimeStep
  /\ UNCHANGED <<run, next, held, data>>

Next == DeliverTick \/ \E flag \in MarketFlags, filled \in BOOLEAN : DeliverEvent(flag, filled)

Spec == Init /\ [][Next]_vars

-----------------------------------------------------------------------------
(***************************************************************************)
(* Properties.                                                             *)
(***************************************************************************)
TypeOK ==
  /\ kind \in Kinds /\ replay \in BOOLEAN /\ staged \in BOOLEAN
  /\ next \in 1 .. Len(events) + 1 /\ tick \in Nat
  /\ DOMAIN state.cycles \subseteq TokenSet
  /\ {state.order[i] : i \in DOMAIN state.order} = DOMAIN state.cycles
  /\ held \subseteq TokenSet /\ data \in [TokenSet -> MarketFlags]

Done == next > Len(events) /\ ~TickDue

\* The signals of a token, and which of them signal i is.
SignalsOf(token) == {i \in DOMAIN signals : signals[i].signal.token = token}
Place(i) == Cardinality({j \in SignalsOf(signals[i].signal.token) : j <= i})

\* A book an order can be filled from: not crossed, each side sorted, the best
\* prices those of the levels, and enough depth there.
CanFill(p) ==
  /\ 0 < p.bid /\ p.bid < p.ask /\ p.bid <= p.mid /\ p.mid <= p.ask
  /\ p.levels.bids[1].price = p.bid /\ p.levels.asks[1].price = p.ask
  /\ \A i, j \in DOMAIN p.levels.bids :
       i < j => p.levels.bids[i].price >= p.levels.bids[j].price
  /\ \A i, j \in DOMAIN p.levels.asks :
       i < j => p.levels.asks[i].price <= p.levels.asks[j].price
  /\ ~Below(p.levels.bids[1], StageDepth(p.stage), p.bid)
  /\ ~Below(p.levels.asks[1], StageDepth(p.stage), p.ask)

\* Invented best prices on the tick, around the price they were invented for and
\* less than a tick out of 0.01 .. 0.99; a tick above a cent can make them 0 or 1.
Surrounds(p) ==
  /\ p.bid % p.tick = 0 /\ p.ask % p.tick = 0 /\ p.bid < p.ask
  /\ p.bid <= p.last /\ p.last <= p.ask
  /\ 0 <= p.bid /\ Lowest - p.tick < p.bid /\ p.ask < Highest + p.tick

\* The book of one staged event, returned or invented.
ShowsABook(p) ==
  /\ p.source = "clob_augmented" \/ Cent % p.tick = 0 => CanFill(p)
  /\ p.source = "synthetic_staged" => Surrounds(p)

\* A book of two sides that the CLOB returned stays one an order can be filled
\* from at every stage, whatever its tick.  So is a book that was invented for
\* a token, if the tick divides a cent (0.01, 0.001, 0.0001).  With another tick
\* (0.1) the rounding after the clamp can give a bid of 0 or an ask of 1.00 and
\* a second level before the first: all that holds then is Surrounds.
StagedBooksAreBooks ==
  staged => \A k \in DOMAIN events : ShowsABook(events[k].payload)

\* In a replay time never goes back for the strategy, and by the end it has
\* seen every multiple of the step after the first event up to the last.
ReplayKeepsTime ==
  replay =>
    /\ \A i \in DOMAIN calls : i > 1 => calls[i - 1] <= calls[i]
    /\ Done => Len(calls) = Len(events) + LastTs \div TimeStep
                              - FirstTs(events) \div TimeStep

\* A signal that raises the exposure of a token is never sent while the last
\* news of that token is against it, whether an event or the clock caused it.
RaisesOnlyWhenOpen ==
  kind # "bootstrap" =>
    \A i \in DOMAIN signals :
      LET earlier == {j \in SignalsOf(signals[i].signal.token) : j < i}
          before == IF earlier = {} THEN 0
                    ELSE signals[CHOOSE j \in earlier : \A k \in earlier : k <= j].signal.target
      IN  signals[i].signal.target > before => ~Blocked(signals[i].data)

\* The stress strategy sends the targets of a token in their order, and every
\* staged event moves its token on.  So a config that names a stress_profile
\* takes each token through all its stages to the signal of the exit, and one
\* that does not, to the signal of the entry and no further: it leaves an
\* exposure that nothing in the run asks to close.  This as long as there is
\* room: a replay, and a run that never exits, have no more tokens than may be
\* active at once, and another realtime run may have one.
CyclesComplete ==
  kind = "stress" =>
    /\ \A i \in DOMAIN signals :
         /\ Place(i) <= Len(config.targets)
         /\ signals[i].signal.target = config.targets[Place(i)]
    /\ staged /\ Done
       /\ (IF replay \/ ~config.profiled THEN Len(Tokens) ELSE 1) <= config.active =>
         \A t \in TokenSet : Cardinality(SignalsOf(t)) =
           IF config.profiled THEN Len(config.targets) ELSE 1

\* The stress strategy keeps to its number of active tokens and the probe to
\* its number of positions, though several tokens may move in one call and
\* fills come after signals or not at all.
ExposureIsLimited ==
  /\ Cardinality(Active(state.cycles)) <= config.active
  /\ kind = "probe" => Cardinality(held \cup state.emitted) <= Positions

=============================================================================
