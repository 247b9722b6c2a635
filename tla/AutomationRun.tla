----------------------------- MODULE AutomationRun -----------------------------
(***************************************************************************)
(* One automation process: AutomationCliService.run_resolved               *)
(* (services/automation_cli.py) runs AutomationRunner.run                  *)
(* (services/automation_runner.py, automation_tasks.py), whose tasks are   *)
(* the market sync, the health check, the batch of strategy runs           *)
(* (strategy_cli.py with its OperatorRuntimeRegistry) and the report, and  *)
(* ends with the dashboard snapshot (dashboard_snapshot.py).               *)
(*                                                                         *)
(* Beside it somebody may run a strategy by hand: that process writes the  *)
(* bundle of the run id of its config, and writes it again when it is run  *)
(* again.  Runs of the automation have an id of their own each.            *)
(***************************************************************************)
EXTENDS MarketSync, RunBundles

CONSTANTS
  Plans,             \* the enabled tasks a process may be started with
  StrategyCount,     \* the enabled strategies
  MinToExpiry, MaxToExpiry,   \* the window of near_expiry, in clock units
  MaxStarts,         \* bound of the automation processes
  MaxManual,         \* bound of the runs by hand
  NoMarket, NoRun

Automation == "automation"
Manual == "manual"
ManualId == 0

TaskNames == {"market_sync", "health_check", "strategy_batch", "report"}

ASSUME AutomationAssumption ==
  /\ Writers = {Automation, Manual}
  /\ RunIds = 0..(MaxStarts * StrategyCount) /\ NoRun \notin RunIds
  /\ StrategyCount \in Nat /\ MaxStarts \in Nat
  \* The tasks of a process are among those of AutomationConfig, each once.
  /\ \A plan \in Plans :
       /\ plan \in Seq(TaskNames)
       /\ \A i, j \in DOMAIN plan : plan[i] = plan[j] => i = j

VARIABLES
  auto,       \* the local state of the process
  registry,   \* its OperatorRuntimeRegistry: the state of each run
  results,    \* its task results
  framework,  \* the automation bundle: what of it is on disk
  reports,    \* the reports on disk, and the index
  snapshot,   \* latest_snapshot.json
  starts,     \* the processes started, automation and by hand
  nextId      \* the next fresh run id

process == <<auto, registry, results>>
outputs == <<framework, reports, snapshot>>
vars == <<exchange, rows, sync, bundles, process, outputs, starts, nextId>>

\* todo are the tasks ahead; left, id, market and ids belong to the batch: the
\* strategies ahead, the run in progress, the run_ids and whether one failed.
OffAuto ==
  [stage |-> "off", todo |-> <<>>, left |-> 0, id |-> NoRun, market |-> NoMarket,
   ids |-> <<>>, failed |-> FALSE]

Result(task, ok, ids) == [task |-> task, status |-> IF ok THEN "success" ELSE "failed",
                          ids |-> ids]

NoRuns == [r \in RunIds |-> "none"]

Init ==
  /\ SyncInit /\ BundlesInit
  /\ auto = OffAuto
  /\ registry = NoRuns
  /\ results = <<>>
  /\ framework = "none"
  /\ reports = [files |-> {}, index |-> {}]
  /\ snapshot = NoRun
  /\ starts = [p \in Writers |-> 0]
  /\ nextId = 1

-----------------------------------------------------------------------------
(***************************************************************************)
(* Selecting a market (prepare_strategy_raw_config).                       *)
(***************************************************************************)
InWindow(m) == EndDate[m] >= clock + MinToExpiry /\ EndDate[m] <= clock + MaxToExpiry

\* The window, and without any market in it whatever ends late enough.
NearExpiry ==
  LET near == {m \in ListMarkets : InWindow(m)} IN
  IF near # {} THEN near ELSE {m \in ListMarkets : EndDate[m] >= clock + MinToExpiry}

\* scored are the markets with a good enough book; when there is none, or the
\* books could not be fetched, all candidates count.
SelectNearExpiry(scored) ==
  LET pool == IF NearExpiry \cap scored # {} THEN NearExpiry \cap scored ELSE NearExpiry IN
  IF pool = {} THEN {NoMarket}
  ELSE {m \in pool : \A o \in pool : EndDate[m] <= EndDate[o]}

-----------------------------------------------------------------------------
(***************************************************************************)
(* The process.                                                            *)
(***************************************************************************)
At(stage) == auto.stage = stage
GoTo(stage) ==
  auto' = [auto EXCEPT !.stage = stage] /\ UNCHANGED <<registry, results>>

\* The process is gone, and what it kept in memory.
Exit == auto' = OffAuto /\ registry' = NoRuns /\ results' = <<>>

\* run_resolved: a registry of its own and a fresh automation id.
StartAutomation(plan) ==
  /\ At("off") /\ starts[Automation] < MaxStarts
  /\ auto' = [OffAuto EXCEPT !.stage = "task", !.todo = plan]
  /\ framework' = "none"
  /\ starts' = [starts EXCEPT ![Automation] = @ + 1]
  /\ UNCHANGED <<exchange, rows, sync, bundles, registry, results, reports, snapshot, nextId>>

Task == IF auto.todo = <<>> THEN "end" ELSE Head(auto.todo)

\* A task is over: log its result and go on with the next.
TaskDone(result) ==
  /\ results' = Append(results, result)
  /\ auto' = [auto EXCEPT !.stage = "task", !.todo = Tail(@)]

SyncTask ==
  /\ At("task") /\ Task = "market_sync"
  /\ StartSync /\ GoTo("sync")
  /\ UNCHANGED <<exchange, rows, bundles, outputs, starts, nextId>>

RunSync(ok) ==
  /\ At("sync") /\ SyncStep(ok)
  /\ UNCHANGED <<bundles, process, outputs, starts, nextId>>

SyncDone ==
  /\ At("sync") /\ sync.stage = "done"
  /\ TaskDone(Result("market_sync", sync.ok, <<>>))
  /\ sync' = IdleSync
  /\ UNCHANGED <<exchange, rows, bundles, registry, outputs, starts, nextId>>

\* status_band over the manifests: it fails when one cannot be read.  The
\* global mode and the connections never stop this process.
HealthTask ==
  /\ At("task") /\ Task = "health_check"
  /\ TaskDone(Result("health_check", ManifestsReadable, <<>>))
  /\ UNCHANGED <<exchange, rows, sync, bundles, registry, outputs, starts, nextId>>

\* _strategy_prerequisites_ok: what this process has seen, no other.
PrerequisitesOk == \A i \in DOMAIN results : results[i].status # "failed"

BatchTask ==
  /\ At("task") /\ Task = "strategy_batch"
  /\ IF PrerequisitesOk /\ StrategyCount > 0
     THEN /\ auto' = [auto EXCEPT !.stage = "prepare", !.left = StrategyCount,
                        !.ids = <<>>, !.failed = FALSE]
          /\ UNCHANGED results
     ELSE TaskDone([task |-> "strategy_batch", status |-> "skipped", ids |-> <<>>])
  /\ UNCHANGED <<exchange, rows, sync, bundles, registry, outputs, starts, nextId>>

\* The except of the batch: the next strategy, whatever this one left behind.
StrategyFails ==
  auto' = [auto EXCEPT !.stage = "next", !.id = NoRun, !.failed = TRUE]

\* The run id reported as soon as the run has been published.
PrepareReportsEarly(ok) ==
  /\ At("prepare")
  /\ \/ /\ ~ok
        /\ StrategyFails /\ UNCHANGED <<registry, nextId>>
     \/ /\ ok
        /\ \E scored \in SUBSET Markets : \E m \in SelectNearExpiry(scored) :
             auto' = [auto EXCEPT !.stage = "run", !.id = nextId, !.market = m,
                        !.ids = Append(@, nextId)]
        /\ registry' = [registry EXCEPT ![nextId] = "starting"]
        /\ nextId' = nextId + 1
  /\ UNCHANGED <<exchange, rows, sync, bundles, results, outputs, starts>>

\* _execute_strategy up to _publish_run_start: the config may fail to load, a
\* market is selected, assign_unique_strategy_run_id takes a fresh id.
Prepare(ok) ==
  /\ At("prepare")
  /\ \/ /\ ~ok
        /\ StrategyFails /\ UNCHANGED <<registry, nextId>>
     \/ /\ ok
        /\ \E scored \in SUBSET Markets : \E m \in SelectNearExpiry(scored) :
             auto' = [auto EXCEPT !.stage = "run", !.id = nextId, !.market = m]
        /\ registry' = [registry EXCEPT ![nextId] = "starting"]
        /\ nextId' = nextId + 1
  /\ UNCHANGED <<exchange, rows, sync, bundles, results, outputs, starts>>

\* run_realtime_paper heartbeats RUNNING; an exception goes to fail_run.
RunStrategy(ok) ==
  /\ At("run")
  /\ registry' = [registry EXCEPT ![auto.id] = IF ok THEN "running" ELSE "error"]
  /\ IF ok THEN auto' = [auto EXCEPT !.stage = "metrics"] ELSE StrategyFails
  /\ UNCHANGED <<exchange, rows, sync, bundles, results, outputs, starts, nextId>>

\* compute_summary and finish_run: an exception leaves the run running.  The
\* registry says finished before anything of the bundle is written.
FinishRun(ok) ==
  /\ At("metrics")
  /\ IF ok
     THEN /\ registry' = [registry EXCEPT ![auto.id] = "finished"]
          /\ \E filled \in SUBSET ArtifactFiles :
               StartBundle(Automation, auto.id, filled)
          /\ auto' = [auto EXCEPT !.stage = "bundle"]
     ELSE StrategyFails /\ UNCHANGED <<registry, writer>>
  /\ UNCHANGED <<exchange, rows, sync, bundle, results, outputs, starts, nextId>>

\* write_bundle, or the error that ends it.
RunBundle(ok) ==
  /\ At("bundle")
  /\ \/ /\ ok /\ BundleStep(Automation)
        /\ auto' = IF writer'[Automation] = IdleWriter
                   THEN [auto EXCEPT !.stage = "next", !.ids = Append(@, auto.id),
                           !.id = NoRun]
                   ELSE auto
     \/ ~ok /\ DropWriter(Automation) /\ StrategyFails
  /\ UNCHANGED <<exchange, rows, sync, registry, results, outputs, starts, nextId>>

NextStrategy ==
  /\ At("next")
  /\ IF auto.left > 1
     THEN /\ auto' = [auto EXCEPT !.stage = "prepare", !.left = @ - 1,
                        !.market = NoMarket]
          /\ UNCHANGED results
     ELSE /\ results' = Append(results, Result("strategy_batch", ~auto.failed, auto.ids))
          /\ auto' = [OffAuto EXCEPT !.stage = "task", !.todo = Tail(auto.todo)]
  /\ UNCHANGED <<exchange, rows, sync, bundles, registry, outputs, starts, nextId>>

\* build_report_context reads the manifests outside any try: the process ends
\* with the exception, and leaves no bundle of its own.
ReportTask ==
  /\ At("task") /\ Task = "report"
  /\ IF ManifestsReadable THEN GoTo("report") ELSE Exit
  /\ UNCHANGED <<exchange, rows, sync, bundles, outputs, starts, nextId>>

\* The index line written ahead of the report.
WriteReportIndexFirst ==
  /\ At("report")
  /\ reports' = [reports EXCEPT !.index = @ \cup {starts[Automation]}]
  /\ GoTo("index")
  /\ UNCHANGED <<exchange, rows, sync, bundles, framework, snapshot, starts, nextId>>

\* write_report_outputs: the report, then its line in the index.
WriteReport ==
  /\ At("report")
  /\ reports' = [reports EXCEPT !.files = @ \cup {starts[Automation]}]
  /\ GoTo("index")
  /\ UNCHANGED <<exchange, rows, sync, bundles, framework, snapshot, starts, nextId>>

WriteReportIndex ==
  /\ At("index")
  /\ reports' = [reports EXCEPT !.index = @ \cup {starts[Automation]}]
  /\ TaskDone(Result("report", TRUE, <<>>))
  /\ UNCHANGED <<exchange, rows, sync, bundles, registry, framework, snapshot, starts,
                 nextId>>

\* _write_run_bundle: the manifest, opened and written, then framework.log.
WriteFramework ==
  /\ \/ At("task") /\ Task = "end" /\ framework' = "torn" /\ GoTo("framework")
     \/ At("framework") /\ framework = "torn" /\ framework' = "manifest" /\ UNCHANGED process
     \/ At("framework") /\ framework = "manifest" /\ framework' = "whole" /\ GoTo("snapshot")
  /\ UNCHANGED <<exchange, rows, sync, bundles, reports, snapshot, starts, nextId>>

\* _recent_strategy_run_id: the last run_id of the last task that has some.
RecentRuns ==
  {results[i].ids[Len(results[i].ids)] : i \in {j \in DOMAIN results :
     /\ results[j].ids # <<>>
     /\ \A k \in DOMAIN results : k > j => results[k].ids = <<>>}}

\* build_snapshot reads every manifest; latest_strategy_run_id decides when
\* this process has run nothing (the end times are not modelled).
BuildSnapshot ==
  /\ At("snapshot")
  /\ IF ~ManifestsReadable THEN Exit
     ELSE /\ \E r \in IF RecentRuns # {} THEN RecentRuns
                      ELSE IF LoadManifests # {} THEN LoadManifests ELSE {NoRun} :
               auto' = [auto EXCEPT !.stage = "replace", !.id = r]
          /\ UNCHANGED <<registry, results>>
  /\ UNCHANGED <<exchange, rows, sync, bundles, outputs, starts, nextId>>

\* write_latest: a temporary file and one replace, and the process is over.
ReplaceSnapshot ==
  /\ At("replace")
  /\ snapshot' = auto.id
  /\ Exit
  /\ UNCHANGED <<exchange, rows, sync, bundles, framework, reports, starts, nextId>>

-----------------------------------------------------------------------------
(***************************************************************************)
(* What can go wrong, and who else is there.                               *)
(***************************************************************************)
Kill ==
  /\ ~At("off")
  /\ Exit /\ sync' = IdleSync
  /\ DropWriter(Automation)
  /\ UNCHANGED <<exchange, rows, outputs, starts, nextId>>

RunByHand ==
  /\ Step(Manual, "idle") /\ starts[Manual] < MaxManual
  /\ \E filled \in SUBSET ArtifactFiles :
       StartBundle(Manual, ManualId, filled)
  /\ starts' = [starts EXCEPT ![Manual] = @ + 1]
  /\ UNCHANGED <<exchange, rows, sync, bundle, process, outputs, nextId>>

BundleByHand ==
  /\ BundleStep(Manual) \/ (~Step(Manual, "idle") /\ DropWriter(Manual))
  /\ UNCHANGED <<exchange, rows, sync, process, outputs, starts, nextId>>

Environment == Exchange /\ UNCHANGED <<rows, sync, bundles, process, outputs, starts, nextId>>

-----------------------------------------------------------------------------
\* ok is FALSE when the fetch, the store, the strategy or the disk fails.
Work(ok) ==
  \/ RunSync(ok) \/ Prepare(ok) \/ RunStrategy(ok) \/ FinishRun(ok) \/ RunBundle(ok)

AutomationStep ==
  \/ SyncTask \/ SyncDone \/ HealthTask \/ BatchTask \/ NextStrategy
  \/ ReportTask \/ WriteReport \/ WriteReportIndex \/ WriteFramework
  \/ BuildSnapshot \/ ReplaceSnapshot
  \/ \E ok \in BOOLEAN : Work(ok)

Next ==
  \/ \E plan \in Plans : StartAutomation(plan)
  \/ AutomationStep
  \/ Kill \/ RunByHand \/ BundleByHand \/ Environment

\* A process that is not killed keeps running; every call it makes returns.
Spec == Init /\ [][Next]_vars /\ WF_vars(AutomationStep)

-----------------------------------------------------------------------------
(***************************************************************************)
(* Properties.                                                             *)
(***************************************************************************)
RunStates == {"none", "starting", "running", "finished", "error"}
Stages == {"off", "task", "sync", "prepare", "run", "metrics", "bundle", "next",
           "report", "index", "framework", "snapshot", "replace"}

AutoStates ==
  [stage : Stages, todo : Seq(TaskNames), left : Nat, id : RunIds \cup {NoRun},
   market : Markets \cup {NoMarket}, ids : Seq(RunIds), failed : BOOLEAN]
TaskResults == [task : TaskNames, status : {"success", "failed", "skipped"},
                ids : Seq(RunIds)]

TypeOK ==
  /\ clock \in 0..MaxClock /\ status \in [Markets -> {"new", "open", "closed"}]
  /\ sync \in SyncStates
  /\ bundle \in [RunIds -> Bundles] /\ writer \in [Writers -> WriterStates]
  /\ auto \in AutoStates /\ results \in Seq(TaskResults)
  /\ registry \in [RunIds -> RunStates] /\ snapshot \in RunIds \cup {NoRun}
  /\ framework \in {"none", "torn", "manifest", "whole"}
  /\ reports \in [files : SUBSET Nat, index : SUBSET Nat]
  /\ starts \in [Writers -> Nat] /\ nextId \in Nat \ {0}

\* A row is written only for a market that took orders at some moment of the
\* sync that wrote it, with each token on its own side, though the market may
\* open or close between the two fetches and the services list tokens in
\* different orders or not at all.
RowsShowTheMarket ==
  [][\A m \in Markets : rows'[m] # rows[m] =>
       /\ status[m] = "open" \/ closedAt[m] > sync.started
       /\ rows'[m] = [yes |-> "yes", no |-> "no"]]_vars

\* Whoever finds the manifest of an automation run finds every file it lists,
\* at any moment and after a crash anywhere.  (The directory of a run by hand
\* gives no such guarantee while it is written again.)
BundlesAreWhole ==
  \A r \in RunIds \ {ManualId} : bundle[r].manifest = "whole" => Complete(r)

\* A process that reports run ids, or success for its batch, has run each to
\* its end and its bundle is on disk.
ResultsAreTruthful ==
  \A i \in DOMAIN results :
    LET ids == ToSet(results[i].ids) IN
    /\ \A r \in ids : registry[r] = "finished" /\ Complete(r)
    /\ results[i].task = "strategy_batch" /\ results[i].status = "success" =>
         Cardinality(ids) = StrategyCount
         /\ \A r \in RunIds : registry[r] # "none" => r \in ids

\* What the dashboard and the report index point at is there, whichever
\* process wrote them last and wherever it was killed.
OutputsPointAtFiles ==
  /\ snapshot \in RunIds \ {ManualId} => Complete(snapshot)
  /\ reports.index \subseteq reports.files

\* An automation process ends: retries, failing tasks and failing strategies
\* never keep it.
AutomationEnds == ~At("off") ~> At("off")

=============================================================================
