---------------------------- MODULE AutomationProofs ----------------------------
(***************************************************************************)
(* The automation process for any markets, tasks, strategies and number of *)
(* processes, killed anywhere: its bundles, results and outputs.           *)
(*                                                                         *)
(* A manifest can be trusted because a run id is taken once.  So the       *)
(* invariant follows an id from the moment it is fresh (Fresh: nothing is  *)
(* in its directory) through the stages of write_bundle (Progress), and    *)
(* says that nothing touches a directory whose manifest is whole.  Budget  *)
(* counts the ids the process may still take, from the tasks and           *)
(* strategies ahead.  Published and Reported relate the registry to the    *)
(* ids the batch collects, and to the results of the tasks.                *)
(***************************************************************************)
EXTENDS AutomationRun, CollectionTheorems, FiniteSetTheorems, TLAPS

BatchStages == {"prepare", "run", "metrics", "bundle", "next"}
RunStages == {"run", "metrics", "bundle"}

Once(s) == \A i, j \in DOMAIN s : s[i] = s[j] => i = j
Ahead(s) == \E i \in DOMAIN s : s[i] = "strategy_batch"

\* The run ids this process may still take.
RunsAhead ==
  IF auto.stage \in BatchStages
  THEN IF At("prepare") THEN auto.left ELSE auto.left - 1
  ELSE IF Ahead(auto.todo) THEN StrategyCount ELSE 0

\* The tasks ahead and the ids that are left for them.
Budget ==
  /\ Once(auto.todo)
  /\ auto.stage \in {"sync", "report", "index"} => auto.todo # <<>>
  /\ auto.stage \in BatchStages =>
       /\ auto.left \in 1..StrategyCount
       /\ auto.todo # <<>> /\ Head(auto.todo) = "strategy_batch"
  /\ starts[Automation] <= MaxStarts
  /\ nextId + RunsAhead <= starts[Automation] * StrategyCount + 1

\* Nothing is in a directory before its run is over.
Fresh ==
  /\ \A r \in RunIds : r >= nextId => bundle[r] = EmptyBundle
  /\ auto.stage \in RunStages => auto.id \in RunIds \ {ManualId} /\ auto.id < nextId
  /\ auto.stage \in {"run", "metrics"} => bundle[auto.id] = EmptyBundle

\* What writer w has done so far in its directory d.
Progress(w, d) ==
  /\ w.stage = "clear" => w.todo = w.filled /\ d = EmptyBundle
  /\ w.stage \in {"parquet", "logs", "manifest"} => d.manifest = "none"
  /\ w.stage = "torn" => d.manifest = "torn"
  /\ w.stage = "parquet" => w.filled \ w.todo \subseteq d.files
  /\ w.stage = "logs" => w.filled \subseteq d.files
  /\ w.stage \in {"manifest", "torn"} => w.filled \cup {Logs} \subseteq d.files

Writing ==
  /\ writer[Manual].id = ManualId
  /\ At("bundle") =>
       /\ writer[Automation].stage # "idle" /\ writer[Automation].id = auto.id
       /\ Progress(writer[Automation], bundle[auto.id])
  /\ ~At("bundle") => writer[Automation].stage = "idle"

Trusted(r) == r \in RunIds \ {ManualId} => Complete(r)

Outputs ==
  /\ BundlesAreWhole /\ OutputsPointAtFiles
  /\ At("index") => starts[Automation] \in reports.files
  /\ At("replace") => Trusted(auto.id)

Done(r) ==
  r \in RunIds \ {ManualId} /\ r < nextId /\ registry[r] = "finished" /\ Complete(r)
Covers(ids) == \A r \in RunIds : registry[r] # "none" => r \in ids
StrategiesDone == StrategyCount - (IF At("next") THEN auto.left - 1 ELSE auto.left)

\* What the batch has published: each run id it holds is done, and as long as
\* nothing has failed they are all the runs there are but the one in progress.
Published ==
  /\ \A i \in DOMAIN auto.ids : Done(auto.ids[i])
  /\ At("bundle") => registry[auto.id] = "finished"
  /\ auto.stage \in BatchStages /\ ~auto.failed =>
       /\ Cardinality(ToSet(auto.ids)) = StrategiesDone
       /\ Covers(ToSet(auto.ids) \cup (IF auto.stage \in RunStages THEN {auto.id} ELSE {}))

\* The batch reports once, at its end; nothing runs before it.
Reported ==
  /\ \A i \in DOMAIN results : \A j \in DOMAIN results[i].ids : Done(results[i].ids[j])
  /\ \A i \in DOMAIN results :
       results[i].task = "strategy_batch" /\ results[i].status = "success" =>
         Cardinality(ToSet(results[i].ids)) = StrategyCount /\ Covers(ToSet(results[i].ids))
  /\ auto.stage \in BatchStages \/ Ahead(auto.todo) =>
       \A i \in DOMAIN results : results[i].task # "strategy_batch"
  /\ auto.stage \notin BatchStages /\ Ahead(auto.todo) => registry = NoRuns
  /\ At("off") => registry = NoRuns /\ results = <<>>

AutomationInv == TypeOK /\ Budget /\ Fresh /\ Writing /\ Outputs /\ Published /\ Reported

-----------------------------------------------------------------------------
(***************************************************************************)
(* Sequences of tasks.                                                     *)
(***************************************************************************)

\* What is ahead after a task is over.
LEMMA AfterTask ==
  ASSUME NEW s \in Seq(TaskNames), s # <<>>, Once(s)
  PROVE  /\ Tail(s) \in Seq(TaskNames)
         /\ Once(Tail(s))
         /\ Ahead(Tail(s)) => Ahead(s)
         /\ Head(s) = "strategy_batch" => Ahead(s) /\ ~Ahead(Tail(s))
<1>1. Len(s) \in Nat \ {0} /\ DOMAIN s = 1..Len(s) /\ DOMAIN Tail(s) = 1..(Len(s) - 1)
  OBVIOUS
<1>2. \A i \in DOMAIN Tail(s) : i + 1 \in DOMAIN s /\ Tail(s)[i] = s[i + 1] /\ i + 1 # 1
  BY <1>1
<1>3. Head(s) = s[1] /\ 1 \in DOMAIN s
  BY <1>1
<1>4. Once(Tail(s))
  BY <1>1, <1>2 DEF Once
<1>5. Ahead(Tail(s)) => Ahead(s)
  BY <1>1, <1>2 DEF Ahead
<1>6. Head(s) = "strategy_batch" => Ahead(s) /\ ~Ahead(Tail(s))
  BY <1>1, <1>2, <1>3 DEF Ahead, Once
<1> QED
  BY <1>4, <1>5, <1>6

\* An empty list of tasks repeats none and has no strategy batch ahead.
LEMMA NoTasks == Once(<<>>) /\ ~Ahead(<<>>) /\ <<>> \in Seq(TaskNames)
  BY DEF Once, Ahead

\* The arithmetic of a budget of so many steps for each of so many strategies.
LEMMA Products ==
  ASSUME NEW j \in Nat, NEW k \in Nat, NEW n \in Nat, j <= k
  PROVE  (j + 1) * n = j * n + n /\ j * n <= k * n /\ j * n \in Nat
<1>1. PICK d \in Nat : k = j + d
  <2>1. k - j \in Nat /\ k = j + (k - j)
    OBVIOUS
  <2> QED
    BY <2>1
<1>2. d * n \in Nat /\ k * n = j * n + d * n
  BY <1>1
<1> QED
  BY <1>2

\* What is spent and what is left move together within a budget.
LEMMA WithinBudget ==
  \A m, n, a, b, s \in Nat : n + b <= m + a /\ m + a <= s + 1 => n + b <= s + 1
  OBVIOUS

-----------------------------------------------------------------------------
(***************************************************************************)
(* Types.                                                                  *)
(***************************************************************************)
LEMMA Names ==
  /\ Writers = {Automation, Manual} /\ Automation # Manual
  /\ ManualId = 0 /\ 0 \in RunIds /\ NoRun \notin RunIds
  /\ \A r \in RunIds : r \in Nat
  /\ IdleWriter \in WriterStates /\ EmptyBundle \in Bundles
<1>1. MaxStarts * StrategyCount \in Nat
  BY AutomationAssumption
<1>2. 0 \in RunIds /\ \A r \in RunIds : r \in Nat
  BY <1>1, AutomationAssumption
<1> QED
  BY <1>2, AutomationAssumption
  DEF Automation, Manual, ManualId, IdleWriter, WriterStates, WriterStages, EmptyBundle, Bundles

\* A process that is off, and a registry without runs, have their types.
LEMMA OffType == OffAuto \in AutoStates /\ NoRuns \in [RunIds -> RunStates]
<1>1. <<>> \in Seq(TaskNames) /\ <<>> \in Seq(RunIds)
  OBVIOUS
<1> QED
  BY <1>1 DEF OffAuto, AutoStates, Stages, NoRuns, RunStates

\* A failed fetch leaves the sync in one of its states.
LEMMA FailedFetchType ==
  ASSUME sync \in SyncStates, NEW ok \in BOOLEAN, FailedFetch(ok)
  PROVE  sync' \in SyncStates
<1>1. sync.attempt \in 1..MaxAttempts /\ MaxAttempts \in Nat
  BY SyncAssumption DEF SyncStates
<1>2. CASE sync.attempt >= MaxAttempts
  <2>1. sync' = [sync EXCEPT !.stage = "done", !.ok = SyncSucceeded(TRUE, FALSE)]
    BY <1>2 DEF FailedFetch
  <2> QED
    BY <2>1 DEF SyncStates, SyncStages, SyncSucceeded
<1>3. CASE ~(sync.attempt >= MaxAttempts)
  <2>1. sync' = [sync EXCEPT !.attempt = sync.attempt + 1]
    BY <1>3 DEF FailedFetch
  <2>2. sync.attempt + 1 \in 1..MaxAttempts
    BY <1>1, <1>3
  <2> QED
    BY <2>1, <2>2 DEF SyncStates
<1> QED
  BY <1>2, <1>3

\* sync_once, step by step.
LEMMA SyncTypes ==
  ASSUME sync \in SyncStates, NEW ok \in BOOLEAN, SyncStep(ok)
  PROVE  sync' \in SyncStates /\ UNCHANGED exchange
<1>0. 1 \in 1..MaxAttempts
  BY SyncAssumption
<1>1. CASE FetchGamma(ok)
  <2>1. CASE FailedFetch(ok)
    BY <1>1, <2>1, FailedFetchType DEF FetchGamma
  <2>2. CASE ~FailedFetch(ok)
    <3> DEFINE listed == {m \in Markets : status[m] # "closed"}
               open == {m \in Markets : status[m] = "open"}
    <3>1. sync' = [sync EXCEPT !.stage = "clob", !.attempt = 1, !.gamma = listed,
                     !.accepting = open] /\ UNCHANGED exchange
      BY <1>1, <2>2 DEF FetchGamma
    <3>2. listed \in SUBSET Markets /\ open \in SUBSET Markets
      OBVIOUS
    <3> HIDE DEF listed, open
    <3> QED
      BY <1>0, <3>1, <3>2 DEF SyncStates, SyncStages
  <2> QED
    BY <2>1, <2>2
<1>2. ASSUME NEW known \in SUBSET Markets, FetchClob(ok, known)
      PROVE  sync' \in SyncStates /\ UNCHANGED exchange
  <2>1. CASE FailedFetch(ok)
    BY <1>2, <2>1, FailedFetchType DEF FetchClob
  <2>2. CASE ~FailedFetch(ok)
    BY <1>2, <2>2, ZenonT(60) DEF FetchClob, SyncStates, SyncStages
  <2> QED
    BY <2>1, <2>2
<1>3. CASE UpsertMarkets(ok)
  BY <1>3 DEF UpsertMarkets, SyncStates, SyncStages, SyncSucceeded
<1> QED
  BY <1>1, <1>2, <1>3 DEF SyncStep

\* write_bundle touches the directory of its run alone, and nobody's state but
\* its own.
LEMMA BundleSteps ==
  ASSUME bundle \in [RunIds -> Bundles], writer \in [Writers -> WriterStates],
         NEW p \in Writers, BundleStep(p)
  PROVE  /\ bundle' \in [RunIds -> Bundles]
         /\ writer' \in [Writers -> WriterStates]
         /\ writer[p].stage # "idle"
         /\ writer'[p] = IdleWriter \/ writer'[p].id = writer[p].id
         /\ \A q \in Writers : q # p => writer'[q] = writer[q]
         /\ \A r \in RunIds : r # writer[p].id => bundle'[r] = bundle[r]
<1> DEFINE w == writer[p]
           d == bundle[w.id]
<1>1. w \in WriterStates /\ w.id \in RunIds /\ d \in Bundles
  BY DEF WriterStates
<1>2. /\ w.stage \in WriterStages /\ w.filled \subseteq ArtifactFiles
      /\ w.todo \subseteq ArtifactFiles /\ d.files \subseteq Files /\ d.listed \subseteq Files
  BY <1>1 DEF WriterStates, Bundles
<1>3. Logs \in Files /\ ArtifactFiles \subseteq Files
  BY DEF Files
<1>4. \A f \in NextArtifact(p) : f \in ArtifactFiles
  BY DEF NextArtifact, ArtifactFiles
<1>5. CASE ClearFile(p)
  <2>1. \/ bundle' = [bundle EXCEPT ![w.id] = [d EXCEPT !.manifest = "none"]]
        \/ \E f : bundle' = [bundle EXCEPT ![w.id] = [d EXCEPT !.files = @ \ {f}]]
    BY <1>5 DEF ClearFile
  <2>2. [d EXCEPT !.manifest = "none"] \in Bundles
    BY <1>1 DEF Bundles
  <2>3. \A f : [d EXCEPT !.files = @ \ {f}] \in Bundles
    BY <1>1 DEF Bundles
  <2>4. PICK e \in Bundles : bundle' = [bundle EXCEPT ![w.id] = e]
    BY <2>1, <2>2, <2>3
  <2> QED
    BY <1>1, <1>5, <2>4 DEF ClearFile, Step
<1>6. CASE Cleared(p)
  BY <1>1, <1>2, <1>6 DEF Cleared, Step, WriterStates, WriterStages
<1>7. CASE WriteParquet(p)
  <2>1. PICK f \in NextArtifact(p) :
          /\ bundle' = [bundle EXCEPT ![writer[p].id].files = @ \cup {f}]
          /\ writer' = [writer EXCEPT ![p].todo = @ \ {f},
                         ![p].stage = IF writer[p].todo = {f} THEN "logs" ELSE "parquet"]
    BY <1>7 DEF WriteParquet
  <2>2. bundle' \in [RunIds -> Bundles]
    BY <1>1, <1>2, <1>3, <1>4, <2>1 DEF Bundles
  <2>3. writer' \in [Writers -> WriterStates] /\ writer'[p].id = writer[p].id
    BY <1>1, <1>2, <2>1 DEF WriterStates, WriterStages
  <2> QED
    BY <1>1, <1>7, <2>1, <2>2, <2>3 DEF WriteParquet, Step
<1>8. CASE WriteLogs(p)
  BY <1>1, <1>2, <1>3, <1>8 DEF WriteLogs, Step, Bundles, WriterStates, WriterStages
<1>9. CASE OpenManifest(p)
  BY <1>1, <1>2, <1>9 DEF OpenManifest, Step, Bundles, WriterStates, WriterStages
<1>10. CASE WriteManifest(p)
  <2>1. w.filled \cup {Logs} \subseteq Files
    BY <1>2, <1>3
  <2>2. [d EXCEPT !.manifest = "whole", !.listed = w.filled \cup {Logs}] \in Bundles
    BY <1>1, <2>1 DEF Bundles
  <2> QED
    BY <1>1, <1>10, <2>2, Names DEF WriteManifest, Step
<1> QED
  BY <1>5, <1>6, <1>7, <1>8, <1>9, <1>10 DEF BundleStep

\* write_bundle of the automation goes through its stages in order, and ends
\* with a manifest of files that are there.
LEMMA WriteStep ==
  ASSUME bundle \in [RunIds -> Bundles], writer \in [Writers -> WriterStates],
         BundleStep(Automation), NEW r \in RunIds, writer[Automation].id = r,
         Progress(writer[Automation], bundle[r])
  PROVE  /\ bundle[r].manifest # "whole"
         /\ \/ writer'[Automation] = IdleWriter /\ Complete(r)'
            \/ /\ writer'[Automation].stage # "idle" /\ writer'[Automation].id = r
               /\ Progress(writer'[Automation], bundle'[r])
               /\ bundle'[r].manifest # "whole"
<1> DEFINE p == Automation
           w == writer[p]
           d == bundle[r]
<1>1. p \in Writers /\ w \in WriterStates /\ d \in Bundles
  BY Names
<1>2. IdleWriter.stage = "idle" /\ EmptyBundle.manifest = "none" /\ EmptyBundle.files = {}
  BY DEF IdleWriter, EmptyBundle
<1>3. CASE ClearFile(p)
  BY <1>1, <1>2, <1>3 DEF ClearFile, Step, Dir, Progress
<1>4. CASE Cleared(p)
  BY <1>1, <1>2, <1>4 DEF Cleared, Step, Dir, Progress, WriterStates
<1>5. CASE WriteParquet(p)
  <2>1. PICK f \in NextArtifact(p) :
          /\ bundle' = [bundle EXCEPT ![writer[p].id].files = @ \cup {f}]
          /\ writer' = [writer EXCEPT ![p].todo = @ \ {f},
                         ![p].stage = IF writer[p].todo = {f} THEN "logs" ELSE "parquet"]
    BY <1>5 DEF WriteParquet
  <2>2. w.stage = "parquet" /\ d.manifest = "none" /\ w.filled \ w.todo \subseteq d.files
    BY <1>5 DEF WriteParquet, Step, Progress
  <2>3. /\ bundle'[r].files = d.files \cup {f} /\ bundle'[r].manifest = "none"
        /\ writer'[p].todo = w.todo \ {f} /\ writer'[p].filled = w.filled
        /\ writer'[p].id = r
        /\ writer'[p].stage = IF w.todo = {f} THEN "logs" ELSE "parquet"
    BY <1>1, <2>1, <2>2 DEF Bundles, WriterStates
  <2>4. w.filled \ (w.todo \ {f}) \subseteq d.files \cup {f}
    BY <2>2
  <2>5. w.todo = {f} => w.filled \subseteq d.files \cup {f}
    BY <2>2
  <2> QED
    BY <2>2, <2>3, <2>4, <2>5 DEF Progress
<1>6. CASE WriteLogs(p)
  <2>1. w.stage = "logs" /\ d.manifest = "none" /\ w.filled \subseteq d.files
    BY <1>6 DEF WriteLogs, Step, Progress
  <2>2. /\ bundle'[r].files = d.files \cup {Logs} /\ bundle'[r].manifest = "none"
        /\ writer'[p].filled = w.filled /\ writer'[p].id = r /\ writer'[p].stage = "manifest"
    BY <1>1, <1>6, <2>1 DEF WriteLogs, Bundles, WriterStates
  <2> QED
    BY <2>1, <2>2 DEF Progress
<1>7. CASE OpenManifest(p)
  <2>1. w.stage = "manifest" /\ d.manifest = "none" /\ w.filled \cup {Logs} \subseteq d.files
    BY <1>7 DEF OpenManifest, Step, Progress
  <2>2. /\ bundle'[r].files = d.files /\ bundle'[r].manifest = "torn"
        /\ writer'[p].filled = w.filled /\ writer'[p].id = r /\ writer'[p].stage = "torn"
    BY <1>1, <1>7 DEF OpenManifest, Bundles, WriterStates
  <2> QED
    BY <2>1, <2>2 DEF Progress
<1>8. CASE WriteManifest(p)
  <2>1. w.stage = "torn" /\ d.manifest = "torn" /\ w.filled \cup {Logs} \subseteq d.files
    BY <1>8 DEF WriteManifest, Step, Progress
  <2>2. /\ bundle'[r].manifest = "whole" /\ bundle'[r].listed = w.filled \cup {Logs}
        /\ bundle'[r].files = d.files /\ writer'[p] = IdleWriter
    BY <1>1, <1>8 DEF WriteManifest, Bundles
  <2> QED
    BY <2>1, <2>2 DEF Complete
<1> QED
  BY <1>3, <1>4, <1>5, <1>6, <1>7, <1>8 DEF BundleStep

-----------------------------------------------------------------------------
(***************************************************************************)
(* Steps outside the batch.                                                *)
(***************************************************************************)
LEMMA InitAutomation == Init => AutomationInv
<1> SUFFICES ASSUME Init
             PROVE  AutomationInv
  OBVIOUS
<1>1. auto = OffAuto /\ results = <<>> /\ nextId = 1 /\ registry = NoRuns
  BY DEF Init
<1>2. auto.stage = "off" /\ auto.todo = <<>> /\ auto.ids = <<>> /\ auto.id = NoRun
  BY <1>1 DEF OffAuto
<1>3. \A q \in Writers : writer[q] = IdleWriter
  BY DEF Init, BundlesInit
<1>4. starts \in [Writers -> Nat] /\ starts[Automation] = 0
  BY Names DEF Init
<1>5. \A r \in RunIds : bundle[r] = EmptyBundle
  BY DEF Init, BundlesInit
<1>6. sync \in SyncStates
  BY SyncAssumption DEF Init, SyncInit, IdleSync, SyncStates, SyncStages
<1>7. TypeOK
  BY <1>1, <1>4, <1>6, Names, OffType, SyncAssumption
  DEF TypeOK, Init, SyncInit, BundlesInit, TaskResults
<1>8. Budget
  BY <1>1, <1>2, <1>4, NoTasks, AutomationAssumption DEF Budget, RunsAhead, At, BatchStages
<1>9. Fresh
  BY <1>2, <1>5 DEF Fresh, RunStages
<1>10. Writing
  BY <1>2, <1>3, Names DEF Writing, At, IdleWriter
<1>11. Outputs
  BY <1>2, <1>5, Names
  DEF Outputs, BundlesAreWhole, OutputsPointAtFiles, At, Init, EmptyBundle
<1>12. Published /\ Reported
  BY <1>1, <1>2, NoTasks DEF Published, Reported, BatchStages, At
<1> QED
  BY <1>7, <1>8, <1>9, <1>10, <1>11, <1>12 DEF AutomationInv

\* A step of a task other than the batch: at most a result without run ids is
\* added and the task taken off the list.
LEMMA QuietStep ==
  ASSUME AutomationInv,
         UNCHANGED <<bundle, writer, nextId, registry>>,
         starts'[Automation] = starts[Automation],
         auto.stage \notin BatchStages, auto'.stage \notin BatchStages,
         auto'.stage # "off",
         auto'.stage \in {"sync", "report", "index"} => auto'.todo # <<>>,
         auto'.ids = auto.ids,
         auto'.todo = auto.todo \/ (auto.todo # <<>> /\ auto'.todo = Tail(auto.todo)),
         \/ results' = results
         \/ \E x \in TaskResults :
              /\ results' = Append(results, x) /\ x.ids = <<>>
              /\ x.task # "strategy_batch" \/ (x.status = "skipped" /\ ~Ahead(auto'.todo))
  PROVE  Budget' /\ Fresh' /\ Writing' /\ Published' /\ Reported'
<1> USE DEF AutomationInv
<1>1. auto.todo \in Seq(TaskNames) /\ Once(auto.todo)
  BY DEF TypeOK, AutoStates, Budget
<1>2. Once(auto'.todo) /\ (Ahead(auto'.todo) => Ahead(auto.todo))
  BY <1>1, AfterTask
<1>3. Budget'
  <2>1. RunsAhead' <= RunsAhead /\ RunsAhead \in Nat /\ RunsAhead' \in Nat
    BY <1>2, AutomationAssumption DEF RunsAhead
  <2>2. nextId \in Nat /\ starts[Automation] * StrategyCount \in Nat
    BY Names, Products, AutomationAssumption DEF TypeOK
  <2> QED
    BY <1>2, <2>1, <2>2 DEF Budget
<1>4. Fresh'
  BY DEF Fresh, RunStages, BatchStages
<1>5. Writing'
  BY DEF Writing, At, BatchStages
<1>6. Published'
  BY DEF Published, Done, Complete, At, BatchStages
<1>7. Reported'
  <2>1. CASE results' = results
    BY <1>2, <2>1 DEF Reported, Done, Complete, Covers, At
  <2>2. ASSUME NEW x \in TaskResults, results' = Append(results, x), x.ids = <<>>,
               x.task # "strategy_batch" \/ (x.status = "skipped" /\ ~Ahead(auto'.todo))
        PROVE  Reported'
    <3>1. results \in Seq(TaskResults)
      BY DEF TypeOK
    <3>2. \A i \in DOMAIN results' : (i \in DOMAIN results /\ results'[i] = results[i])
                                     \/ results'[i] = x
      BY <2>2, <3>1
    <3>3. ASSUME NEW i \in DOMAIN results', NEW j \in DOMAIN results'[i].ids
          PROVE  /\ i \in DOMAIN results /\ j \in DOMAIN results[i].ids
                 /\ results'[i].ids[j] = results[i].ids[j]
      BY <2>2, <3>2, <3>3
    <3>4. (\A i \in DOMAIN results : \A j \in DOMAIN results[i].ids : Done(results[i].ids[j]))'
      <4>1. \A i \in DOMAIN results : \A j \in DOMAIN results[i].ids : Done(results[i].ids[j])
        BY DEF Reported
      <4> QED
        BY <3>3, <4>1 DEF Done, Complete
    <3>5. ASSUME NEW i \in DOMAIN results', results'[i].task = "strategy_batch",
                 results'[i].status = "success"
          PROVE  i \in DOMAIN results /\ results'[i] = results[i]
      BY <2>2, <3>2, <3>5
    <3>6. (\A i \in DOMAIN results :
             results[i].task = "strategy_batch" /\ results[i].status = "success" =>
               Cardinality(ToSet(results[i].ids)) = StrategyCount
               /\ Covers(ToSet(results[i].ids)))'
      BY <3>5 DEF Reported, Covers
    <3>7. (auto.stage \in BatchStages \/ Ahead(auto.todo) =>
             \A i \in DOMAIN results : results[i].task # "strategy_batch")'
      BY <1>2, <2>2, <3>2 DEF Reported
    <3>8. (auto.stage \notin BatchStages /\ Ahead(auto.todo) => registry = NoRuns)'
      BY <1>2 DEF Reported
    <3> QED
      BY <3>4, <3>6, <3>7, <3>8 DEF Reported, At
  <2> QED
    BY <2>1, <2>2
<1> QED
  BY <1>3, <1>4, <1>5, <1>6, <1>7

\* The process is gone, killed or at its end.
LEMMA ExitStep ==
  ASSUME AutomationInv, Exit,
         bundle' = bundle, nextId' = nextId, starts'[Automation] = starts[Automation],
         (writer' = writer /\ ~At("bundle")) \/ writer' = [writer EXCEPT ![Automation] = IdleWriter]
  PROVE  Budget' /\ Fresh' /\ Writing' /\ Published' /\ Reported'
<1> USE DEF AutomationInv
<1>1. auto' = OffAuto /\ auto'.stage = "off" /\ auto'.todo = <<>> /\ auto'.ids = <<>>
  BY DEF Exit, OffAuto
<1>2. results' = <<>> /\ registry' = NoRuns
  BY DEF Exit
<1>3. Budget'
  <2>1. RunsAhead' = 0
    BY <1>1, NoTasks DEF RunsAhead, BatchStages
  <2>2. RunsAhead \in Nat
    BY AutomationAssumption DEF RunsAhead, Budget
  <2>3. nextId \in Nat /\ starts[Automation] * StrategyCount \in Nat
    BY Names, Products, AutomationAssumption DEF TypeOK
  <2> QED
    BY <1>1, <2>1, <2>2, <2>3, NoTasks DEF Budget, BatchStages
<1>4. Fresh'
  BY <1>1 DEF Fresh, RunStages
<1>5. Writing'
  <2>1. writer'[Manual] = writer[Manual]
    BY Names DEF TypeOK
  <2>2. writer'[Automation].stage = "idle"
    BY Names DEF TypeOK, Writing, IdleWriter
  <2> QED
    BY <1>1, <2>1, <2>2 DEF Writing, At
<1>6. Published' /\ Reported'
  BY <1>1, <1>2, NoTasks DEF Published, Reported, BatchStages, At
<1> QED
  BY <1>3, <1>4, <1>5, <1>6

\* A step of others: at most the directory of the runs by hand changes.
LEMMA OthersStep ==
  ASSUME AutomationInv, UNCHANGED <<process, outputs, nextId>>,
         starts'[Automation] = starts[Automation],
         writer'[Automation] = writer[Automation], writer'[Manual].id = ManualId,
         \A r \in RunIds \ {ManualId} : bundle'[r] = bundle[r]
  PROVE  Budget' /\ Fresh' /\ Writing' /\ Outputs' /\ Published' /\ Reported'
<1> USE DEF AutomationInv
<1>1. UNCHANGED <<auto, registry, results, reports, snapshot>>
  BY DEF process, outputs
<1>2. nextId \in Nat \ {0} /\ ManualId = 0
  BY Names DEF TypeOK
<1>3. Budget'
  BY <1>1 DEF Budget, RunsAhead, At
<1>4. Fresh'
  BY <1>1, <1>2 DEF Fresh, RunStages
<1>5. Writing'
  BY <1>1 DEF Writing, At, Fresh, RunStages
<1>6. Outputs'
  BY <1>1 DEF Outputs, BundlesAreWhole, OutputsPointAtFiles, Trusted, Complete, At
<1>7. Published'
  BY <1>1 DEF Published, Done, Complete, Covers, StrategiesDone, At
<1>8. Reported'
  <2>1. (\A i \in DOMAIN results : \A j \in DOMAIN results[i].ids : Done(results[i].ids[j]))'
    <3>1. \A i \in DOMAIN results : \A j \in DOMAIN results[i].ids : Done(results[i].ids[j])
      BY DEF Reported
    <3> QED
      BY <1>1, <3>1 DEF Done, Complete
  <2>2. (\A i \in DOMAIN results :
           results[i].task = "strategy_batch" /\ results[i].status = "success" =>
             Cardinality(ToSet(results[i].ids)) = StrategyCount
             /\ Covers(ToSet(results[i].ids)))'
    BY <1>1 DEF Reported, Covers
  <2> QED
    BY <1>1, <2>1, <2>2 DEF Reported, At
<1> QED
  BY <1>3, <1>4, <1>5, <1>6, <1>7, <1>8

\* A step that touches no report, bundle or snapshot keeps Outputs.
LEMMA OutputsKept ==
  ASSUME Outputs, UNCHANGED <<bundle, reports, snapshot>>,
         auto'.stage \notin {"index", "replace"}
  PROVE  Outputs'
  BY DEF Outputs, BundlesAreWhole, OutputsPointAtFiles, Complete, At

\* An idle sync and one just started have their types.
LEMMA IdleSyncType ==
  /\ IdleSync \in SyncStates
  /\ \A t \in 0..MaxClock : [IdleSync EXCEPT !.stage = "gamma", !.started = t] \in SyncStates
<1>1. 1 \in 1..MaxAttempts /\ 0 \in 0..MaxClock
  BY SyncAssumption
<1>2. IdleSync \in SyncStates
  BY <1>1 DEF IdleSync, SyncStates, SyncStages
<1> HIDE DEF IdleSync
<1> QED
  BY <1>2 DEF SyncStates, SyncStages

\* A new stage, with the rest of the process as it was, or a task less.
LEMMA StageType ==
  ASSUME auto \in AutoStates, NEW stage \in Stages
  PROVE  LET next == [auto EXCEPT !.stage = stage]
             shorter == [auto EXCEPT !.stage = stage, !.todo = Tail(@)] IN
         /\ next \in AutoStates
         /\ next.stage = stage /\ next.todo = auto.todo /\ next.ids = auto.ids
         /\ next.id = auto.id
         /\ shorter.stage = stage /\ shorter.todo = Tail(auto.todo) /\ shorter.ids = auto.ids
         /\ auto.todo # <<>> => shorter \in AutoStates
<1>1. auto.todo \in Seq(TaskNames) /\ (auto.todo # <<>> => Tail(auto.todo) \in Seq(TaskNames))
  BY DEF AutoStates
<1> QED
  BY <1>1 DEF AutoStates

\* The result of a task that has no run ids.
LEMMA PlainResult ==
  ASSUME NEW task \in TaskNames, NEW ok
  PROVE  /\ Result(task, ok, <<>>) \in TaskResults
         /\ Result(task, ok, <<>>).task = task /\ Result(task, ok, <<>>).ids = <<>>
  BY DEF Result, TaskResults

\* Starting an automated run keeps the invariant.
LEMMA StartAutomationStep ==
  ASSUME AutomationInv, NEW plan \in Plans, StartAutomation(plan)
  PROVE  AutomationInv'
<1> USE DEF AutomationInv
<1>1. plan \in Seq(TaskNames) /\ Once(plan)
  BY AutomationAssumption DEF Once
<1>2. /\ auto'.stage = "task" /\ auto'.todo = plan /\ auto'.ids = <<>>
      /\ auto' \in AutoStates
  BY <1>1, OffType DEF StartAutomation, OffAuto, AutoStates, Stages
<1>3. /\ UNCHANGED <<clock, status, sync, bundle, writer, registry, results, reports,
                     snapshot, nextId>>
      /\ At("off") /\ starts[Automation] < MaxStarts /\ framework' = "none"
  BY DEF StartAutomation, exchange, bundles
<1>4. /\ starts \in [Writers -> Nat] /\ starts' \in [Writers -> Nat]
      /\ starts'[Automation] = starts[Automation] + 1
  BY Names DEF TypeOK, StartAutomation
<1>5. TypeOK'
  BY <1>2, <1>3, <1>4 DEF TypeOK
<1>6. Budget'
  <2>1. RunsAhead \in Nat
    BY AutomationAssumption DEF RunsAhead, Budget
  <2>2. RunsAhead' \in Nat /\ RunsAhead' <= StrategyCount
    BY <1>2, AutomationAssumption DEF RunsAhead, BatchStages
  <2>3. /\ (starts[Automation] + 1) * StrategyCount
             = starts[Automation] * StrategyCount + StrategyCount
        /\ starts[Automation] * StrategyCount \in Nat
    <3>1. starts[Automation] \in Nat /\ StrategyCount \in Nat
      BY <1>4, Names, AutomationAssumption
    <3>2. starts[Automation] <= starts[Automation]
      BY <3>1
    <3> QED
      BY <3>1, <3>2, Products
  <2>4. nextId + RunsAhead' <= (starts[Automation] + 1) * StrategyCount + 1
    <3> DEFINE before == starts[Automation] * StrategyCount
               after == (starts[Automation] + 1) * StrategyCount
    <3>1. nextId \in Nat /\ StrategyCount \in Nat /\ nextId + RunsAhead <= before + 1
      BY AutomationAssumption DEF TypeOK, Budget
    <3>2. after = before + StrategyCount /\ before \in Nat
      BY <2>3
    <3> HIDE DEF before, after
    <3> DEFINE spent == RunsAhead
               new == RunsAhead'
    <3>4. spent \in Nat /\ new \in Nat /\ new <= StrategyCount /\ nextId + spent <= before + 1
      BY <2>1, <2>2, <3>1
    <3> HIDE DEF spent, new
    <3>3. nextId + new <= after + 1
      BY <3>1, <3>2, <3>4
    <3> USE DEF new
    <3> QED
      BY <3>3 DEF after
  <2>5. starts[Automation] + 1 <= MaxStarts
    BY <1>3, <1>4, Names, AutomationAssumption
  <2> QED
    BY <1>1, <1>2, <1>3, <1>4, <2>4, <2>5 DEF Budget, BatchStages
<1>7. Fresh' /\ Writing'
  BY <1>2, <1>3 DEF Fresh, Writing, At, RunStages
<1>8. Outputs'
  BY <1>2, <1>3, OutputsKept
<1>9. Published' /\ Reported'
  BY <1>2, <1>3 DEF Published, Reported, BatchStages, At
<1> QED
  BY <1>5, <1>6, <1>7, <1>8, <1>9

\* market_sync.
LEMMA SyncTaskStep ==
  ASSUME AutomationInv, SyncTask
  PROVE  AutomationInv'
<1> USE DEF AutomationInv
<1>1. auto.stage = "task" /\ auto.todo # <<>> /\ auto \in AutoStates
  BY DEF SyncTask, At, Task, TypeOK
<1>2. /\ auto' \in AutoStates /\ auto'.stage = "sync" /\ auto'.todo = auto.todo
      /\ auto'.ids = auto.ids
  BY <1>1, StageType DEF SyncTask, GoTo, Stages
<1>3. UNCHANGED <<clock, status, bundle, writer, registry, results, framework, reports,
                  snapshot, starts, nextId>>
  BY DEF SyncTask, GoTo, StartSync, exchange, bundles, outputs
<1>4. sync' \in SyncStates
  BY IdleSyncType DEF SyncTask, StartSync, TypeOK
<1>5. TypeOK'
  BY <1>2, <1>3, <1>4 DEF TypeOK
<1>6. Budget' /\ Fresh' /\ Writing' /\ Published' /\ Reported'
  BY <1>1, <1>2, <1>3, QuietStep DEF BatchStages
<1> QED
  BY <1>2, <1>3, <1>5, <1>6, OutputsKept

\* The universe sync of an automated run keeps the invariant.
LEMMA RunSyncStep ==
  ASSUME AutomationInv, NEW ok \in BOOLEAN, RunSync(ok)
  PROVE  AutomationInv'
<1> USE DEF AutomationInv
<1>1. sync' \in SyncStates /\ UNCHANGED exchange
  BY SyncTypes DEF RunSync, TypeOK
<1>2. UNCHANGED <<clock, status, bundle, writer, process, outputs, starts, nextId>>
  BY <1>1 DEF RunSync, exchange, bundles
<1>3. TypeOK'
  BY <1>1, <1>2 DEF TypeOK, process, outputs
<1> QED
  BY <1>2, <1>3, OthersStep DEF Writing

\* The end of that sync keeps the invariant.
LEMMA SyncDoneStep ==
  ASSUME AutomationInv, SyncDone
  PROVE  AutomationInv'
<1> USE DEF AutomationInv
<1>1. auto.stage = "sync" /\ auto.todo # <<>> /\ auto \in AutoStates
  BY DEF SyncDone, At, TypeOK, Budget
<1>2. /\ auto' \in AutoStates /\ auto'.stage = "task" /\ auto'.todo = Tail(auto.todo)
      /\ auto'.ids = auto.ids
  BY <1>1, StageType DEF SyncDone, TaskDone, Stages
<1>3. UNCHANGED <<clock, status, bundle, writer, registry, framework, reports, snapshot,
                  starts, nextId>>
  BY DEF SyncDone, exchange, bundles, outputs
<1>4. sync' \in SyncStates /\ sync.ok \in BOOLEAN
  BY IdleSyncType DEF SyncDone, SyncStates, TypeOK
<1>5. PICK x \in TaskResults :
        results' = Append(results, x) /\ x.task = "market_sync" /\ x.ids = <<>>
  BY PlainResult DEF SyncDone, TaskDone, TaskNames
<1>6. TypeOK'
  BY <1>2, <1>3, <1>4, <1>5 DEF TypeOK
<1>7. Budget' /\ Fresh' /\ Writing' /\ Published' /\ Reported'
  BY <1>1, <1>2, <1>3, <1>5, QuietStep DEF BatchStages
<1> QED
  BY <1>2, <1>3, <1>6, <1>7, OutputsKept

\* health_check.
LEMMA HealthTaskStep ==
  ASSUME AutomationInv, HealthTask
  PROVE  AutomationInv'
<1> USE DEF AutomationInv
<1>1. auto.stage = "task" /\ auto.todo # <<>> /\ auto \in AutoStates
  BY DEF HealthTask, At, Task, TypeOK
<1>2. /\ auto' \in AutoStates /\ auto'.stage = "task" /\ auto'.todo = Tail(auto.todo)
      /\ auto'.ids = auto.ids
  BY <1>1, StageType DEF HealthTask, TaskDone, Stages
<1>3. UNCHANGED <<clock, status, sync, bundle, writer, registry, framework, reports,
                  snapshot, starts, nextId>>
  BY DEF HealthTask, exchange, bundles, outputs
<1>4. PICK x \in TaskResults :
        results' = Append(results, x) /\ x.task = "health_check" /\ x.ids = <<>>
  BY PlainResult DEF HealthTask, TaskDone, TaskNames
<1>5. TypeOK'
  BY <1>2, <1>3, <1>4 DEF TypeOK
<1>6. Budget' /\ Fresh' /\ Writing' /\ Published' /\ Reported'
  BY <1>1, <1>2, <1>3, <1>4, QuietStep DEF BatchStages
<1> QED
  BY <1>2, <1>3, <1>5, <1>6, OutputsKept

\* The batch that has nothing to do, or is not allowed to.
LEMMA BatchSkipped ==
  ASSUME AutomationInv, BatchTask, ~(PrerequisitesOk /\ StrategyCount > 0)
  PROVE  AutomationInv'
<1> USE DEF AutomationInv
<1>1. /\ auto.stage = "task" /\ auto.todo # <<>> /\ Head(auto.todo) = "strategy_batch"
      /\ auto \in AutoStates
  BY DEF BatchTask, At, Task, TypeOK
<1>2. /\ auto' \in AutoStates /\ auto'.stage = "task" /\ auto'.todo = Tail(auto.todo)
      /\ auto'.ids = auto.ids
  <2>1. auto' = [auto EXCEPT !.stage = "task", !.todo = Tail(@)]
    BY DEF BatchTask, TaskDone
  <2> QED
    BY <1>1, <2>1, StageType DEF Stages
<1>3. UNCHANGED <<clock, status, sync, bundle, writer, registry, framework, reports,
                  snapshot, starts, nextId>>
  BY DEF BatchTask, exchange, bundles, outputs
<1>4. PICK x \in TaskResults :
        results' = Append(results, x) /\ x.status = "skipped" /\ x.ids = <<>>
  <2>1. [task |-> "strategy_batch", status |-> "skipped", ids |-> <<>>] \in TaskResults
    BY DEF TaskResults, TaskNames
  <2> QED
    BY <2>1 DEF BatchTask, TaskDone
<1>5. ~Ahead(auto'.todo)
  BY <1>1, <1>2, AfterTask DEF AutoStates, Budget
<1>6. TypeOK'
  BY <1>2, <1>3, <1>4 DEF TypeOK
<1>7. Budget' /\ Fresh' /\ Writing' /\ Published' /\ Reported'
  BY <1>1, <1>2, <1>3, <1>4, <1>5, QuietStep DEF BatchStages
<1> QED
  BY <1>2, <1>3, <1>6, <1>7, OutputsKept

\* A process that ends, with nothing but perhaps its snapshot changed.
LEMMA Ended ==
  ASSUME AutomationInv, Exit,
         UNCHANGED <<clock, status, bundle, framework, reports, starts, nextId>>,
         sync' \in SyncStates, snapshot' = snapshot \/ snapshot' \in RunIds \cup {NoRun},
         snapshot' = snapshot \/ Trusted(snapshot'),
         (writer' = writer /\ ~At("bundle")) \/ writer' = [writer EXCEPT ![Automation] = IdleWriter]
  PROVE  AutomationInv'
<1> USE DEF AutomationInv
<1>1. auto'.stage = "off"
  BY DEF Exit, OffAuto
<1>2. TypeOK'
  BY Names, OffType DEF TypeOK, Exit
<1>3. Outputs'
  BY <1>1 DEF Outputs, BundlesAreWhole, OutputsPointAtFiles, Trusted, Complete, At
<1> QED
  BY <1>2, <1>3, ExitStep

\* report: the manifests are read first.
LEMMA ReportTaskStep ==
  ASSUME AutomationInv, ReportTask
  PROVE  AutomationInv'
<1> USE DEF AutomationInv
<1>1. auto.stage = "task" /\ auto.todo # <<>> /\ auto \in AutoStates
  BY DEF ReportTask, At, Task, TypeOK
<1>2. UNCHANGED <<clock, status, sync, bundle, writer, framework, reports, snapshot,
                  starts, nextId>>
  BY DEF ReportTask, exchange, bundles, outputs
<1>3. CASE ManifestsReadable
  <2>1. /\ auto' \in AutoStates /\ auto'.stage = "report" /\ auto'.todo = auto.todo
        /\ auto'.ids = auto.ids /\ registry' = registry /\ results' = results
    <3>1. GoTo("report")
      BY <1>3 DEF ReportTask
    <3> QED
      BY <1>1, <3>1, StageType DEF GoTo, Stages
  <2>2. TypeOK'
    BY <1>2, <2>1 DEF TypeOK
  <2>3. Budget' /\ Fresh' /\ Writing' /\ Published' /\ Reported'
    BY <1>1, <1>2, <2>1, QuietStep DEF BatchStages
  <2> QED
    BY <1>2, <2>1, <2>2, <2>3, OutputsKept
<1>4. CASE ~ManifestsReadable
  BY <1>1, <1>2, <1>4, Ended DEF ReportTask, At, TypeOK
<1> QED
  BY <1>3, <1>4

\* Writing a report keeps the invariant.
LEMMA WriteReportStep ==
  ASSUME AutomationInv, WriteReport
  PROVE  AutomationInv'
<1> USE DEF AutomationInv
<1>1. auto.stage = "report" /\ auto.todo # <<>> /\ auto \in AutoStates
  BY DEF WriteReport, At, TypeOK, Budget
<1>2. /\ auto' \in AutoStates /\ auto'.stage = "index" /\ auto'.todo = auto.todo
      /\ auto'.ids = auto.ids /\ registry' = registry /\ results' = results
  BY <1>1, StageType DEF WriteReport, GoTo, Stages
<1>3. UNCHANGED <<clock, status, sync, bundle, writer, framework, snapshot, starts, nextId>>
  BY DEF WriteReport, exchange, bundles
<1>4. /\ reports' \in [files : SUBSET Nat, index : SUBSET Nat]
      /\ reports'.index = reports.index
      /\ reports'.files = reports.files \cup {starts[Automation]}
  BY Names DEF WriteReport, TypeOK
<1>5. TypeOK'
  BY <1>2, <1>3, <1>4 DEF TypeOK
<1>6. Outputs'
  BY <1>2, <1>3, <1>4 DEF Outputs, BundlesAreWhole, OutputsPointAtFiles, Complete, At
<1> QED
  BY <1>1, <1>2, <1>3, <1>5, <1>6, QuietStep DEF BatchStages

\* Writing the index of the reports keeps the invariant.
LEMMA WriteReportIndexStep ==
  ASSUME AutomationInv, WriteReportIndex
  PROVE  AutomationInv'
<1> USE DEF AutomationInv
<1>1. auto.stage = "index" /\ auto.todo # <<>> /\ auto \in AutoStates
  BY DEF WriteReportIndex, At, TypeOK, Budget
<1>2. /\ auto' \in AutoStates /\ auto'.stage = "task" /\ auto'.todo = Tail(auto.todo)
      /\ auto'.ids = auto.ids
  BY <1>1, StageType DEF WriteReportIndex, TaskDone, Stages
<1>3. UNCHANGED <<clock, status, sync, bundle, writer, registry, framework, snapshot,
                  starts, nextId>>
  BY DEF WriteReportIndex, exchange, bundles
<1>4. PICK x \in TaskResults :
        results' = Append(results, x) /\ x.task = "report" /\ x.ids = <<>>
  BY PlainResult DEF WriteReportIndex, TaskDone, TaskNames
<1>5. /\ reports' \in [files : SUBSET Nat, index : SUBSET Nat]
      /\ reports'.files = reports.files
      /\ reports'.index = reports.index \cup {starts[Automation]}
  BY Names DEF WriteReportIndex, TypeOK
<1>6. TypeOK'
  BY <1>2, <1>3, <1>4, <1>5 DEF TypeOK
<1>7. Outputs'
  BY <1>1, <1>2, <1>3, <1>5 DEF Outputs, BundlesAreWhole, OutputsPointAtFiles, Complete, At
<1> QED
  BY <1>1, <1>2, <1>3, <1>4, <1>6, <1>7, QuietStep DEF BatchStages

\* The automation bundle.
LEMMA WriteFrameworkStep ==
  ASSUME AutomationInv, WriteFramework
  PROVE  AutomationInv'
<1> USE DEF AutomationInv
<1>1. auto.stage \in {"task", "framework"} /\ auto \in AutoStates
  BY DEF WriteFramework, At, TypeOK
<1>2. /\ auto' \in AutoStates /\ auto'.stage \in {"framework", "snapshot"}
      /\ auto'.todo = auto.todo /\ auto'.ids = auto.ids
      /\ registry' = registry /\ results' = results
      /\ framework' \in {"torn", "manifest", "whole"}
  <2>1. CASE GoTo("framework") /\ framework' = "torn"
    BY <1>1, <2>1, StageType DEF GoTo, Stages
  <2>2. CASE At("framework") /\ framework' = "manifest" /\ UNCHANGED process
    BY <1>1, <2>2 DEF At, process
  <2>3. CASE GoTo("snapshot") /\ framework' = "whole"
    BY <1>1, <2>3, StageType DEF GoTo, Stages
  <2> QED
    BY <2>1, <2>2, <2>3 DEF WriteFramework
<1>3. UNCHANGED <<clock, status, sync, bundle, writer, reports, snapshot, starts, nextId>>
  BY DEF WriteFramework, exchange, bundles
<1>4. TypeOK'
  BY <1>2, <1>3 DEF TypeOK
<1>5. Budget' /\ Fresh' /\ Writing' /\ Published' /\ Reported'
  BY <1>1, <1>2, <1>3, QuietStep DEF BatchStages
<1> QED
  BY <1>2, <1>3, <1>4, <1>5, OutputsKept

\* The run the snapshot may point at.
LEMMA SnapshotRuns ==
  ASSUME AutomationInv,
         NEW r \in IF RecentRuns # {} THEN RecentRuns
                   ELSE IF LoadManifests # {} THEN LoadManifests ELSE {NoRun}
  PROVE  r \in RunIds \cup {NoRun} /\ Trusted(r)
<1> USE DEF AutomationInv
<1>1. CASE r \in RecentRuns
  <2>1. PICK i \in DOMAIN results :
          results[i].ids # <<>> /\ r = results[i].ids[Len(results[i].ids)]
    BY <1>1 DEF RecentRuns
  <2>2. results[i].ids \in Seq(RunIds)
    <3>1. results[i] \in TaskResults
      BY <2>1 DEF TypeOK
    <3> QED
      BY <3>1 DEF TaskResults
  <2>3. Len(results[i].ids) \in DOMAIN results[i].ids
    BY <2>1, <2>2
  <2>4. Done(r)
    BY <2>1, <2>3 DEF Reported
  <2> QED
    BY <2>4 DEF Done, Trusted
<1>2. CASE r \in LoadManifests
  BY <1>2 DEF LoadManifests, Trusted, Outputs, BundlesAreWhole
<1>3. CASE r = NoRun
  BY <1>3, Names DEF Trusted
<1> QED
  BY <1>1, <1>2, <1>3

\* Building a dashboard snapshot keeps the invariant.
LEMMA BuildSnapshotStep ==
  ASSUME AutomationInv, BuildSnapshot
  PROVE  AutomationInv'
<1> USE DEF AutomationInv
<1>1. auto.stage = "snapshot" /\ auto \in AutoStates
  BY DEF BuildSnapshot, At, TypeOK
<1>2. UNCHANGED <<clock, status, sync, bundle, writer, framework, reports, snapshot,
                  starts, nextId>>
  BY DEF BuildSnapshot, exchange, bundles, outputs
<1>3. CASE ManifestsReadable
  <2>1. PICK r \in IF RecentRuns # {} THEN RecentRuns
                   ELSE IF LoadManifests # {} THEN LoadManifests ELSE {NoRun} :
          auto' = [auto EXCEPT !.stage = "replace", !.id = r]
    BY <1>3 DEF BuildSnapshot
  <2>2. r \in RunIds \cup {NoRun} /\ Trusted(r)
    BY SnapshotRuns
  <2>3. registry' = registry /\ results' = results
    BY <1>3 DEF BuildSnapshot
  <2>4. /\ auto' \in AutoStates /\ auto'.stage = "replace" /\ auto'.id = r
        /\ auto'.todo = auto.todo /\ auto'.ids = auto.ids
    BY <1>1, <2>1, <2>2 DEF AutoStates, Stages
  <2>5. TypeOK'
    BY <1>2, <2>3, <2>4 DEF TypeOK
  <2>6. Budget' /\ Fresh' /\ Writing' /\ Published' /\ Reported'
    BY <1>1, <1>2, <2>3, <2>4, QuietStep DEF BatchStages
  <2>7. Outputs'
    BY <1>2, <2>2, <2>4
    DEF Outputs, BundlesAreWhole, OutputsPointAtFiles, Trusted, Complete, At
  <2> QED
    BY <2>5, <2>6, <2>7
<1>4. CASE ~ManifestsReadable
  BY <1>1, <1>2, <1>4, Ended DEF BuildSnapshot, At, TypeOK
<1> QED
  BY <1>3, <1>4

\* Replacing the published snapshot keeps the invariant.
LEMMA ReplaceSnapshotStep ==
  ASSUME AutomationInv, ReplaceSnapshot
  PROVE  AutomationInv'
<1> USE DEF AutomationInv
<1>1. UNCHANGED <<clock, status, sync, bundle, writer, framework, reports, starts, nextId>>
  BY DEF ReplaceSnapshot, exchange, bundles
<1>2. Exit /\ snapshot' = auto.id /\ ~At("bundle") /\ Trusted(auto.id)
  BY DEF ReplaceSnapshot, At, Outputs
<1>3. auto.id \in RunIds \cup {NoRun} /\ sync' \in SyncStates
  BY <1>1 DEF TypeOK, AutoStates
<1>4. snapshot' \in RunIds \cup {NoRun} /\ Trusted(snapshot')
  BY <1>2, <1>3
<1> QED
  BY <1>1, <1>2, <1>3, <1>4, Ended

\* A crash of the automated run at any of its stages keeps the invariant.
LEMMA KillStep ==
  ASSUME AutomationInv, Kill
  PROVE  AutomationInv'
<1>1. UNCHANGED <<clock, status, bundle, framework, reports, snapshot, starts, nextId>>
  BY DEF Kill, DropWriter, exchange, outputs
<1>2. Exit /\ sync' \in SyncStates /\ writer' = [writer EXCEPT ![Automation] = IdleWriter]
  BY IdleSyncType DEF Kill, DropWriter
<1> QED
  BY <1>1, <1>2, Ended

-----------------------------------------------------------------------------
(***************************************************************************)
(* Steps of others.                                                        *)
(***************************************************************************)
LEMMA RunByHandStep ==
  ASSUME AutomationInv, RunByHand
  PROVE  AutomationInv'
<1> USE DEF AutomationInv
<1>1. UNCHANGED <<clock, status, sync, bundle, process, outputs, nextId>>
  BY DEF RunByHand, exchange
<1>2. PICK filled \in SUBSET ArtifactFiles : StartBundle(Manual, ManualId, filled)
  BY DEF RunByHand
<1>3. /\ writer' \in [Writers -> WriterStates] /\ writer'[Automation] = writer[Automation]
      /\ writer'[Manual].id = ManualId
  <2>1. [stage |-> "clear", id |-> ManualId, filled |-> filled, todo |-> filled] \in WriterStates
    BY Names DEF WriterStates, WriterStages
  <2> QED
    BY <1>2, <2>1, Names DEF StartBundle, TypeOK
<1>4. starts' \in [Writers -> Nat] /\ starts'[Automation] = starts[Automation]
  BY Names DEF RunByHand, TypeOK
<1>5. TypeOK'
  BY <1>1, <1>3, <1>4 DEF TypeOK, process, outputs
<1> QED
  BY <1>1, <1>3, <1>4, <1>5, OthersStep

\* A bundle written by hand, beside a running batch, keeps the invariant.
LEMMA BundleByHandStep ==
  ASSUME AutomationInv, BundleByHand
  PROVE  AutomationInv'
<1> USE DEF AutomationInv
<1>1. UNCHANGED <<clock, status, sync, process, outputs, starts, nextId>>
  BY DEF BundleByHand, exchange
<1>2. /\ bundle \in [RunIds -> Bundles] /\ writer \in [Writers -> WriterStates]
      /\ writer[Manual].id = ManualId
  BY DEF TypeOK, Writing
<1>3. /\ bundle' \in [RunIds -> Bundles] /\ writer' \in [Writers -> WriterStates]
      /\ writer'[Automation] = writer[Automation] /\ writer'[Manual].id = ManualId
      /\ \A r \in RunIds \ {ManualId} : bundle'[r] = bundle[r]
  <2>0. IdleWriter.id = ManualId
    BY DEF IdleWriter, ManualId
  <2>1. CASE BundleStep(Manual)
    BY <1>2, <2>0, <2>1, BundleSteps, Names
  <2>2. CASE DropWriter(Manual)
    BY <1>2, <2>0, <2>2, Names DEF DropWriter
  <2> QED
    BY <2>1, <2>2 DEF BundleByHand
<1>4. TypeOK'
  BY <1>1, <1>3 DEF TypeOK, process, outputs
<1> QED
  BY <1>1, <1>3, <1>4, OthersStep

\* A change of the market or the clock keeps the invariant.
LEMMA EnvironmentStep ==
  ASSUME AutomationInv, Environment
  PROVE  AutomationInv'
<1> USE DEF AutomationInv
<1>1. UNCHANGED <<sync, bundle, writer, process, outputs, starts, nextId>>
  BY DEF Environment, bundles
<1>2. clock' \in 0..MaxClock /\ status' \in [Markets -> {"new", "open", "closed"}]
  <2>1. PICK m \in Markets : Open(m) \/ CloseMarket(m)
    BY DEF Environment, Exchange
  <2>2. clock \in 0..MaxClock /\ MaxClock \in Nat
    BY SyncAssumption DEF TypeOK
  <2>3. clock' \in 0..MaxClock
    BY <2>1, <2>2 DEF Open, CloseMarket, Pass
  <2> QED
    BY <2>1, <2>3 DEF Open, CloseMarket, TypeOK
<1>3. TypeOK'
  BY <1>1, <1>2 DEF TypeOK, process, outputs
<1> QED
  BY <1>1, <1>3, OthersStep DEF Writing

-----------------------------------------------------------------------------
(***************************************************************************)
(* The batch.                                                              *)
(***************************************************************************)
\* While a run is prepared, run, measured or written its directory has no
\* manifest, so nothing that is done can be the run in progress.
LEMMA NotDoneYet ==
  ASSUME AutomationInv, auto.stage \in RunStages
  PROVE  auto.id \in RunIds /\ ~Done(auto.id)
<1> USE DEF AutomationInv
<1>1. auto.id \in RunIds
  BY DEF Fresh
<1>2. CASE auto.stage \in {"run", "metrics"}
  BY <1>2 DEF Fresh, EmptyBundle, Done, Complete
<1>3. CASE auto.stage = "bundle"
  <2>1. Progress(writer[Automation], bundle[auto.id]) /\ writer[Automation].stage # "idle"
    BY <1>3 DEF Writing, At
  <2>2. writer[Automation].stage \in WriterStages
    BY Names DEF TypeOK, WriterStates
  <2>3. bundle[auto.id].manifest # "whole"
    <3> DEFINE w == writer[Automation]
               d == bundle[auto.id]
    <3>1. Progress(w, d) /\ w.stage \in WriterStages \ {"idle"}
      BY <2>1, <2>2
    <3>2. EmptyBundle.manifest = "none"
      BY DEF EmptyBundle
    <3> HIDE DEF w, d
    <3>3. d.manifest # "whole"
      BY <3>1, <3>2 DEF Progress, WriterStages
    <3> QED
      BY <3>3 DEF d
  <2> QED
    BY <1>1, <2>3 DEF Done, Complete
<1> QED
  BY <1>1, <1>2, <1>3 DEF RunStages

\* A step within the batch after which a later strategy can still follow.
\* The runs that are done stay done, no task reports, no id is taken back.
LEMMA BatchStep ==
  ASSUME AutomationInv, auto.stage \in BatchStages, auto'.stage \in BatchStages,
         auto'.todo = auto.todo, UNCHANGED <<results, starts, reports, snapshot>>,
         nextId' \in Nat, nextId <= nextId', nextId' + RunsAhead' <= nextId + RunsAhead,
         auto'.left \in 1..StrategyCount,
         \A r \in RunIds : Complete(r) => bundle'[r] = bundle[r],
         \A r \in RunIds : Done(r) => registry'[r] = registry[r]
  PROVE  /\ Budget'
         /\ \A r \in RunIds : Done(r) => Done(r)'
         /\ Reported'
         /\ snapshot' \in RunIds \ {ManualId} => Complete(snapshot)'
         /\ (~At("index"))' /\ (~At("replace"))'
<1> USE DEF AutomationInv
<1>1. Budget'
  <2>1. nextId \in Nat /\ nextId + RunsAhead <= starts[Automation] * StrategyCount + 1
    BY DEF TypeOK, Budget
  <2>2. starts[Automation] * StrategyCount \in Nat
    <3>1. starts[Automation] \in Nat /\ StrategyCount \in Nat
      BY Names, AutomationAssumption DEF TypeOK
    <3>2. starts[Automation] <= starts[Automation]
      BY <3>1
    <3> QED
      BY <3>1, <3>2, Products
  <2>3. RunsAhead \in Nat
    BY AutomationAssumption DEF RunsAhead, Budget
  <2>4. RunsAhead' \in Nat
    BY AutomationAssumption DEF RunsAhead
  <2>5. nextId' + RunsAhead' <= starts'[Automation] * StrategyCount + 1
    BY <2>1, <2>2, <2>3, <2>4, WithinBudget
  <2>6. /\ auto.todo # <<>> /\ Head(auto.todo) = "strategy_batch" /\ Once(auto.todo)
        /\ starts[Automation] <= MaxStarts
    BY DEF Budget
  <2>7. auto'.stage \notin {"sync", "report", "index"}
    BY DEF BatchStages
  <2>8. Once(auto'.todo)
    BY <2>6
  <2> QED
    BY <2>5, <2>6, <2>7, <2>8 DEF Budget
<1>2. \A r \in RunIds : Done(r) => Done(r)'
  <2>1. nextId \in Nat /\ \A r \in RunIds : r \in Nat
    BY Names DEF TypeOK
  <2> QED
    BY <2>1 DEF Done, Complete
<1>3. Reported'
  <2>1. (\A i \in DOMAIN results : \A j \in DOMAIN results[i].ids : Done(results[i].ids[j]))'
    <3>1. \A i \in DOMAIN results : \A j \in DOMAIN results[i].ids :
            results[i].ids[j] \in RunIds /\ Done(results[i].ids[j])
      BY DEF Reported, Done
    <3> QED
      BY <1>2, <3>1, ZenonT(60) DEF Done, Complete
  <2>2. \A i \in DOMAIN results : results[i].task # "strategy_batch"
    BY DEF Reported
  <2> QED
    BY <2>1, <2>2 DEF Reported, At, BatchStages
<1>4. snapshot' \in RunIds \ {ManualId} => Complete(snapshot)'
  BY DEF Outputs, OutputsPointAtFiles, Complete
<1> QED
  BY <1>1, <1>2, <1>3, <1>4 DEF BatchStages, At

\* A strategy batch starts with a budget for all its strategies.
LEMMA BatchStarts ==
  ASSUME AutomationInv, BatchTask, PrerequisitesOk, StrategyCount > 0
  PROVE  AutomationInv'
<1> USE DEF AutomationInv
<1>1. /\ auto.stage = "task" /\ auto.todo # <<>> /\ Head(auto.todo) = "strategy_batch"
      /\ auto \in AutoStates /\ auto.todo \in Seq(TaskNames)
  BY DEF BatchTask, At, Task, TypeOK, AutoStates
<1>2. /\ auto' = [auto EXCEPT !.stage = "prepare", !.left = StrategyCount, !.ids = <<>>,
                     !.failed = FALSE]
      /\ UNCHANGED <<clock, status, sync, bundle, writer, registry, results, framework,
                     reports, snapshot, starts, nextId>>
  BY DEF BatchTask, exchange, bundles, outputs
<1>3. /\ auto' \in AutoStates /\ auto'.stage = "prepare" /\ auto'.left = StrategyCount
      /\ auto'.ids = <<>> /\ auto'.failed = FALSE /\ auto'.todo = auto.todo
  <2>1. <<>> \in Seq(RunIds)
    OBVIOUS
  <2> QED
    BY <1>1, <1>2, <2>1, AutomationAssumption DEF AutoStates, Stages
<1>4. TypeOK'
  BY <1>2, <1>3 DEF TypeOK
<1>5. Ahead(auto.todo)
  BY <1>1, AfterTask DEF Budget
<1>6. Budget'
  <2>1. RunsAhead = StrategyCount /\ RunsAhead' = StrategyCount
    BY <1>1, <1>3, <1>5 DEF RunsAhead, BatchStages, At
  <2>2. StrategyCount \in 1..StrategyCount
    BY AutomationAssumption
  <2>3. Once(auto'.todo) /\ starts' = starts /\ nextId' = nextId
    BY <1>2, <1>3 DEF Budget
  <2> QED
    BY <1>1, <1>3, <2>1, <2>2, <2>3 DEF Budget
<1>7. Fresh' /\ Writing'
  BY <1>1, <1>2, <1>3 DEF Fresh, Writing, RunStages, At
<1>8. Outputs'
  BY <1>2, <1>3, OutputsKept
<1>9. registry = NoRuns /\ \A i \in DOMAIN results : results[i].task # "strategy_batch"
  BY <1>1, <1>5 DEF Reported, BatchStages
<1>10. Published'
  <2>1. ToSet(auto'.ids) = {}
    BY <1>3 DEF ToSet
  <2>2. Cardinality(ToSet(auto'.ids)) = 0 /\ StrategiesDone' = 0
    <3>1. Cardinality({}) = 0
      BY FS_EmptySet
    <3>2. StrategiesDone' = 0
      BY <1>3, AutomationAssumption DEF StrategiesDone, At
    <3> QED
      BY <2>1, <3>1, <3>2
  <2>3. \A r \in RunIds : registry'[r] = "none"
    BY <1>2, <1>9 DEF NoRuns
  <2> QED
    BY <1>3, <2>2, <2>3 DEF Published, Covers, At
<1>11. Reported'
  <2>1. (\A i \in DOMAIN results : \A j \in DOMAIN results[i].ids : Done(results[i].ids[j]))'
    <3>1. \A i \in DOMAIN results : \A j \in DOMAIN results[i].ids : Done(results[i].ids[j])
      BY DEF Reported
    <3> QED
      BY <1>2, <3>1 DEF Done, Complete
  <2> QED
    BY <1>2, <1>3, <1>9, <2>1 DEF Reported, BatchStages, At
<1> QED
  BY <1>4, <1>6, <1>7, <1>8, <1>10, <1>11

\* A strategy that fails, at whatever point: the next one follows.
LEMMA FailsStep ==
  ASSUME AutomationInv, StrategyFails, auto.stage \in RunStages \cup {"prepare"},
         UNCHANGED <<clock, status, sync, bundle, results, framework, reports, snapshot,
                     starts, nextId>>,
         registry' = registry \/
           (auto.stage \in RunStages /\ registry' = [registry EXCEPT ![auto.id] = "error"]),
         (writer' = writer /\ ~At("bundle")) \/ writer' = [writer EXCEPT ![Automation] = IdleWriter]
  PROVE  AutomationInv'
<1> USE DEF AutomationInv
<1>1. auto \in AutoStates /\ auto.stage \in BatchStages
  BY DEF TypeOK, RunStages, BatchStages
<1>2. /\ auto' \in AutoStates /\ auto'.stage = "next" /\ auto'.failed = TRUE
      /\ auto'.todo = auto.todo /\ auto'.left = auto.left /\ auto'.ids = auto.ids
  BY <1>1 DEF StrategyFails, AutoStates, Stages
<1>3. TypeOK'
  BY <1>2, Names, SMTT(30) DEF TypeOK, RunStates
<1>4. \A r \in RunIds : Done(r) => registry'[r] = registry[r]
  BY NotDoneYet DEF TypeOK
<1>5. nextId' + RunsAhead' <= nextId + RunsAhead /\ nextId' \in Nat /\ nextId <= nextId'
      /\ auto'.left \in 1..StrategyCount
  <2>1. auto.left \in 1..StrategyCount /\ nextId \in Nat
    BY <1>1 DEF Budget, TypeOK
  <2>2. RunsAhead' = auto.left - 1 /\ RunsAhead \in {auto.left, auto.left - 1}
    BY <1>1, <1>2 DEF RunsAhead, BatchStages, At
  <2> QED
    BY <1>2, <2>1, <2>2, AutomationAssumption
<1>6. /\ Budget' /\ Reported' /\ \A r \in RunIds : Done(r) => Done(r)'
      /\ snapshot' \in RunIds \ {ManualId} => Complete(snapshot)'
  BY <1>1, <1>2, <1>4, <1>5, BatchStep DEF BatchStages
<1>7. Fresh'
  BY <1>2 DEF Fresh, RunStages
<1>8. Writing'
  <2>1. writer'[Manual] = writer[Manual]
    BY Names DEF TypeOK
  <2>2. writer'[Automation].stage = "idle"
    BY Names DEF TypeOK, Writing, IdleWriter
  <2> QED
    BY <1>2, <2>1, <2>2 DEF Writing, At
<1>9. Outputs'
  BY <1>2, OutputsKept
<1>10. Published'
  <2>1. \A i \in DOMAIN auto.ids : auto.ids[i] \in RunIds /\ Done(auto.ids[i])
    BY DEF Published, Done
  <2> QED
    BY <1>2, <1>6, <2>1 DEF Published, Done, Complete, At
<1> QED
  BY <1>3, <1>6, <1>7, <1>8, <1>9, <1>10

\* The market a batch runs in is a market or none.
LEMMA SelectedMarket ==
  ASSUME NEW scored, NEW m \in SelectNearExpiry(scored)
  PROVE  m \in Markets \cup {NoMarket}
  BY DEF SelectNearExpiry, NearExpiry, ListMarkets

\* Published, after a step that finishes no run: left, failed and ids are as
\* they were.
LEMMA PublishedKept ==
  ASSUME AutomationInv, auto.stage \in {"prepare", "run", "metrics"},
         auto'.stage \in RunStages, auto'.ids = auto.ids, auto'.left = auto.left,
         auto'.failed = auto.failed,
         \A r \in RunIds : Done(r) => Done(r)',
         auto'.stage = "bundle" => registry'[auto'.id] = "finished",
         auto.stage \in RunStages => auto'.id = auto.id,
         \A r \in RunIds : r # auto'.id => registry'[r] = registry[r]
  PROVE  Published'
<1>1. (\A i \in DOMAIN auto.ids : Done(auto.ids[i]))'
  <2>1. \A i \in DOMAIN auto.ids : auto.ids[i] \in RunIds /\ Done(auto.ids[i])
    BY DEF AutomationInv, Published, Done
  <2> QED
    BY <2>1 DEF Done, Complete
<1>2. ASSUME ~auto.failed
      PROVE  /\ Cardinality(ToSet(auto'.ids)) = StrategiesDone'
             /\ Covers(ToSet(auto.ids) \cup (IF auto.stage \in RunStages THEN {auto.id} ELSE {}))'
  <2>1. StrategiesDone' = StrategiesDone
    BY DEF StrategiesDone, At, RunStages
  <2>2. /\ Cardinality(ToSet(auto.ids)) = StrategiesDone
        /\ Covers(ToSet(auto.ids) \cup (IF auto.stage \in RunStages THEN {auto.id} ELSE {}))
    BY <1>2 DEF AutomationInv, Published, BatchStages
  <2>3. Cardinality(ToSet(auto'.ids)) = StrategiesDone'
    BY <2>1, <2>2
  <2>4. ASSUME NEW r \in RunIds, registry'[r] # "none", r # auto'.id
        PROVE  r \in ToSet(auto'.ids)
    BY <2>2, <2>4 DEF Covers
  <2> QED
    BY <2>3, <2>4 DEF Covers
<1> QED
  BY <1>1, <1>2 DEF Published, At

\* Preparing the runtime of a strategy keeps the invariant.
LEMMA PrepareStep ==
  ASSUME AutomationInv, Prepare(TRUE)
  PROVE  AutomationInv'
<1> USE DEF AutomationInv
<1>1. /\ auto.stage = "prepare" /\ auto \in AutoStates /\ auto.left \in 1..StrategyCount
      /\ nextId \in Nat \ {0}
  BY DEF Prepare, At, TypeOK, Budget, BatchStages
<1>2. /\ UNCHANGED <<clock, status, sync, bundle, writer, results, framework, reports,
                     snapshot, starts>>
      /\ nextId' = nextId + 1
      /\ registry' = [registry EXCEPT ![nextId] = "starting"]
  BY DEF Prepare, exchange, bundles, outputs
<1>3. PICK m \in Markets \cup {NoMarket} :
        auto' = [auto EXCEPT !.stage = "run", !.id = nextId, !.market = m]
  BY SelectedMarket DEF Prepare
<1>4. nextId \in RunIds
  <2>1. RunsAhead = auto.left
    BY <1>1 DEF RunsAhead, BatchStages, At
  <2>2. /\ starts[Automation] \in Nat /\ starts[Automation] <= MaxStarts
        /\ nextId + auto.left <= starts[Automation] * StrategyCount + 1
    BY <2>1, Names DEF Budget, TypeOK
  <2>3. /\ starts[Automation] * StrategyCount <= MaxStarts * StrategyCount
        /\ starts[Automation] * StrategyCount \in Nat
    BY <2>2, Products, AutomationAssumption
  <2>4. \A k, n \in Nat : nextId + auto.left <= k + 1 /\ k <= n => nextId \in 0..n
    BY <1>1, AutomationAssumption
  <2>5. MaxStarts * StrategyCount \in Nat
    BY AutomationAssumption
  <2> QED
    BY <2>2, <2>3, <2>4, <2>5, AutomationAssumption
<1>5. /\ auto' \in AutoStates /\ auto'.stage = "run" /\ auto'.id = nextId
      /\ auto'.todo = auto.todo /\ auto'.left = auto.left /\ auto'.ids = auto.ids
      /\ auto'.failed = auto.failed
  BY <1>1, <1>3, <1>4 DEF AutoStates, Stages
<1>6. TypeOK'
  <2>1. nextId' \in Nat \ {0}
    BY <1>1, <1>2
  <2>2. registry' \in [RunIds -> RunStates]
    BY <1>2 DEF TypeOK, RunStates
  <2> QED
    BY <1>2, <1>5, <2>1, <2>2 DEF TypeOK
<1>7. /\ \A r \in RunIds : Done(r) => registry'[r] = registry[r]
      /\ \A r \in RunIds : r # auto'.id => registry'[r] = registry[r]
  BY <1>1, <1>2, <1>5 DEF TypeOK, Done
<1>8. nextId' + RunsAhead' <= nextId + RunsAhead
  <2>1. RunsAhead = auto.left /\ RunsAhead' = auto.left - 1
    BY <1>1, <1>5 DEF RunsAhead, BatchStages, At
  <2> QED
    BY <1>1, <1>2, <2>1, AutomationAssumption
<1>9. /\ Budget' /\ Reported' /\ \A r \in RunIds : Done(r) => Done(r)'
  BY <1>1, <1>2, <1>5, <1>7, <1>8, BatchStep DEF BatchStages
<1>10. Fresh'
  BY <1>1, <1>2, <1>4, <1>5, Names DEF Fresh, RunStages
<1>11. Writing'
  BY <1>1, <1>2, <1>5 DEF Writing, At
<1>12. Outputs'
  BY <1>2, <1>5, OutputsKept
<1>13. Published'
  BY <1>1, <1>5, <1>7, <1>9, PublishedKept DEF RunStages
<1> QED
  BY <1>6, <1>9, <1>10, <1>11, <1>12, <1>13

\* Running a strategy keeps the invariant.
LEMMA RunStrategyStep ==
  ASSUME AutomationInv, RunStrategy(TRUE)
  PROVE  AutomationInv'
<1> USE DEF AutomationInv
<1>1. auto.stage = "run" /\ auto \in AutoStates /\ auto.left \in 1..StrategyCount
  BY DEF RunStrategy, At, TypeOK, Budget, BatchStages
<1>2. /\ UNCHANGED <<clock, status, sync, bundle, writer, results, framework, reports,
                     snapshot, starts, nextId>>
      /\ registry' = [registry EXCEPT ![auto.id] = "running"]
      /\ auto' = [auto EXCEPT !.stage = "metrics"]
  BY DEF RunStrategy, exchange, bundles, outputs
<1>3. /\ auto' \in AutoStates /\ auto'.stage = "metrics" /\ auto'.id = auto.id
      /\ auto'.todo = auto.todo /\ auto'.left = auto.left /\ auto'.ids = auto.ids
      /\ auto'.failed = auto.failed
  BY <1>1, <1>2 DEF AutoStates, Stages
<1>4. TypeOK'
  BY <1>2, <1>3 DEF TypeOK, RunStates
<1>5. /\ \A r \in RunIds : Done(r) => registry'[r] = registry[r]
      /\ \A r \in RunIds : r # auto'.id => registry'[r] = registry[r]
  BY <1>1, <1>2, <1>3, NotDoneYet DEF TypeOK, RunStages
<1>6. RunsAhead' = RunsAhead /\ nextId \in Nat /\ RunsAhead \in Nat
  BY <1>1, <1>3, AutomationAssumption DEF RunsAhead, BatchStages, At, TypeOK
<1>7. /\ Budget' /\ Reported' /\ \A r \in RunIds : Done(r) => Done(r)'
  BY <1>1, <1>2, <1>3, <1>5, <1>6, BatchStep DEF BatchStages
<1>8. Fresh'
  BY <1>1, <1>2, <1>3 DEF Fresh, RunStages
<1>9. Writing'
  BY <1>1, <1>2, <1>3 DEF Writing, At
<1>10. Outputs'
  BY <1>2, <1>3, OutputsKept
<1>11. Published'
  BY <1>1, <1>3, <1>5, <1>7, PublishedKept DEF RunStages
<1> QED
  BY <1>4, <1>7, <1>8, <1>9, <1>10, <1>11

\* Writing the metrics of a run keeps the invariant.
LEMMA FinishRunStep ==
  ASSUME AutomationInv, FinishRun(TRUE)
  PROVE  AutomationInv'
<1> USE DEF AutomationInv
<1>1. auto.stage = "metrics" /\ auto \in AutoStates /\ auto.left \in 1..StrategyCount
  BY DEF FinishRun, At, TypeOK, Budget, BatchStages
<1>2. /\ UNCHANGED <<clock, status, sync, bundle, results, framework, reports, snapshot,
                     starts, nextId>>
      /\ registry' = [registry EXCEPT ![auto.id] = "finished"]
      /\ auto' = [auto EXCEPT !.stage = "bundle"]
  BY DEF FinishRun, exchange, outputs
<1>3. PICK filled \in SUBSET ArtifactFiles : StartBundle(Automation, auto.id, filled)
  BY DEF FinishRun
<1>4. /\ auto' \in AutoStates /\ auto'.stage = "bundle" /\ auto'.id = auto.id
      /\ auto'.todo = auto.todo /\ auto'.left = auto.left /\ auto'.ids = auto.ids
      /\ auto'.failed = auto.failed
  BY <1>1, <1>2 DEF AutoStates, Stages
<1>5. auto.id \in RunIds \ {ManualId} /\ bundle[auto.id] = EmptyBundle
  BY <1>1 DEF Fresh, RunStages
<1>6. /\ writer' \in [Writers -> WriterStates] /\ writer'[Manual] = writer[Manual]
      /\ writer'[Automation]
           = [stage |-> "clear", id |-> auto.id, filled |-> filled, todo |-> filled]
  <2>1. [stage |-> "clear", id |-> auto.id, filled |-> filled, todo |-> filled] \in WriterStates
    BY <1>5 DEF WriterStates, WriterStages
  <2> QED
    BY <1>3, <2>1, Names DEF StartBundle, TypeOK
<1>7. TypeOK'
  BY <1>2, <1>4, <1>6 DEF TypeOK, RunStates
<1>8. /\ \A r \in RunIds : Done(r) => registry'[r] = registry[r]
      /\ \A r \in RunIds : r # auto'.id => registry'[r] = registry[r]
      /\ registry'[auto'.id] = "finished"
  BY <1>1, <1>2, <1>4, <1>5, NotDoneYet DEF TypeOK, RunStages
<1>9. RunsAhead' = RunsAhead /\ nextId \in Nat /\ RunsAhead \in Nat
  BY <1>1, <1>4, AutomationAssumption DEF RunsAhead, BatchStages, At, TypeOK
<1>10. /\ Budget' /\ Reported' /\ \A r \in RunIds : Done(r) => Done(r)'
  BY <1>1, <1>2, <1>4, <1>8, <1>9, BatchStep DEF BatchStages
<1>11. Fresh'
  BY <1>1, <1>2, <1>4 DEF Fresh, RunStages
<1>12. Writing'
  BY <1>2, <1>4, <1>5, <1>6 DEF Writing, At, Progress
<1>13. Outputs'
  BY <1>2, <1>4, OutputsKept
<1>14. Published'
  BY <1>1, <1>4, <1>8, <1>10, PublishedKept DEF RunStages
<1> QED
  BY <1>7, <1>10, <1>11, <1>12, <1>13, <1>14

\* write_bundle on its way.
LEMMA RunBundleGoesOn ==
  ASSUME AutomationInv, At("bundle"), BundleStep(Automation),
         writer'[Automation] # IdleWriter, auto' = auto,
         UNCHANGED <<clock, status, sync, registry, results, framework, reports, snapshot,
                     starts, nextId>>
  PROVE  AutomationInv'
<1> USE DEF AutomationInv
<1>1. /\ bundle \in [RunIds -> Bundles] /\ writer \in [Writers -> WriterStates]
      /\ auto.stage = "bundle" /\ auto.stage \in RunStages
      /\ auto.id \in RunIds \ {ManualId} /\ writer[Automation].id = auto.id
      /\ Progress(writer[Automation], bundle[auto.id])
  BY DEF At, TypeOK, Fresh, RunStages, Writing
<1>2. /\ bundle' \in [RunIds -> Bundles] /\ writer' \in [Writers -> WriterStates]
      /\ writer'[Manual] = writer[Manual]
      /\ \A r \in RunIds : r # auto.id => bundle'[r] = bundle[r]
  BY <1>1, BundleSteps, Names
<1>3. /\ bundle[auto.id].manifest # "whole" /\ bundle'[auto.id].manifest # "whole"
      /\ writer'[Automation].stage # "idle" /\ writer'[Automation].id = auto.id
      /\ Progress(writer'[Automation], bundle'[auto.id])
  BY <1>1, WriteStep
<1>4. TypeOK'
  BY <1>2 DEF TypeOK
<1>5. \A r \in RunIds : Complete(r) => bundle'[r] = bundle[r] /\ r # auto.id
  BY <1>2, <1>3 DEF Complete
<1>6. nextId' + RunsAhead' <= nextId + RunsAhead /\ nextId' \in Nat /\ nextId <= nextId'
      /\ auto'.left \in 1..StrategyCount
  <2>1. RunsAhead' = RunsAhead /\ auto.left \in 1..StrategyCount /\ nextId \in Nat
    BY <1>1 DEF RunsAhead, At, TypeOK, Budget, BatchStages
  <2>2. RunsAhead \in Nat
    BY <2>1, AutomationAssumption DEF RunsAhead
  <2> QED
    BY <2>1, <2>2
<1>7. /\ Budget' /\ Reported' /\ \A r \in RunIds : Done(r) => Done(r)'
      /\ snapshot' \in RunIds \ {ManualId} => Complete(snapshot)'
  BY <1>1, <1>5, <1>6, BatchStep DEF BatchStages
<1>8. Fresh'
  BY <1>1, <1>2, Names DEF Fresh, RunStages, TypeOK
<1>9. Writing'
  BY <1>1, <1>2, <1>3 DEF Writing, At
<1>10. Outputs'
  <2>1. BundlesAreWhole'
    BY <1>2, <1>3 DEF Outputs, BundlesAreWhole, Complete
  <2> QED
    BY <1>1, <1>7, <2>1 DEF Outputs, OutputsPointAtFiles, At
<1>11. Published'
  <2>1. \A i \in DOMAIN auto.ids : auto.ids[i] \in RunIds /\ Done(auto.ids[i])
    BY DEF Published, Done
  <2> QED
    BY <1>7, <2>1 DEF Published, Done, Complete, Covers, StrategiesDone, At
<1> QED
  BY <1>4, <1>7, <1>8, <1>9, <1>10, <1>11

\* write_bundle returns: the run is done, and its id is reported.
LEMMA RunBundleEnds ==
  ASSUME AutomationInv, At("bundle"), BundleStep(Automation),
         writer'[Automation] = IdleWriter,
         auto' = [auto EXCEPT !.stage = "next", !.ids = Append(@, auto.id), !.id = NoRun],
         UNCHANGED <<clock, status, sync, registry, results, framework, reports, snapshot,
                     starts, nextId>>
  PROVE  AutomationInv'
<1> USE DEF AutomationInv
<1>1. /\ bundle \in [RunIds -> Bundles] /\ writer \in [Writers -> WriterStates]
      /\ auto \in AutoStates /\ auto.stage = "bundle" /\ auto.stage \in RunStages
      /\ auto.id \in RunIds \ {ManualId} /\ auto.id < nextId
      /\ writer[Automation].id = auto.id
      /\ Progress(writer[Automation], bundle[auto.id])
  BY DEF At, TypeOK, Fresh, RunStages, Writing
<1>2. /\ bundle' \in [RunIds -> Bundles] /\ writer' \in [Writers -> WriterStates]
      /\ writer'[Manual] = writer[Manual]
      /\ \A r \in RunIds : r # auto.id => bundle'[r] = bundle[r]
  BY <1>1, BundleSteps, Names
<1>3. bundle[auto.id].manifest # "whole" /\ writer'[Automation].stage = "idle"
  BY <1>1, WriteStep DEF IdleWriter
<1>4. bundle'[auto.id].manifest = "whole" /\ bundle'[auto.id].listed \subseteq bundle'[auto.id].files
  BY <1>1, <1>3, WriteStep DEF Complete, IdleWriter
<1>5. /\ auto' \in AutoStates /\ auto'.stage = "next" /\ auto'.todo = auto.todo
      /\ auto'.left = auto.left /\ auto'.failed = auto.failed
      /\ auto'.ids = Append(auto.ids, auto.id) /\ auto.ids \in Seq(RunIds)
  <2>1. auto.ids \in Seq(RunIds) /\ auto.id \in RunIds
    BY <1>1 DEF AutoStates
  <2>2. Append(auto.ids, auto.id) \in Seq(RunIds)
    BY <2>1
  <2>3. auto' = [auto EXCEPT !.stage = "next", !.ids = Append(auto.ids, auto.id), !.id = NoRun]
    OBVIOUS
  <2> QED
    BY <1>1, <2>1, <2>2, <2>3 DEF AutoStates, Stages
<1>6. TypeOK'
  BY <1>2, <1>5 DEF TypeOK
<1>7. \A r \in RunIds : Complete(r) => bundle'[r] = bundle[r] /\ r # auto.id
  BY <1>2, <1>3 DEF Complete
<1>8. nextId' + RunsAhead' <= nextId + RunsAhead /\ nextId' \in Nat /\ nextId <= nextId'
      /\ auto'.left \in 1..StrategyCount
  <2>1. RunsAhead' = RunsAhead /\ auto.left \in 1..StrategyCount /\ nextId \in Nat
    BY <1>1, <1>5 DEF RunsAhead, At, TypeOK, Budget, BatchStages
  <2>2. RunsAhead \in Nat
    BY <1>1, <2>1, AutomationAssumption DEF RunsAhead, BatchStages, At
  <2> QED
    BY <1>5, <2>1, <2>2
<1>9. /\ Budget' /\ Reported' /\ \A r \in RunIds : Done(r) => Done(r)'
      /\ snapshot' \in RunIds \ {ManualId} => Complete(snapshot)'
  BY <1>1, <1>5, <1>7, <1>8, BatchStep DEF BatchStages
<1>10. Fresh'
  BY <1>1, <1>2, <1>5, Names DEF Fresh, RunStages, TypeOK
<1>11. Writing'
  BY <1>2, <1>3, <1>5 DEF Writing, At
<1>12. Outputs'
  <2>1. BundlesAreWhole'
    BY <1>2, <1>4 DEF Outputs, BundlesAreWhole, Complete
  <2> QED
    BY <1>5, <1>9, <2>1 DEF Outputs, OutputsPointAtFiles, At
<1>13. \A i \in DOMAIN auto'.ids :
         (i \in DOMAIN auto.ids /\ auto'.ids[i] = auto.ids[i]) \/ auto'.ids[i] = auto.id
  BY <1>5
<1>14. (\A i \in DOMAIN auto.ids : Done(auto.ids[i]))'
  <2>1. \A i \in DOMAIN auto.ids : auto.ids[i] \in RunIds /\ Done(auto.ids[i])
    BY DEF Published, Done
  <2>2. registry[auto.id] = "finished"
    BY DEF Published
  <2> QED
    BY <1>1, <1>4, <1>9, <1>13, <2>1, <2>2 DEF Done, Complete
<1>15. ToSet(auto'.ids) = ToSet(auto.ids) \cup {auto.id}
  <2>1. /\ \A i \in DOMAIN auto.ids : i \in DOMAIN auto'.ids /\ auto'.ids[i] = auto.ids[i]
        /\ \E i \in DOMAIN auto'.ids : auto'.ids[i] = auto.id
    BY <1>5
  <2> QED
    BY <1>13, <2>1 DEF ToSet
<1>16. ASSUME ~auto.failed
       PROVE  /\ Cardinality(ToSet(auto'.ids)) = StrategiesDone'
              /\ Covers(ToSet(auto.ids))'
  <2>1. /\ Cardinality(ToSet(auto.ids)) = StrategyCount - auto.left
        /\ Covers(ToSet(auto.ids) \cup {auto.id})
    BY <1>1, <1>16 DEF Published, BatchStages, RunStages, StrategiesDone, At
  <2>2. auto.id \notin ToSet(auto.ids)
    BY <1>1, NotDoneYet DEF Published, ToSet
  <2>3. IsFiniteSet(ToSet(auto.ids))
    <3>1. ToSet(auto.ids) \subseteq RunIds
      BY <1>5 DEF ToSet
    <3>2. IsFiniteSet(RunIds)
      <4>1. MaxStarts * StrategyCount \in Int
        BY AutomationAssumption
      <4> DEFINE n == MaxStarts * StrategyCount
      <4>2. n \in Int /\ 0 \in Int /\ RunIds = 0..n
        BY <4>1, AutomationAssumption
      <4> HIDE DEF n
      <4>3. IsFiniteSet(0..n)
        BY <4>2, FS_Interval
      <4> QED
        BY <4>2, <4>3
    <3> QED
      BY <3>1, <3>2, FS_Subset
  <2>4. Cardinality(ToSet(auto.ids) \cup {auto.id}) = Cardinality(ToSet(auto.ids)) + 1
    BY <2>2, <2>3, FS_AddElement
  <2>5. StrategiesDone' = StrategyCount - (auto.left - 1)
    BY <1>5 DEF StrategiesDone, At
  <2>6. auto.left \in Nat /\ StrategyCount \in Nat
    BY <1>1, AutomationAssumption DEF AutoStates
  <2> QED
    BY <1>15, <2>1, <2>4, <2>5, <2>6 DEF Covers
<1>17. Published'
  BY <1>5, <1>14, <1>16 DEF Published, At, RunStages, Covers
<1> QED
  BY <1>6, <1>9, <1>10, <1>11, <1>12, <1>17

\* Turning to the next strategy keeps the invariant.
LEMMA NextStrategyStep ==
  ASSUME AutomationInv, NextStrategy
  PROVE  AutomationInv'
<1> USE DEF AutomationInv
<1>1. /\ auto.stage = "next" /\ auto \in AutoStates /\ auto.left \in 1..StrategyCount
      /\ auto.todo # <<>> /\ Head(auto.todo) = "strategy_batch"
      /\ auto.todo \in Seq(TaskNames) /\ Once(auto.todo) /\ auto.ids \in Seq(RunIds)
      /\ nextId \in Nat \ {0}
  BY DEF NextStrategy, At, TypeOK, Budget, BatchStages, AutoStates
<1>2. UNCHANGED <<clock, status, sync, bundle, writer, registry, framework, reports,
                  snapshot, starts, nextId>>
  BY DEF NextStrategy, exchange, bundles, outputs
<1>3. RunsAhead = auto.left - 1
  BY <1>1 DEF RunsAhead, BatchStages, At
<1>4. \A i \in DOMAIN auto.ids : Done(auto.ids[i])
  BY DEF Published
<1>5. ASSUME ~auto.failed
      PROVE  /\ Cardinality(ToSet(auto.ids)) = StrategyCount - (auto.left - 1)
             /\ Covers(ToSet(auto.ids))
  BY <1>1, <1>5 DEF Published, StrategiesDone, At, BatchStages, RunStages, Covers
<1>6. CASE auto.left > 1
  <2>1. /\ auto' = [auto EXCEPT !.stage = "prepare", !.left = auto.left - 1,
                       !.market = NoMarket]
        /\ results' = results
    BY <1>6 DEF NextStrategy
  <2>2. auto.left - 1 \in Nat /\ auto.left - 1 \in 1..StrategyCount
    BY <1>1, <1>6, AutomationAssumption
  <2>3. /\ auto' \in AutoStates /\ auto'.stage = "prepare" /\ auto'.todo = auto.todo
        /\ auto'.left = auto.left - 1 /\ auto'.failed = auto.failed
        /\ auto'.ids = auto.ids
    BY <1>1, <2>1, <2>2 DEF AutoStates, Stages
  <2>4. TypeOK'
    BY <1>2, <2>1, <2>3 DEF TypeOK
  <2>5. RunsAhead' = RunsAhead /\ RunsAhead \in Nat
    BY <1>3, <2>2, <2>3 DEF RunsAhead, BatchStages, At
  <2>6. /\ Budget' /\ Reported' /\ \A r \in RunIds : Done(r) => Done(r)'
    BY <1>1, <1>2, <2>1, <2>2, <2>3, <2>5, BatchStep DEF BatchStages
  <2>7. Fresh' /\ Writing'
    BY <1>1, <1>2, <2>3 DEF Fresh, Writing, RunStages, At
  <2>8. Outputs'
    BY <1>2, <2>3, OutputsKept
  <2>9. StrategiesDone' = StrategyCount - (auto.left - 1)
    BY <2>3 DEF StrategiesDone, At
  <2>10. Published'
    <3>1. (\A i \in DOMAIN auto.ids : Done(auto.ids[i]))'
      BY <1>2, <1>4, <2>3 DEF Done, Complete
    <3> QED
      BY <1>2, <1>5, <2>3, <2>9, <3>1 DEF Published, Covers, At, RunStages
  <2> QED
    BY <2>4, <2>6, <2>7, <2>8, <2>10
<1>7. CASE ~(auto.left > 1)
  <2> DEFINE x == Result("strategy_batch", ~auto.failed, auto.ids)
  <2>1. /\ auto' = [OffAuto EXCEPT !.stage = "task", !.todo = Tail(auto.todo)]
        /\ results' = Append(results, x)
    BY <1>7 DEF NextStrategy
  <2>2. /\ Tail(auto.todo) \in Seq(TaskNames) /\ Once(Tail(auto.todo))
        /\ ~Ahead(Tail(auto.todo))
    BY <1>1, AfterTask
  <2>3. /\ auto' \in AutoStates /\ auto'.stage = "task" /\ auto'.ids = <<>>
        /\ auto'.todo = Tail(auto.todo)
    BY <2>1, <2>2, OffType DEF OffAuto, AutoStates, Stages
  <2>4. /\ x \in TaskResults /\ x.ids = auto.ids
        /\ x.status = "success" => ~auto.failed
    BY <1>1 DEF Result, TaskResults, TaskNames
  <2> HIDE DEF x
  <2>5. TypeOK'
    BY <1>2, <2>1, <2>3, <2>4 DEF TypeOK
  <2>6. Budget'
    <3>1. RunsAhead' = 0
      BY <2>2, <2>3 DEF RunsAhead, BatchStages
    <3>2. nextId + auto.left - 1 <= starts[Automation] * StrategyCount + 1
      BY <1>1, <1>3, AutomationAssumption DEF Budget
    <3>3. starts[Automation] * StrategyCount \in Nat
      <4>1. starts[Automation] \in Nat /\ StrategyCount \in Nat
        BY Names, AutomationAssumption DEF TypeOK
      <4>2. starts[Automation] <= starts[Automation]
        BY <4>1
      <4> QED
        BY <4>1, <4>2, Products
    <3>4. nextId + 0 <= starts[Automation] * StrategyCount + 1
      <4>1. auto.left \in Nat \ {0} /\ nextId \in Nat
        BY <1>1, AutomationAssumption
      <4>2. \A s, m \in Nat, n \in Nat \ {0} : m + n - 1 <= s + 1 => m + 0 <= s + 1
        OBVIOUS
      <4> QED
        BY <3>2, <3>3, <4>1, <4>2
    <3>5. starts[Automation] <= MaxStarts
      BY DEF Budget
    <3> QED
      BY <1>2, <2>2, <2>3, <3>1, <3>4, <3>5 DEF Budget, BatchStages
  <2>7. Fresh' /\ Writing'
    BY <1>1, <1>2, <2>3 DEF Fresh, Writing, RunStages, At
  <2>8. Outputs'
    BY <1>2, <2>3, OutputsKept
  <2>9. Published'
    BY <2>3 DEF Published, At, BatchStages
  <2>10. results \in Seq(TaskResults)
    BY DEF TypeOK
  <2>11. \A i \in DOMAIN results' : (i \in DOMAIN results /\ results'[i] = results[i])
                                    \/ results'[i] = x
    BY <2>1, <2>10
  <2>12. auto.left - 1 = 0
    BY <1>1, <1>7, AutomationAssumption
  <2>13. Reported'
    <3>1. ASSUME NEW i \in DOMAIN results', NEW j \in DOMAIN results'[i].ids
          PROVE  results'[i].ids[j] \in RunIds /\ Done(results'[i].ids[j])
      <4>1. CASE i \in DOMAIN results /\ results'[i] = results[i]
        BY <3>1, <4>1 DEF Reported, Done
      <4>2. CASE results'[i] = x
        BY <1>4, <2>4, <3>1, <4>2 DEF Done
      <4> QED
        BY <2>11, <4>1, <4>2
    <3>2. (\A i \in DOMAIN results : \A j \in DOMAIN results[i].ids : Done(results[i].ids[j]))'
      BY <1>2, <3>1 DEF Done, Complete
    <3>3. ASSUME NEW i \in DOMAIN results', results'[i].task = "strategy_batch",
                 results'[i].status = "success"
          PROVE  /\ Cardinality(ToSet(results'[i].ids)) = StrategyCount
                 /\ Covers(ToSet(results'[i].ids))
      <4>1. results'[i] = x
        BY <1>1, <2>11, <3>3 DEF Reported, BatchStages
      <4>2. StrategyCount - 0 = StrategyCount
        BY AutomationAssumption
      <4> QED
        BY <1>5, <2>4, <2>12, <3>3, <4>1, <4>2
    <3>4. (\A i \in DOMAIN results :
             results[i].task = "strategy_batch" /\ results[i].status = "success" =>
               Cardinality(ToSet(results[i].ids)) = StrategyCount
               /\ Covers(ToSet(results[i].ids)))'
      BY <1>2, <3>3 DEF Covers
    <3> QED
      BY <2>2, <2>3, <3>2, <3>4 DEF Reported, BatchStages, At
  <2> QED
    BY <2>5, <2>6, <2>7, <2>8, <2>9, <2>13
<1> QED
  BY <1>6, <1>7

-----------------------------------------------------------------------------
(***************************************************************************)
(* Every step keeps the invariant.                                         *)
(***************************************************************************)
\* A call of the batch that raises.
LEMMA WorkFails ==
  ASSUME AutomationInv, Prepare(FALSE) \/ RunStrategy(FALSE) \/ FinishRun(FALSE) \/ RunBundle(FALSE)
  PROVE  AutomationInv'
<1>1. CASE Prepare(FALSE)
  BY <1>1, FailsStep DEF Prepare, At, exchange, bundles, outputs
<1>2. CASE RunStrategy(FALSE)
  BY <1>2, FailsStep DEF RunStrategy, At, RunStages, exchange, bundles, outputs
<1>3. CASE FinishRun(FALSE)
  BY <1>3, FailsStep DEF FinishRun, At, RunStages, exchange, outputs
<1>4. CASE RunBundle(FALSE)
  BY <1>4, FailsStep DEF RunBundle, DropWriter, At, RunStages, exchange, outputs
<1> QED
  BY <1>1, <1>2, <1>3, <1>4

\* Bundling a run of the batch keeps the invariant.
LEMMA RunBundleStep ==
  ASSUME AutomationInv, RunBundle(TRUE)
  PROVE  AutomationInv'
<1>1. /\ UNCHANGED <<clock, status, sync, registry, results, framework, reports, snapshot,
                     starts, nextId>>
      /\ At("bundle") /\ BundleStep(Automation)
  BY DEF RunBundle, exchange, outputs
<1>2. CASE writer'[Automation] = IdleWriter
  BY <1>1, <1>2, RunBundleEnds DEF RunBundle
<1>3. CASE writer'[Automation] # IdleWriter
  BY <1>1, <1>3, RunBundleGoesOn DEF RunBundle
<1> QED
  BY <1>2, <1>3

\* Every step of the automation keeps the invariant.
LEMMA NextAutomation == AutomationInv /\ [Next]_vars => AutomationInv'
<1> SUFFICES ASSUME AutomationInv, [Next]_vars
             PROVE  AutomationInv'
  OBVIOUS
<1>1. ASSUME NEW plan \in Plans, StartAutomation(plan)
      PROVE  AutomationInv'
  BY <1>1, StartAutomationStep
<1>2. CASE SyncTask \/ SyncDone \/ HealthTask
  BY <1>2, SyncTaskStep, SyncDoneStep, HealthTaskStep
<1>3. CASE BatchTask
  BY <1>3, BatchSkipped, BatchStarts
<1>4. CASE NextStrategy
  BY <1>4, NextStrategyStep
<1>5. CASE ReportTask \/ WriteReport \/ WriteReportIndex \/ WriteFramework
  BY <1>5, ReportTaskStep, WriteReportStep, WriteReportIndexStep, WriteFrameworkStep
<1>6. CASE BuildSnapshot \/ ReplaceSnapshot
  BY <1>6, BuildSnapshotStep, ReplaceSnapshotStep
<1>7. ASSUME NEW ok \in BOOLEAN, Work(ok)
      PROVE  AutomationInv'
  <2>1. CASE RunSync(ok)
    BY <2>1, RunSyncStep
  <2>2. CASE ok = TRUE /\ ~RunSync(ok)
    BY <1>7, <2>2, PrepareStep, RunStrategyStep, FinishRunStep, RunBundleStep DEF Work
  <2>3. CASE ok = FALSE /\ ~RunSync(ok)
    BY <1>7, <2>3, WorkFails DEF Work
  <2> QED
    BY <2>1, <2>2, <2>3
<1>8. CASE Kill
  BY <1>8, KillStep
<1>9. CASE RunByHand \/ BundleByHand \/ Environment
  BY <1>9, RunByHandStep, BundleByHandStep, EnvironmentStep
<1>10. CASE UNCHANGED vars
  <2>1. UNCHANGED <<clock, status, sync, bundle, writer, process, outputs, starts, nextId>>
    BY <1>10 DEF vars, exchange, bundles
  <2>2. TypeOK'
    BY <2>1 DEF AutomationInv, TypeOK, process, outputs
  <2> QED
    BY <2>1, <2>2, OthersStep DEF AutomationInv, Writing
<1> QED
  BY <1>1, <1>2, <1>3, <1>4, <1>5, <1>6, <1>7, <1>8, <1>9, <1>10 DEF Next, AutomationStep

\* The invariant holds in every state of the automation.
LEMMA AutomationAlways == Spec => []AutomationInv
  BY InitAutomation, NextAutomation, PTL DEF Spec

-----------------------------------------------------------------------------
(***************************************************************************)
(* The rows of the sync.                                                   *)
(***************************************************************************)

\* m took orders at some moment since the sync started.
TookOrders(m) == status[m] = "open" \/ closedAt[m] > sync.started

\* What the sync holds of a market was true at a moment of this sync: since
\* then the market may only have closed.
Observed ==
  /\ closedAt \in [Markets -> Nat] /\ sync.started <= clock
  /\ sync.stage \in {"clob", "store"} => \A m \in sync.accepting : TookOrders(m)
  /\ sync.stage = "store" => \A m \in sync.trading : TookOrders(m)

\* _token_for_outcome returns the token of that label, or none without one.
LEMMA TokenFound ==
  ASSUME NEW tokens \in Seq([outcome : STRING, id : {"yes", "no"}]),
         NEW outcome \in {"yes", "no"},
         \A i \in DOMAIN tokens :
           tokens[i].outcome \in {"yes", "no"} => tokens[i].id = tokens[i].outcome
  PROVE  TokenForOutcome(tokens, outcome) =
           IF Labelled(tokens, outcome) THEN outcome ELSE ""
<1> DEFINE places == {i \in 1 .. Len(tokens) : tokens[i].outcome = outcome}
           found == SelectInSeq(tokens, LAMBDA t : t.outcome = outcome)
<1>1. found = IF places # {} THEN Min(places) ELSE 0
  BY DEF SelectInSeq
<1>2. Labelled(tokens, outcome) <=> places # {}
  BY DEF Labelled
<1>3. TokenForOutcome(tokens, outcome) = IF found = 0 THEN "" ELSE tokens[found].id
  BY DEF TokenForOutcome
<1>4. places \subseteq Nat \ {0}
  OBVIOUS
<1>5. \A i \in places : tokens[i].id = outcome
  OBVIOUS
<1> HIDE DEF places, found
<1>6. CASE places # {}
  <2>1. \E i \in places : \A j \in places : i =< j
    BY <1>4, <1>6, NatMin
  <2>2. Min(places) \in places
    BY <2>1 DEF Min
  <2> QED
    BY <1>1, <1>2, <1>3, <1>4, <1>5, <1>6, <2>2
<1>7. CASE places = {}
  BY <1>1, <1>2, <1>3, <1>7
<1> QED
  BY <1>6, <1>7

\* The tokens of the CLOB, or none: labels are true, and without both of them
\* and without Gamma's identifiers the yes token comes first.
LEMMA TruthfulTokens ==
  ASSUME NEW listing, TruthfulListing(listing), NEW clob \in {listing.clob, << >>}
  PROVE  /\ clob \in Seq([outcome : STRING, id : {"yes", "no"}])
         /\ \A i \in DOMAIN clob :
              clob[i].outcome \in {"yes", "no"} => clob[i].id = clob[i].outcome
         /\ \/ Labelled(clob, "yes") /\ Labelled(clob, "no")
            \/ Len(listing.gamma) >= 2
            \/ Len(clob) >= 2 => clob[1].id = "yes" /\ clob[2].id = "no"
<1>1. CASE clob = << >>
  BY <1>1
<1>2. CASE clob = listing.clob
  <2> DEFINE Entry == [outcome : STRING, id : {"yes", "no"}]
             ids == [i \in DOMAIN clob |-> clob[i].id]
  <2>1. clob \in Seq(Entry)
    BY <1>2 DEF TruthfulListing
  <2>2. \A i \in DOMAIN clob :
          clob[i].outcome \in {"yes", "no"} => clob[i].id = clob[i].outcome
    BY <1>2 DEF TruthfulListing
  <2>3. \/ Labelled(clob, "yes") /\ Labelled(clob, "no")
        \/ Len(listing.gamma) >= 2
        \/ YesFirst(ids)
    BY <1>2 DEF TruthfulListing
  <2>4. YesFirst(ids) /\ Len(clob) >= 2 => clob[1].id = "yes" /\ clob[2].id = "no"
    <3> HIDE DEF Entry
    <3>1. Len(clob) \in Nat /\ DOMAIN clob = 1 .. Len(clob)
      BY <2>1
    <3>2. Len(ids) = Len(clob)
      BY <3>1
    <3> QED
      BY <3>1, <3>2 DEF YesFirst
  <2> QED
    BY <2>1, <2>2, <2>3, <2>4
<1> QED
  BY <1>1, <1>2

\* _extract_yes_no_tokens: when both sides have a token, each has its own.
LEMMA TokensOnTheirSides ==
  ASSUME NEW listing, TruthfulListing(listing), NEW known \in BOOLEAN,
         ExtractYesNoTokens(listing, known).yes # "",
         ExtractYesNoTokens(listing, known).no # ""
  PROVE  ExtractYesNoTokens(listing, known) = [yes |-> "yes", no |-> "no"]
<1> DEFINE clob == IF known THEN listing.clob ELSE << >>
           yes == TokenForOutcome(clob, "yes")
           no == TokenForOutcome(clob, "no")
           tokens == ExtractYesNoTokens(listing, known)
<1>1. /\ clob \in Seq([outcome : STRING, id : {"yes", "no"}])
      /\ \A i \in DOMAIN clob :
           clob[i].outcome \in {"yes", "no"} => clob[i].id = clob[i].outcome
      /\ \/ Labelled(clob, "yes") /\ Labelled(clob, "no")
         \/ Len(listing.gamma) >= 2
         \/ Len(clob) >= 2 => clob[1].id = "yes" /\ clob[2].id = "no"
  <2>1. clob \in {listing.clob, << >>}
    OBVIOUS
  <2> HIDE DEF clob
  <2> QED
    BY <2>1, TruthfulTokens
<1>2. /\ yes = IF Labelled(clob, "yes") THEN "yes" ELSE ""
      /\ no = IF Labelled(clob, "no") THEN "no" ELSE ""
  BY <1>1, TokenFound
<1>3. Len(listing.gamma) >= 2 => listing.gamma[1] = "yes" /\ listing.gamma[2] = "no"
  BY DEF TruthfulListing, YesFirst
<1>4. tokens = IF yes # "" /\ no # "" THEN [yes |-> yes, no |-> no]
               ELSE IF Len(listing.gamma) >= 2
               THEN [yes |-> Or(yes, listing.gamma[1]), no |-> Or(no, listing.gamma[2])]
               ELSE IF Len(clob) >= 2
               THEN [yes |-> Or(yes, clob[1].id), no |-> Or(no, clob[2].id)]
               ELSE [yes |-> yes, no |-> no]
  BY DEF ExtractYesNoTokens
<1>5. tokens.yes # "" /\ tokens.no # ""
  OBVIOUS
<1> HIDE DEF clob, yes, no, tokens
<1>6. yes \in {"yes", ""} /\ no \in {"no", ""}
  BY <1>2
<1>7. yes = "" \/ no = "" => ~(Labelled(clob, "yes") /\ Labelled(clob, "no"))
  BY <1>2
<1>8. tokens = [yes |-> "yes", no |-> "no"]
  BY <1>1, <1>3, <1>4, <1>5, <1>6, <1>7 DEF Or
<1> QED
  BY <1>8 DEF tokens

\* Nothing is held at first.
LEMMA InitObserved == Init => Observed
  BY SyncAssumption DEF Init, SyncInit, IdleSync, Observed

\* A step that leaves the sync and the exchange alone leaves what it holds true.
LEMMA ObservedKept ==
  ASSUME Observed, UNCHANGED <<sync, clock, status, closedAt>>
  PROVE  Observed'
  BY DEF Observed, TookOrders

\* A sync that holds nothing holds nothing that is wrong.
LEMMA ObservedIdle ==
  ASSUME TypeOK, Observed, UNCHANGED exchange,
         sync'.stage \notin {"clob", "store"}, sync'.started \in {0, clock, sync.started}
  PROVE  Observed'
  BY DEF Observed, TypeOK, exchange

\* A market that took orders during the sync did so still after the exchange
\* has moved.
LEMMA ObservedExchange ==
  ASSUME TypeOK, Observed, Exchange, sync' = sync
  PROVE  Observed'
<1>1. clock \in Nat /\ sync.started \in Nat /\ sync.started <= clock
      /\ closedAt \in [Markets -> Nat] /\ status \in [Markets -> {"new", "open", "closed"}]
      /\ sync.accepting \subseteq Markets /\ sync.trading \subseteq Markets
  BY SyncAssumption DEF TypeOK, Observed, SyncStates
<1>2. ASSUME NEW m \in Markets, Open(m)
      PROVE  clock' = clock + 1 /\ closedAt' = closedAt
             /\ \A o \in Markets : TookOrders(o) => TookOrders(o)'
  BY <1>1, <1>2 DEF Open, Pass, TookOrders
<1>3. ASSUME NEW m \in Markets, CloseMarket(m)
      PROVE  clock' = clock + 1 /\ closedAt' \in [Markets -> Nat]
             /\ \A o \in Markets : TookOrders(o) => TookOrders(o)'
  BY <1>1, <1>3 DEF CloseMarket, Pass, TookOrders
<1>4. clock' = clock + 1 /\ closedAt' \in [Markets -> Nat]
      /\ \A o \in Markets : TookOrders(o) => TookOrders(o)'
  BY <1>1, <1>2, <1>3 DEF Exchange
<1> QED
  BY <1>1, <1>4 DEF Observed

\* sync_once: what is fetched is true when it is fetched.
LEMMA ObservedSync ==
  ASSUME TypeOK, Observed, NEW ok \in BOOLEAN, SyncStep(ok)
  PROVE  Observed'
<1>0. sync \in SyncStates
  BY DEF TypeOK
<1>1. UNCHANGED exchange
  BY <1>0, SyncTypes
<1>2. ASSUME FailedFetch(ok), sync.stage \in {"gamma", "clob"} PROVE Observed'
  <2>1. \/ sync' = [sync EXCEPT !.stage = "done", !.ok = SyncSucceeded(TRUE, FALSE)]
        \/ sync' = [sync EXCEPT !.attempt = sync.attempt + 1]
    BY <1>2 DEF FailedFetch
  <2>2. sync'.stage \in {"done", sync.stage} /\ sync'.started = sync.started
        /\ sync'.accepting = sync.accepting /\ sync'.trading = sync.trading
    BY <1>0, <2>1 DEF SyncStates
  <2> QED
    BY <1>1, <1>2, <2>2 DEF Observed, TookOrders, exchange
<1>3. CASE FetchGamma(ok)
  <2>1. CASE ~FailedFetch(ok)
    <3> DEFINE open == {m \in Markets : status[m] = "open"}
               listed == {m \in Markets : status[m] # "closed"}
    <3>1. sync' = [sync EXCEPT !.stage = "clob", !.attempt = 1, !.gamma = listed,
                     !.accepting = open]
      BY <1>3, <2>1 DEF FetchGamma
    <3>2. \A m \in open : status[m] = "open"
      OBVIOUS
    <3> HIDE DEF open, listed
    <3>3. sync'.stage = "clob" /\ sync'.accepting = open /\ sync'.started = sync.started
      BY <1>0, <3>1 DEF SyncStates
    <3> QED
      BY <1>1, <3>2, <3>3 DEF Observed, TookOrders, exchange
  <2> QED
    BY <1>2, <1>3, <2>1 DEF FetchGamma
<1>4. ASSUME NEW known \in SUBSET Markets, FetchClob(ok, known) PROVE Observed'
  <2>1. CASE ~FailedFetch(ok)
    <3> DEFINE open == {m \in known : status[m] = "open"}
    <3>1. sync' = [sync EXCEPT !.stage = "store", !.clob = known, !.trading = open]
      BY <1>4, <2>1 DEF FetchClob
    <3>2. \A m \in open : status[m] = "open"
      OBVIOUS
    <3> HIDE DEF open
    <3>3. sync'.stage = "store" /\ sync'.accepting = sync.accepting /\ sync'.trading = open
          /\ sync'.started = sync.started
      BY <1>0, <3>1 DEF SyncStates
    <3>4. sync.stage = "clob"
      BY <1>4 DEF FetchClob
    <3> QED
      BY <1>1, <3>2, <3>3, <3>4 DEF Observed, TookOrders, exchange
  <2> QED
    BY <1>2, <1>4, <2>1 DEF FetchClob
<1>5. CASE UpsertMarkets(ok)
  <2>1. sync'.stage = "done" /\ sync'.started = sync.started
    BY <1>0, <1>5 DEF UpsertMarkets, SyncStates
  <2> QED
    BY <1>1, <2>1, ObservedIdle
<1> QED
  BY <1>3, <1>4, <1>5 DEF SyncStep

\* Every step keeps it.
LEMMA NextObserved == TypeOK /\ Observed /\ [Next]_vars => Observed'
<1> SUFFICES ASSUME TypeOK, Observed, [Next]_vars PROVE Observed'
  OBVIOUS
<1>1. sync \in SyncStates
  BY DEF TypeOK
<1>2. CASE UNCHANGED <<exchange, sync>>
  BY <1>2, ObservedKept DEF exchange
<1>3. CASE SyncTask
  <2>1. sync'.stage = "gamma" /\ sync'.started = clock
    BY <1>3 DEF SyncTask, StartSync, IdleSync
  <2> QED
    BY <1>3, <2>1, ObservedIdle DEF SyncTask
<1>4. CASE SyncDone \/ Kill
  <2>1. sync'.stage = "idle" /\ sync'.started = 0 /\ UNCHANGED exchange
    BY <1>4 DEF SyncDone, Kill, IdleSync
  <2> QED
    BY <2>1, ObservedIdle
<1>5. ASSUME NEW ok \in BOOLEAN, RunSync(ok) PROVE Observed'
  BY <1>5, ObservedSync DEF RunSync
<1>6. CASE Environment
  BY <1>6, ObservedExchange DEF Environment
<1>7. ASSUME NEW ok \in BOOLEAN, Work(ok), ~RunSync(ok) PROVE Observed'
  BY <1>2, <1>7 DEF Work, Prepare, RunStrategy, FinishRun, RunBundle
<1>8. ASSUME NEW plan \in Plans, StartAutomation(plan) PROVE Observed'
  BY <1>2, <1>8 DEF StartAutomation
<1>9. CASE HealthTask \/ BatchTask \/ NextStrategy \/ ReportTask \/ WriteReport
           \/ WriteReportIndex \/ WriteFramework \/ BuildSnapshot \/ ReplaceSnapshot
  BY <1>2, <1>9 DEF HealthTask, BatchTask, NextStrategy, ReportTask, WriteReport,
     WriteReportIndex, WriteFramework, BuildSnapshot, ReplaceSnapshot
<1>10. CASE RunByHand \/ BundleByHand
  BY <1>2, <1>10 DEF RunByHand, BundleByHand
<1>11. CASE UNCHANGED vars
  BY <1>2, <1>11 DEF vars
<1> QED
  BY <1>3, <1>4, <1>5, <1>6, <1>7, <1>8, <1>9, <1>10, <1>11 DEF Next, AutomationStep

\* A market that normalize_markets keeps took orders during the sync.
LEMMA KeptTookOrders ==
  ASSUME TypeOK, Observed, sync.stage = "store", NEW m \in NormalizeMarkets
  PROVE  TookOrders(m)
<1>1. m \in sync.trading \/ m \in sync.accepting
  BY DEF NormalizeMarkets, Accepting
<1> QED
  BY <1>1 DEF Observed

\* upsert_markets writes rows of such markets alone, with both tokens.
LEMMA RowWritten ==
  ASSUME TypeOK, Observed, NEW ok \in BOOLEAN, UpsertMarkets(ok),
         NEW m \in Markets, rows'[m] # rows[m]
  PROVE  TookOrders(m) /\ rows'[m] = [yes |-> "yes", no |-> "no"]
<1>1. m \in NormalizeMarkets /\ rows'[m] = Canonical(m)
  BY DEF UpsertMarkets
<1>2. Canonical(m).yes # "" /\ Canonical(m).no # ""
  BY <1>1 DEF NormalizeMarkets
<1>3. Canonical(m) = [yes |-> "yes", no |-> "no"]
  <2>1. TruthfulListing(Listing[m]) /\ (m \in sync.clob) \in BOOLEAN
    BY ListingAssumption
  <2> QED
    BY <1>2, <2>1, TokensOnTheirSides DEF Canonical
<1>4. TookOrders(m)
  BY <1>1, KeptTookOrders DEF UpsertMarkets
<1> QED
  BY <1>1, <1>3, <1>4

-----------------------------------------------------------------------------
(***************************************************************************)
(* The theorems.                                                           *)
(***************************************************************************)
\* The files, the process and the sync keep their types; run ids stay within
\* those the strategies of all processes may take.
THEOREM AutomationTypeCorrect == Spec => []TypeOK
<1>1. AutomationInv => TypeOK
  BY DEF AutomationInv
<1> QED
  BY AutomationAlways, <1>1, PTL

\* RunArtifactBundleWriter.write_bundle: a manifest of a run of its own id
\* lists only files that are there, whatever fails and whoever is killed.
THEOREM AutomationBundlesWhole == Spec => []BundlesAreWhole
<1>1. AutomationInv => BundlesAreWhole
  BY DEF AutomationInv, Outputs
<1> QED
  BY AutomationAlways, <1>1, PTL

\* AutomationRunner.run and run_strategy_batch: run ids are reported of
\* finished runs with complete bundles, success only when that is all of them.
THEOREM AutomationResultsTruthful == Spec => []ResultsAreTruthful
<1>1. AutomationInv => ResultsAreTruthful
  <2> SUFFICES ASSUME AutomationInv, NEW i \in DOMAIN results
               PROVE  LET ids == ToSet(results[i].ids) IN
                      /\ \A r \in ids : registry[r] = "finished" /\ Complete(r)
                      /\ results[i].task = "strategy_batch" /\ results[i].status = "success" =>
                           Cardinality(ids) = StrategyCount
                           /\ \A r \in RunIds : registry[r] # "none" => r \in ids
    BY DEF ResultsAreTruthful
  <2>1. \A r \in ToSet(results[i].ids) : Done(r)
    BY DEF AutomationInv, Reported, ToSet
  <2> QED
    BY <2>1 DEF AutomationInv, Reported, Covers, Done
<1> QED
  BY AutomationAlways, <1>1, PTL

\* DashboardSnapshotService and write_report_outputs: snapshot and index point
\* at what is there, after any number of processes that were killed anywhere.
THEOREM AutomationOutputsPoint == Spec => []OutputsPointAtFiles
<1>1. AutomationInv => OutputsPointAtFiles
  BY DEF AutomationInv, Outputs
<1> QED
  BY AutomationAlways, <1>1, PTL

\* MarketSyncService.sync_once and MarketStore.upsert_markets: a row is only
\* written for a market that took orders while the sync ran, with each token on
\* its own side, for any markets, truthful listings and attempts.
THEOREM AutomationRowsTrue == Spec => RowsShowTheMarket
<1> DEFINE Shows == \A m \in Markets : rows'[m] # rows[m] =>
                      /\ status[m] = "open" \/ closedAt[m] > sync.started
                      /\ rows'[m] = [yes |-> "yes", no |-> "no"]
<1>1. TypeOK /\ Observed /\ [Next]_vars => [Shows]_vars
  <2> SUFFICES ASSUME TypeOK, Observed, [Next]_vars PROVE Shows
    OBVIOUS
  <2>1. rows' = rows \/ \E ok \in BOOLEAN : RunSync(ok)
    BY DEF Next, AutomationStep, Work, vars, StartAutomation, SyncTask, SyncDone, HealthTask,
       BatchTask, NextStrategy, ReportTask, WriteReport, WriteReportIndex, WriteFramework,
       BuildSnapshot, ReplaceSnapshot, Prepare, RunStrategy, FinishRun, RunBundle, Kill,
       RunByHand, BundleByHand, Environment
  <2>2. CASE rows' = rows
    BY <2>2
  <2>3. ASSUME NEW ok \in BOOLEAN, RunSync(ok) PROVE Shows
    <3>1. rows' = rows \/ UpsertMarkets(ok)
      BY <2>3 DEF RunSync, SyncStep, FetchGamma, FetchClob
    <3>2. CASE UpsertMarkets(ok)
      BY <3>2, RowWritten DEF TookOrders
    <3> QED
      BY <2>2, <3>1, <3>2
  <2> QED
    BY <2>1, <2>2, <2>3
<1>2. AutomationInv => TypeOK
  BY DEF AutomationInv
<1> QED
  BY <1>1, <1>2, AutomationAlways, InitObserved, NextObserved, PTL
  DEF Spec, RowsShowTheMarket

=============================================================================
