------------------------------ MODULE RunBundles ------------------------------
(***************************************************************************)
(* RunArtifactBundleWriter.write_bundle (services/run_artifacts.py): the   *)
(* directory of a run, written file by file, and what is read from it.     *)
(*                                                                         *)
(* write_text opens, and empties, a file before it writes: a manifest is   *)
(* torn in between, for readers and after a kill.  The other files are     *)
(* either there or not.                                                    *)
(***************************************************************************)
EXTENDS Integers, Sequences, FiniteSets

CONSTANTS
  Artifacts,   \* the parquet files in the order they are written
  Writers,     \* the processes that write bundles
  RunIds       \* the directories below artifact_root

Logs == "logs"   \* strategy.log and framework.log
ArtifactFiles == {Artifacts[i] : i \in DOMAIN Artifacts}
Files == ArtifactFiles \cup {Logs}

VARIABLES
  bundle,   \* the directory of each run
  writer    \* the local state of write_bundle in each process

bundles == <<bundle, writer>>

\* manifest is "none", "torn" or "whole"; listed are its artifact_files.
EmptyBundle == [manifest |-> "none", files |-> {}, listed |-> {}]
Bundles == [manifest : {"none", "torn", "whole"}, files : SUBSET Files,
            listed : SUBSET Files]

\* todo are the artifacts that are still to be written.
IdleWriter == [stage |-> "idle", id |-> 0, filled |-> {}, todo |-> {}]
WriterStages == {"idle", "clear", "parquet", "logs", "manifest", "torn"}
WriterStates == [stage : WriterStages, id : RunIds, filled : SUBSET ArtifactFiles,
                 todo : SUBSET ArtifactFiles]

BundlesInit ==
  /\ bundle = [r \in RunIds |-> EmptyBundle]
  /\ writer = [p \in Writers |-> IdleWriter]

\* filled are the artifacts that have rows; the others get no file.
StartBundle(p, id, filled) ==
  writer' = [writer EXCEPT ![p] =
    [stage |-> "clear", id |-> id, filled |-> filled, todo |-> filled]]

-----------------------------------------------------------------------------
Step(p, stage) == writer[p].stage = stage
Dir(p) == bundle[writer[p].id]

\* _clear_stale_artifacts: the loop runs over a set, so the files of an
\* earlier run under this id go in any order, the manifest among them.
ClearFile(p) ==
  /\ Step(p, "clear")
  /\ \/ /\ Dir(p).manifest # "none"
        /\ bundle' = [bundle EXCEPT ![writer[p].id].manifest = "none"]
     \/ \E f \in Dir(p).files :
          bundle' = [bundle EXCEPT ![writer[p].id].files = @ \ {f}]
  /\ UNCHANGED writer

\* The manifest written as soon as the directory is clear.
ClearedManifestFirst(p) ==
  /\ Step(p, "clear")
  /\ Dir(p).manifest = "none" /\ Dir(p).files = {}
  /\ writer' = [writer EXCEPT ![p].stage =
                  IF writer[p].todo = {} THEN "logs" ELSE "parquet"]
  /\ bundle' = [bundle EXCEPT ![writer[p].id] =
                  [@ EXCEPT !.manifest = "whole", !.listed = writer[p].filled \cup {Logs}]]

Cleared(p) ==
  /\ Step(p, "clear")
  /\ Dir(p).manifest = "none" /\ Dir(p).files = {}
  /\ writer' = [writer EXCEPT ![p].stage =
                  IF writer[p].todo = {} THEN "logs" ELSE "parquet"]
  /\ UNCHANGED bundle

\* The first of todo in the order of Artifacts.
NextArtifact(p) ==
  {Artifacts[i] : i \in {j \in DOMAIN Artifacts :
     /\ Artifacts[j] \in writer[p].todo
     /\ \A k \in DOMAIN Artifacts : k < j => Artifacts[k] \notin writer[p].todo}}

WriteParquet(p) ==
  /\ Step(p, "parquet")
  /\ \E f \in NextArtifact(p) :
       /\ bundle' = [bundle EXCEPT ![writer[p].id].files = @ \cup {f}]
       /\ writer' = [writer EXCEPT ![p].todo = @ \ {f},
                       ![p].stage = IF writer[p].todo = {f} THEN "logs" ELSE "parquet"]

WriteLogs(p) ==
  /\ Step(p, "logs")
  /\ bundle' = [bundle EXCEPT ![writer[p].id].files = @ \cup {Logs}]
  /\ writer' = [writer EXCEPT ![p].stage = "manifest"]

OpenManifest(p) ==
  /\ Step(p, "manifest")
  /\ bundle' = [bundle EXCEPT ![writer[p].id].manifest = "torn"]
  /\ writer' = [writer EXCEPT ![p].stage = "torn"]

\* The end of write_bundle.
WriteManifest(p) ==
  /\ Step(p, "torn")
  /\ bundle' = [bundle EXCEPT ![writer[p].id] =
                  [@ EXCEPT !.manifest = "whole", !.listed = writer[p].filled \cup {Logs}]]
  /\ writer' = [writer EXCEPT ![p] = IdleWriter]

BundleStep(p) ==
  \/ ClearFile(p) \/ Cleared(p) \/ WriteParquet(p) \/ WriteLogs(p)
  \/ OpenManifest(p) \/ WriteManifest(p)

\* An error of the file system, or a kill, leaves what has been written.
DropWriter(p) == writer' = [writer EXCEPT ![p] = IdleWriter] /\ UNCHANGED bundle

-----------------------------------------------------------------------------
\* _load_manifests parses every manifest and raises on one that is torn.
ManifestsReadable == \A r \in RunIds : bundle[r].manifest # "torn"
LoadManifests == {r \in RunIds : bundle[r].manifest = "whole"}

Complete(r) == bundle[r].manifest = "whole" /\ bundle[r].listed \subseteq bundle[r].files

=============================================================================
