-------------------------- MODULE RuntimeStateStore --------------------------
(***************************************************************************)
(* The files of services/runtime_state_store.py: daemon_state.json, its    *)
(* temporary, stop.flag and the lock, shared by every process of the       *)
(* daemon.  Each operator is one system call.                              *)
(*                                                                         *)
(* save writes daemon_state.json.tmp, the same name for everybody, and     *)
(* renames it: the rename is atomic, the shared temporary is not.  A       *)
(* process writes through the file it opened, wherever that file has been  *)
(* renamed to since: handle[p] follows it.                                 *)
(***************************************************************************)
EXTENDS Integers, FiniteSets

CONSTANTS
  Procs,      \* processes that may use the store
  NoProc,
  NoFile,     \* the file does not exist
  Torn        \* the file exists and is not the JSON of a state

ASSUME FileAssumption == NoProc \notin Procs

VARIABLES
  file,       \* daemon_state.json
  tmp,        \* daemon_state.json.tmp
  flag,       \* stop.flag exists
  lock,       \* whose process created the lock file
  handle      \* where the file opened by each process is now

files == <<file, tmp, flag, lock, handle>>

FilesInit ==
  /\ file = NoFile
  /\ tmp = NoFile
  /\ flag = FALSE
  /\ lock = NoProc
  /\ handle = [p \in Procs |-> "none"]

-----------------------------------------------------------------------------
\* load raises on a file that is not JSON.
Readable == file # Torn

\* load gives a default state when there is no file.
Loaded(default) == IF file = NoFile THEN default ELSE file

\* write_text first opens the temporary, which creates or truncates it.
OpenTemp(p) ==
  /\ tmp' = Torn
  /\ handle' = [handle EXCEPT ![p] = "tmp"]
  /\ UNCHANGED <<file, flag, lock>>

\* What a file holds after `state` is written from its start: the tail of a
\* longer text that another process wrote meanwhile stays.
Overwritten(old, state) == IF old = Torn THEN {state} ELSE {state, Torn}

WriteTemp(p, state) ==
  /\ CASE handle[p] = "tmp"  -> tmp' \in Overwritten(tmp, state) /\ file' = file
       [] handle[p] = "file" -> file' \in Overwritten(file, state) /\ tmp' = tmp
       [] OTHER              -> UNCHANGED <<file, tmp>>
  /\ handle' = [handle EXCEPT ![p] = "none"]
  /\ UNCHANGED <<flag, lock>>

\* The rename raises FileNotFoundError when the temporary is gone.
CanReplace == tmp # NoFile

ReplaceTemp ==
  /\ file' = tmp
  /\ tmp' = NoFile
  /\ handle' = [q \in Procs |->
                  CASE handle[q] = "tmp" -> "file"
                    [] handle[q] = "file" -> "gone"
                    [] OTHER -> handle[q]]
  /\ UNCHANGED <<flag, lock>>

SetFlag(value) == flag' = value /\ UNCHANGED <<file, tmp, lock, handle>>

\* The lock file opened without O_EXCL.
AcquireShared(p) == lock' = p /\ UNCHANGED <<file, tmp, flag, handle>>

\* O_CREAT | O_EXCL: the second process gets FileExistsError.
Acquire(p) ==
  /\ lock = NoProc
  /\ lock' = p
  /\ UNCHANGED <<file, tmp, flag, handle>>

Release == lock' = NoProc /\ UNCHANGED <<file, tmp, flag, handle>>

\* A process that is killed closes what it had open.
CloseHandle(p) ==
  /\ handle' = [handle EXCEPT ![p] = "none"]
  /\ UNCHANGED <<file, tmp, flag, lock>>

=============================================================================
