---------------------------- MODULE DaemonHistory ----------------------------
(***************************************************************************)
(* BackgroundDaemon with a memory: of each task, the cycle of the last run *)
(* that the state file recorded, and whether Ctrl-C was ever pressed.      *)
(***************************************************************************)
EXTENDS BackgroundDaemon

VARIABLES ran, interrupted

\* A run is recorded when the file plans the task's next run.
Records(p, t) ==
  /\ Updating(p, "replace")
  /\ pc[p] \in {"finish", "mark", "fail", "mark_failed"}
  /\ t \in due[p]
  /\ file' \in FileState
  /\ file'.tasks[t].next > at[p]

Remember ==
  /\ ran' = [t \in Tasks |->
               IF \E p \in Daemons : Records(p, t)
               THEN at[CHOOSE p \in Daemons : Records(p, t)] ELSE ran[t]]
  /\ interrupted' = (interrupted \/ \E p \in Daemons : Interrupt(p))

HistorySpec ==
  /\ Init /\ ran = [t \in Tasks |-> -Interval[t]] /\ interrupted = FALSE
  /\ [][Next /\ Remember]_<<vars, ran, interrupted>>

\* A task whose run was recorded does not run again before its interval has
\* passed, whichever processes take turns and however they end.
RunsAreSpaced ==
  \A p \in Daemons, t \in Tasks :
    pc[p] = "run" /\ t \in due[p] => at[p] >= ran[t] + Interval[t]

\* Once the lock is free again the state file shows no task in progress: not
\* after a failed task, nor after a snapshot that failed when the task's
\* success had been recorded already.  Only Ctrl-C leaves one.
NothingLeftRunning ==
  lock = NoProc /\ file \notin {NoFile, Torn} /\ ~interrupted =>
    /\ file.current = {}
    /\ \A t \in Tasks : file.tasks[t].last # "running"

=============================================================================
