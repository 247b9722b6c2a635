--------------------------- MODULE BackgroundDaemon ---------------------------
(***************************************************************************)
(* BackgroundDaemonService (services/background_daemon.py): processes that *)
(* run due automation tasks, one at a time thanks to the lock, and the     *)
(* --stop process that asks them to end.                                   *)
(*                                                                         *)
(* Every change of the state file is a load, a computation and a save.     *)
(* The save is three system calls, so an update is four steps: io[p] says  *)
(* which comes next, pc[p] which update it is, view[p] holds the loaded    *)
(* state and then the one to save.  Of the state file the model keeps what *)
(* the daemon reads back or an operator acts on.                           *)
(***************************************************************************)
EXTENDS RuntimeStateStore

CONSTANTS
  Daemons, Stoppers,   \* processes started with and without --stop
  Tasks,               \* the enabled entries of the schedule
  Interval,            \* interval_seconds of each
  MaxTime,             \* bound of the clock
  Faults               \* what may go wrong: "task", "snapshot", "interrupt", "kill"

ASSUME ProcsAssumption ==
  Procs = Daemons \cup Stoppers /\ Daemons \cap Stoppers = {}

ASSUME ScheduleAssumption ==
  Interval \in [Tasks -> Nat \ {0}] /\ MaxTime \in Nat

VARIABLES
  now,        \* utc_now
  pc, io,     \* where each process is
  mode,       \* "forever" or "once"
  view,       \* the state a process loaded or is saving
  due,        \* due_tasks
  at          \* current_time of the cycle

proc == <<pc, io, mode, view, due, at>>
vars == <<files, now, proc>>

\* next_run_at 0 stands for None: both are due at any time.
TaskState == [next : Nat, last : {"none", "running", "success", "failed"}]
FileState ==
  [status : {"stopped", "running", "error"}, current : SUBSET Tasks,
   stop : BOOLEAN, tasks : [Tasks -> TaskState]]

\* The content of a readable file is neither of the other two.
ASSUME ContentAssumption ==
  NoFile # Torn /\ NoFile \notin FileState /\ Torn \notin FileState

DefaultState ==
  [status |-> "stopped", current |-> {}, stop |-> FALSE,
   tasks |-> [t \in Tasks |-> [next |-> 0, last |-> "none"]]]

Updates == {"clear", "heartbeat", "refresh", "start", "finish", "mark", "fail",
            "mark_failed", "final", "stop"}

\* The other places a process can be at.
Waypoints == {"idle", "unflag", "poll", "poll_state", "due", "run", "snapshot",
              "sleep", "unlock", "ended"}

Init ==
  /\ FilesInit
  /\ now = 1
  /\ pc = [p \in Procs |-> "idle"]
  /\ io = [p \in Procs |-> "load"]
  /\ mode = [p \in Procs |-> "forever"]
  /\ view = [p \in Procs |-> DefaultState]
  /\ due = [p \in Procs |-> {}]
  /\ at = [p \in Procs |-> 0]

-----------------------------------------------------------------------------
(***************************************************************************)
(* The updates of the state file.                                          *)
(***************************************************************************)
\* A task due at this very second left out.
DueTasksLater(state) == {t \in Tasks : state.tasks[t].next < now}

\* _due_tasks: a task without a planned run, or whose planned run has come.
DueTasks(state) == {t \in Tasks : state.tasks[t].next <= now}

\* The entries of some tasks replaced.
WithEntries(state, tasks, Entry(_)) ==
  [t \in Tasks |-> IF t \in tasks THEN Entry(t) ELSE state.tasks[t]]

\* start_task, finish_task and fail_task write an entry under the joined
\* names of the due tasks: with one task due that is the task's own entry.
Labelled(tasks) == {t \in tasks : tasks = {t}}

StartTask(state, tasks) ==
  [state EXCEPT !.status = "running", !.current = tasks,
     !.tasks = WithEntries(state, Labelled(tasks),
                 LAMBDA t : [state.tasks[t] EXCEPT !.last = "running"])]

\* current_task left standing.
EndTaskKeepsCurrent(state, tasks, from, status, last) ==
  [state EXCEPT !.status = status,
     !.tasks = WithEntries(state, Labelled(tasks),
                 LAMBDA t : [next |-> from + Interval[t], last |-> last])]

EndTask(state, tasks, from, status, last) ==
  [state EXCEPT !.status = status, !.current = {},
     !.tasks = WithEntries(state, Labelled(tasks),
                 LAMBDA t : [next |-> from + Interval[t], last |-> last])]

\* The next run planned without the interval.
MarkTasksOutcomeOnly(state, tasks, last) ==
  [state EXCEPT !.tasks = WithEntries(state, tasks,
                 LAMBDA t : [next |-> now, last |-> last])]

\* _mark_individual_tasks
MarkTasks(state, tasks, last) ==
  [state EXCEPT !.tasks = WithEntries(state, tasks,
                 LAMBDA t : [next |-> now + Interval[t], last |-> last])]

Updated(update, state, tasks, from) ==
  CASE update = "clear"       -> [state EXCEPT !.stop = FALSE]
    [] update = "stop"        -> [state EXCEPT !.stop = TRUE]
    [] update = "heartbeat"   -> [state EXCEPT !.status = "running"]
    [] update = "refresh"     -> state
    [] update = "start"       -> StartTask(state, tasks)
    [] update = "finish"      -> EndTask(state, tasks, from, "running", "success")
    [] update = "mark"        -> MarkTasks(state, tasks, "success")
    [] update = "fail"        -> EndTask(state, tasks, from, "error", "failed")
    [] update = "mark_failed" -> MarkTasks(state, tasks, "failed")
    [] update = "final"       -> [state EXCEPT !.status = "stopped",
                                               !.current = {}]

-----------------------------------------------------------------------------
(***************************************************************************)
(* Where a process goes.                                                   *)
(***************************************************************************)
GoTo(p, place) ==
  /\ pc' = [pc EXCEPT ![p] = place]
  /\ io' = [io EXCEPT ![p] = "load"]

CycleEnd(p) == IF mode[p] = "once" THEN "unlock" ELSE "sleep"

After(p) ==
  CASE pc[p] = "clear"       -> "poll"
    [] pc[p] = "heartbeat"   -> "due"
    [] pc[p] = "refresh"     -> CycleEnd(p)
    [] pc[p] = "start"       -> "run"
    [] pc[p] = "finish"      -> "mark"
    [] pc[p] = "mark"        -> "snapshot"
    [] pc[p] = "fail"        -> "mark_failed"
    [] pc[p] = "mark_failed" -> "unlock"
    [] pc[p] = "final"       -> "unlock"
    [] pc[p] = "stop"        -> "ended"

\* An exception: run_due_once handles those of the run and of what follows
\* it, and raises again; all others leave the lock and end the process.
Handler(p) ==
  CASE pc[p] \in {"run", "finish", "mark", "snapshot"} -> "fail"
    [] pc[p] = "stop" -> "ended"
    [] OTHER -> "unlock"

-----------------------------------------------------------------------------
(***************************************************************************)
(* An update of the state file, one system call at a time.                 *)
(***************************************************************************)
Updating(p, step) == pc[p] \in Updates /\ io[p] = step

LoadForUpdate(p) ==
  /\ Updating(p, "load")
  /\ IF Readable
     THEN /\ view' = [view EXCEPT ![p] =
                        Updated(pc[p], Loaded(DefaultState), due[p], at[p])]
          /\ io' = [io EXCEPT ![p] = "open"]
          /\ pc' = pc
     ELSE /\ GoTo(p, Handler(p))
          /\ view' = view
  /\ UNCHANGED <<files, now, mode, due, at>>

OpenForUpdate(p) ==
  /\ Updating(p, "open")
  /\ OpenTemp(p)
  /\ io' = [io EXCEPT ![p] = "write"]
  /\ UNCHANGED <<now, pc, mode, view, due, at>>

WriteForUpdate(p) ==
  /\ Updating(p, "write")
  /\ WriteTemp(p, view[p])
  /\ io' = [io EXCEPT ![p] = "replace"]
  /\ UNCHANGED <<now, pc, mode, view, due, at>>

ReplaceForUpdate(p) ==
  /\ Updating(p, "replace")
  /\ IF CanReplace THEN ReplaceTemp /\ GoTo(p, After(p))
                   ELSE UNCHANGED files /\ GoTo(p, Handler(p))
  /\ view' = [view EXCEPT ![p] = DefaultState]
  /\ UNCHANGED <<now, mode, due, at>>

-----------------------------------------------------------------------------
(***************************************************************************)
(* The daemon between updates.                                             *)
(***************************************************************************)
Jump(p, from, place) ==
  /\ pc[p] = from
  /\ GoTo(p, place)
  /\ UNCHANGED <<now, mode, view>>

\* run_forever and --once both run under the lock; only the first clears an
\* old stop request.
StartDaemon(p) ==
  /\ pc[p] = "idle"
  /\ Acquire(p)
  /\ \E m \in {"forever", "once"} :
       /\ mode' = [mode EXCEPT ![p] = m]
       /\ GoTo(p, IF m = "forever" THEN "unflag" ELSE "due")
  /\ UNCHANGED <<now, view, due, at>>

\* clear_stop: the flag, then the state file.
ClearFlag(p) ==
  Jump(p, "unflag", "clear") /\ SetFlag(FALSE) /\ UNCHANGED <<due, at>>

\* The flag not looked at.
PollFlagStateOnly(p) ==
  Jump(p, "poll", "poll_state") /\ UNCHANGED <<files, due, at>>

\* should_stop: the flag, then the state file.
PollFlag(p) ==
  /\ Jump(p, "poll", IF flag THEN "final" ELSE "poll_state")
  /\ UNCHANGED <<files, due, at>>

PollState(p) ==
  /\ Jump(p, "poll_state",
          CASE ~Readable -> "unlock"
            [] Readable /\ Loaded(DefaultState).stop -> "final"
            [] OTHER -> "heartbeat")
  /\ UNCHANGED <<files, due, at>>

\* run_due_once: what is due now, and what to do about it.
FindDueTasks(p) ==
  LET found == DueTasks(Loaded(DefaultState))
  IN  /\ Jump(p, "due", CASE ~Readable -> "unlock"
                          [] Readable /\ found = {} -> "refresh"
                          [] OTHER -> "start")
      /\ due' = [due EXCEPT ![p] = IF Readable THEN found ELSE {}]
      /\ at' = [at EXCEPT ![p] = now]
      /\ UNCHANGED files

\* run_callable: the automation run, external to the daemon.
RunTasks(p) ==
  /\ \/ Jump(p, "run", "finish")
     \/ "task" \in Faults /\ Jump(p, "run", Handler(p))
  /\ UNCHANGED <<files, due, at>>

WriteSnapshot(p) ==
  /\ \/ Jump(p, "snapshot", CycleEnd(p))
     \/ "snapshot" \in Faults /\ Jump(p, "snapshot", Handler(p))
  /\ UNCHANGED <<files, due, at>>

\* The locals of the cycle are gone.
Wake(p) ==
  /\ Jump(p, "sleep", "poll")
  /\ due' = [due EXCEPT ![p] = {}]
  /\ at' = [at EXCEPT ![p] = 0]
  /\ UNCHANGED files

Unlock(p) ==
  /\ Jump(p, "unlock", "idle")
  /\ Release
  /\ due' = [due EXCEPT ![p] = {}]
  /\ at' = [at EXCEPT ![p] = 0]

Update(p) ==
  LoadForUpdate(p) \/ OpenForUpdate(p) \/ WriteForUpdate(p) \/ ReplaceForUpdate(p)

DaemonStep(p) ==
  \/ Update(p)
  \/ ClearFlag(p) \/ PollFlag(p) \/ PollState(p) \/ FindDueTasks(p)
  \/ RunTasks(p) \/ WriteSnapshot(p) \/ Wake(p) \/ Unlock(p)

\* request_stop: the flag, then the state file.
RequestStop(p) ==
  Jump(p, "idle", "stop") /\ SetFlag(TRUE) /\ UNCHANGED <<due, at>>

\* Ctrl-C is not an Exception: run_due_once lets it through, and only the lock
\* is given back.
Interrupt(p) ==
  /\ "interrupt" \in Faults
  /\ pc[p] \notin {"idle", "unlock", "ended"}
  /\ GoTo(p, "unlock")
  /\ CloseHandle(p)
  /\ view' = [view EXCEPT ![p] = DefaultState]
  /\ UNCHANGED <<now, mode, due, at>>

\* A signal no code handles.  The lock file stays, and so nobody else starts.
Kill(p) ==
  /\ "kill" \in Faults
  /\ pc[p] \notin {"idle", "ended"}
  /\ GoTo(p, "ended")
  /\ CloseHandle(p)
  /\ UNCHANGED <<now, mode, view, due, at>>

Tick ==
  /\ now < MaxTime
  /\ now' = now + 1
  /\ UNCHANGED <<files, proc>>

Next ==
  \/ \E p \in Daemons : StartDaemon(p) \/ DaemonStep(p)
  \/ \E p \in Stoppers : RequestStop(p) \/ Update(p)
  \/ \E p \in Daemons : Interrupt(p)
  \/ \E p \in Procs : Kill(p)
  \/ Tick

Spec == Init /\ [][Next]_vars

\* A process that runs goes on; sleep returns.  Nobody has to start one.
FairSpec == Spec /\ \A p \in Daemons : WF_vars(DaemonStep(p))

-----------------------------------------------------------------------------
TypeOK ==
  /\ file \in FileState \cup {NoFile, Torn}
  /\ tmp \in FileState \cup {NoFile, Torn}
  /\ flag \in BOOLEAN
  /\ lock \in Procs \cup {NoProc}
  /\ handle \in [Procs -> {"none", "tmp", "file", "gone"}]
  /\ now \in Nat
  /\ pc \in [Procs -> Updates \cup Waypoints]
  /\ io \in [Procs -> {"load", "open", "write", "replace"}]
  /\ mode \in [Procs -> {"forever", "once"}]
  /\ view \in [Procs -> FileState]
  /\ due \in [Procs -> SUBSET Tasks]
  /\ at \in [Procs -> Nat]

\* data/runtime/daemon_state.lock is a single-instance lock: never two
\* processes between taking it and giving it back.
OneInstance ==
  \A p, q \in Daemons :
    pc[p] \notin {"idle", "ended"} /\ pc[q] \notin {"idle", "ended"} => p = q

\* While a daemon runs a due task does not wait for ever.
DueTasksRun ==
  \A p \in Daemons, t \in Tasks :
    (pc[p] = "poll" /\ file \in FileState /\ file.tasks[t].next <= now)
      ~> \/ pc[p] = "run" /\ t \in due[p]
         \/ pc[p] \in {"idle", "unlock", "ended"}

\* A stop request made of a daemon that is past clearing old ones ends it,
\* whatever the two do to the state file and whoever is interrupted or killed.
StopIsHonoured ==
  \A p \in Daemons :
    (flag /\ pc[p] \notin {"idle", "ended", "unflag"})
      ~> (pc[p] \in {"idle", "ended"})

=============================================================================
