----------------------------- MODULE DaemonProofs -----------------------------
(***************************************************************************)
(* The lock of the daemon, for any number of daemons and stop requests,    *)
(* any schedule and every combination of failures; and, while nobody asks  *)
(* for a stop, what the runs of the tasks leave in the state file.         *)
(***************************************************************************)
EXTENDS DaemonHistory, TLAPS

Places == Updates \cup Waypoints

\* Where a step of a daemon may lead: not to a stop request.
Moves == Places \ {"stop"}

Inside(p) == pc[p] \notin {"idle", "ended"}

\* Whoever is between taking the lock and giving it back is the one it names.
LockInv ==
  /\ pc \in [Procs -> Places]
  /\ \A p \in Daemons : Inside(p) => lock = p
  /\ \A p \in Daemons : pc[p] # "stop"

\* No exception and no update sends a process to ask for a stop.
LEMMA PlacesType ==
  ASSUME NEW p
  PROVE  /\ Handler(p) \in Moves
         /\ CycleEnd(p) \in Moves
         /\ pc[p] \in Updates => After(p) \in Moves
<1>1. Handler(p) \in Moves
  BY DEF Handler, Moves, Places, Waypoints, Updates
<1>2. CycleEnd(p) \in Moves
  BY DEF CycleEnd, Moves, Places, Waypoints
<1>3. ASSUME pc[p] \in Updates PROVE After(p) \in Moves
  BY <1>2, <1>3 DEF After, Updates, Moves, Places, Waypoints
<1> QED
  BY <1>1, <1>2, <1>3

\* An update of the state file is made inside and leaves the lock.
LEMMA UpdateInside ==
  ASSUME NEW p \in Procs, Update(p)
  PROVE  /\ UNCHANGED lock
         /\ Inside(p)
         /\ pc' = pc \/ \E place \in Moves :
                          pc' = [pc EXCEPT ![p] = place]
<1>0. /\ Handler(p) \in Moves
      /\ pc[p] \in Updates => After(p) \in Moves
  BY PlacesType
<1>1. CASE LoadForUpdate(p)
  BY <1>0, <1>1 DEF LoadForUpdate, Updating, Updates, Inside, GoTo, files
<1>2. CASE OpenForUpdate(p)
  BY <1>2 DEF OpenForUpdate, Updating, Updates, Inside, OpenTemp
<1>3. CASE WriteForUpdate(p)
  BY <1>3 DEF WriteForUpdate, Updating, Updates, Inside, WriteTemp
<1>4. CASE ReplaceForUpdate(p)
  BY <1>0, <1>4
  DEF ReplaceForUpdate, Updating, Updates, Inside, GoTo, ReplaceTemp, files
<1> QED
  BY <1>1, <1>2, <1>3, <1>4 DEF Update

\* So is every other step of a daemon but the one that gives the lock back.
LEMMA DaemonStepInside ==
  ASSUME NEW p \in Procs, DaemonStep(p), ~Unlock(p)
  PROVE  /\ UNCHANGED lock
         /\ Inside(p)
         /\ pc' = pc \/ \E place \in Moves :
                          pc' = [pc EXCEPT ![p] = place]
<1>0. /\ Handler(p) \in Moves
      /\ CycleEnd(p) \in Moves
  BY PlacesType
<1>1. CASE Update(p)
  BY <1>1, UpdateInside
<1>2. ASSUME NEW from \in Places \ {"idle", "ended"}, NEW place \in Moves,
             Jump(p, from, place), UNCHANGED lock
      PROVE  /\ UNCHANGED lock
             /\ Inside(p)
             /\ \E there \in Moves : pc' = [pc EXCEPT ![p] = there]
  BY <1>2 DEF Jump, GoTo, Inside
<1>a. /\ {"clear", "final", "poll_state", "unlock", "heartbeat", "refresh",
          "start", "finish", "poll"} \subseteq Moves
      /\ {"unflag", "poll", "poll_state", "due", "run", "snapshot", "sleep"}
           \subseteq Places \ {"idle", "ended"}
  BY DEF Moves, Places, Updates, Waypoints
<1>3. CASE ClearFlag(p)
  BY <1>a, <1>2, <1>3 DEF ClearFlag, SetFlag
<1>4. CASE PollFlag(p)
  BY <1>a, <1>2, <1>4 DEF PollFlag, files
<1>5. CASE PollState(p)
  BY <1>a, <1>2, <1>5 DEF PollState, files
<1>6. CASE FindDueTasks(p)
  BY <1>a, <1>2, <1>6 DEF FindDueTasks, files
<1>7. CASE RunTasks(p)
  BY <1>0, <1>a, <1>2, <1>7 DEF RunTasks, files
<1>8. CASE WriteSnapshot(p)
  BY <1>0, <1>a, <1>2, <1>8 DEF WriteSnapshot, files
<1>9. CASE Wake(p)
  BY <1>a, <1>2, <1>9 DEF Wake, files
<1> QED
  BY <1>1, <1>3, <1>4, <1>5, <1>6, <1>7, <1>8, <1>9 DEF DaemonStep

\* The invariant survives a step of process p that is inside and stays where
\* it is or moves on, the lock being left alone.
LEMMA MoveKeepsLockInv ==
  ASSUME LockInv, NEW p \in Procs, UNCHANGED lock, Inside(p),
         pc' = pc \/ \E place \in Moves :
                       pc' = [pc EXCEPT ![p] = place]
  PROVE  LockInv'
<1>1. CASE pc' = pc
  BY <1>1 DEF LockInv, Inside
<1>2. ASSUME NEW place \in Moves, pc' = [pc EXCEPT ![p] = place]
      PROVE  LockInv'
  <2>1. place \in Places /\ place # "stop" /\ pc \in [Procs -> Places]
    BY DEF Moves, LockInv
  <2>2. pc' \in [Procs -> Places]
    BY <1>2, <2>1
  <2>3. ASSUME NEW q \in Daemons
        PROVE  pc'[q] # "stop" /\ (Inside(q)' => lock' = q)
    <3>1. q \in Procs
      BY ProcsAssumption
    <3> QED
      BY <1>2, <2>1, <3>1 DEF LockInv, Inside
  <2> QED
    BY <2>2, <2>3 DEF LockInv
<1> QED
  BY <1>1, <1>2

\* Every step of the system keeps the lock with the process that is inside.
LEMMA NextLockInv == LockInv /\ [Next]_vars => LockInv'
<1> SUFFICES ASSUME LockInv, [Next]_vars PROVE LockInv'
  OBVIOUS
<1> USE ProcsAssumption, FileAssumption
<1>1. ASSUME NEW p \in Daemons, StartDaemon(p) PROVE LockInv'
  <2>1. lock = NoProc /\ lock' = p
    BY <1>1 DEF StartDaemon, Acquire
  <2>2. \A q \in Daemons : ~Inside(q)
    BY <2>1 DEF LockInv
  <2>3. PICK place \in {"unflag", "due"} : pc' = [pc EXCEPT ![p] = place]
    BY <1>1 DEF StartDaemon, GoTo
  <2>4. place \in Places /\ pc \in [Procs -> Places] /\ place # "stop"
    BY DEF Places, Waypoints, LockInv
  <2>5. pc' \in [Procs -> Places]
    BY <2>3, <2>4
  <2>6. ASSUME NEW q \in Daemons
        PROVE  pc'[q] # "stop" /\ (Inside(q)' => lock' = q)
    BY <2>1, <2>2, <2>3, <2>4 DEF LockInv, Inside
  <2> QED
    BY <2>5, <2>6 DEF LockInv
<1>2. ASSUME NEW p \in Daemons, DaemonStep(p), ~Unlock(p) PROVE LockInv'
  BY <1>2, DaemonStepInside, MoveKeepsLockInv
<1>3. ASSUME NEW p \in Daemons, Unlock(p) PROVE LockInv'
  <2>1. /\ Inside(p) /\ pc' = [pc EXCEPT ![p] = "idle"]
        /\ \A q \in Daemons \ {p} : ~Inside(q)
    BY <1>3 DEF Unlock, Jump, GoTo, Inside, LockInv
  <2>2. "idle" \in Places /\ pc \in [Procs -> Places]
    BY DEF Places, Waypoints, LockInv
  <2>3. pc' \in [Procs -> Places]
    BY <2>1, <2>2
  <2>4. ASSUME NEW q \in Daemons
        PROVE  pc'[q] # "stop" /\ ~Inside(q)'
    BY <2>1, <2>2 DEF LockInv, Inside
  <2> QED
    BY <2>3, <2>4 DEF LockInv
<1>4. ASSUME NEW p \in Stoppers, RequestStop(p) \/ Update(p) PROVE LockInv'
  <2>1. p \notin Daemons /\ p \in Procs
    OBVIOUS
  <2>2. UNCHANGED lock
    BY <1>4, <2>1, UpdateInside DEF RequestStop, SetFlag
  <2>3. pc' = pc \/ \E place \in Places : pc' = [pc EXCEPT ![p] = place]
    BY <1>4, <2>1, UpdateInside
    DEF RequestStop, Jump, GoTo, Moves, Places, Updates
  <2>4. pc' \in [Procs -> Places]
    BY <2>3 DEF LockInv
  <2>5. \A q \in Daemons : pc'[q] = pc[q]
    BY <2>1, <2>3 DEF LockInv
  <2> QED
    BY <2>2, <2>4, <2>5 DEF LockInv, Inside
<1>5. ASSUME NEW p \in Procs, Interrupt(p) \/ Kill(p) PROVE LockInv'
  <2>1. /\ UNCHANGED lock /\ Inside(p)
        /\ \E place \in Moves : pc' = [pc EXCEPT ![p] = place]
    BY <1>5 DEF Interrupt, Kill, GoTo, CloseHandle, Inside, Moves, Places,
                Waypoints
  <2> QED
    BY <2>1, MoveKeepsLockInv
<1>6. CASE Tick \/ UNCHANGED vars
  <2>1. UNCHANGED <<pc, lock>>
    BY <1>6 DEF Tick, vars, files, proc
  <2> QED
    BY <2>1 DEF LockInv, Inside
<1> QED
  BY <1>1, <1>2, <1>3, <1>4, <1>5, <1>6 DEF Next

\* The lock file admits one daemon at a time, whether processes fail, are
\* interrupted or killed, and whatever stop requests do to the state file.
THEOREM LockExcludes == Spec => []OneInstance
<1>1. Init => LockInv
  <2>1. SUFFICES ASSUME Init PROVE LockInv
    OBVIOUS
  <2>2. "idle" \in Places
    BY DEF Places, Waypoints
  <2> QED
    BY <2>1, <2>2, ProcsAssumption DEF Init, LockInv, Inside
<1>2. LockInv => OneInstance
  BY DEF LockInv, Inside, OneInstance
<1> QED
  BY <1>1, <1>2, NextLockInv, PTL DEF Spec

-----------------------------------------------------------------------------
(***************************************************************************)
(* What the runs of the tasks leave in the state file, as long as nobody   *)
(* asks for a stop: then only the daemon inside writes it.                 *)
(***************************************************************************)
\* What a load gives.
State == Loaded(DefaultState)

\* A process that has loaded the state it is about to save.
Saving(p) == pc[p] \in Updates /\ io[p] # "load"

HistoryType ==
  /\ file \in FileState \cup {NoFile}
  /\ now \in Nat
  /\ io \in [Procs -> {"load", "open", "write", "replace"}]
  /\ view \in [Procs -> FileState]
  /\ due \in [Procs -> SUBSET Tasks]
  /\ at \in [Procs -> Nat]
  /\ handle \in [Procs -> {"none", "tmp", "file", "gone"}]
  /\ ran \in [Tasks -> Int]
  /\ interrupted \in BOOLEAN

Ends == {"finish", "fail"}
Marks == {"mark", "mark_failed"}

\* What an update of the cycle may do to the plan and the mark of a task in a
\* state s, when the tasks T are due.
EntryEffect(u, update, s, T, from, t) ==
  /\ IF t \in T /\ update \in Marks
     THEN u.tasks[t].next >= from + Interval[t]
     ELSE \/ u.tasks[t].next = s.tasks[t].next
          \/ /\ t \in T /\ update \in Ends
             /\ u.tasks[t].next = from + Interval[t]
  /\ u.tasks[t].last = "running" =>
       \/ /\ s.tasks[t].last = "running"
          /\ ~(t \in Labelled(T) /\ update \in Ends)
       \/ t \in Labelled(T) /\ update = "start"

\* The same for the current tasks.
CurrentEffect(u, update, s) ==
  update # "start" => /\ u.current \in {s.current, {}}
                      /\ update \in Ends => u.current = {}

Effect(u, update, s, T, from) ==
  /\ \A t \in Tasks : EntryEffect(u, update, s, T, from, t)
  /\ CurrentEffect(u, update, s)

\* The state about to be saved has the effect of the update on the file's.
Saves(p) == Effect(view[p], pc[p], State, due[p], at[p])

\* What a process that holds no file open, or its own temporary, relies on.
WritesAlone(p) ==
  /\ handle[p] # "none" => Updating(p, "write")
  /\ Updating(p, "write") => tmp = Torn /\ handle[p] = "tmp"
  /\ Updating(p, "replace") => tmp = view[p]

\* Of a task that is due: planned up to this cycle, or from an interval on.
Planned(p, t) ==
  LET next == State.tasks[t].next
  IN  /\ pc[p] \in {"start", "run"} => next <= at[p]
      /\ pc[p] \in Ends \cup Marks \cup {"snapshot"} =>
           next <= at[p] \/ next >= at[p] + Interval[t]

\* No task in progress.
Quiet == State.current = {} /\ \A t \in Tasks : State.tasks[t].last # "running"

\* Only the task under whose name the run was started is in progress.
OnlyLabelled(p) ==
  \A t \in Tasks : State.tasks[t].last = "running" => t \in Labelled(due[p])

\* What is true of the daemon inside.
InsideInv(p) ==
  /\ Saving(p) => Saves(p)
  /\ \A t \in due[p] : Planned(p, t)
  /\ ~interrupted => IF pc[p] \in Ends \cup {"run"} THEN OnlyLabelled(p) ELSE Quiet

HistoryInv ==
  /\ LockInv
  /\ HistoryType
  /\ \A p \in Daemons : WritesAlone(p) /\ at[p] <= now
  /\ \A p \in Daemons : Inside(p) => InsideInv(p)
  /\ lock = NoProc /\ ~interrupted => Quiet
  /\ \A t \in Tasks : State.tasks[t].next >= ran[t] + Interval[t]

-----------------------------------------------------------------------------
(***************************************************************************)
(* What each update makes of a state.                                      *)
(***************************************************************************)
\* Every update gives a state and has no more than that effect.
LEMMA UpdatedIs ==
  ASSUME NEW update \in Updates \ {"stop"}, NEW s \in FileState,
         NEW T \in SUBSET Tasks, NEW from \in Nat, now \in Nat, from <= now
  PROVE  /\ Updated(update, s, T, from) \in FileState
         /\ Effect(Updated(update, s, T, from), update, s, T, from)
<1> DEFINE u == Updated(update, s, T, from)
           Changed(t) == EntryEffect(u, update, s, T, from, t)
<1>0. /\ Labelled(T) \subseteq T
      /\ T \subseteq Tasks
      /\ Interval \in [Tasks -> Nat \ {0}]
      /\ s.tasks \in [Tasks -> TaskState]
  BY ScheduleAssumption DEF Labelled, FileState
<1>1. CASE update \in {"clear", "heartbeat", "refresh", "final"}
  BY <1>1 DEF Updated, FileState, TaskState, Ends, Marks, Effect, EntryEffect,
         CurrentEffect
<1>2. CASE update = "start"
  <2>1. u = StartTask(s, T)
    BY <1>2 DEF Updated
  <2> DEFINE e == [t \in Tasks |-> IF t \in Labelled(T)
                                   THEN [s.tasks[t] EXCEPT !.last = "running"]
                                   ELSE s.tasks[t]]
  <2>2. u = [s EXCEPT !.status = "running", !.current = T, !.tasks = e]
    BY <2>1 DEF StartTask, WithEntries
  <2>3. e \in [Tasks -> TaskState]
    BY <1>0 DEF TaskState
  <2>4. u \in FileState /\ u.tasks = e
    <3> HIDE DEF u, e
    <3> QED
      BY <2>2, <2>3 DEF FileState
  <2>5. ASSUME NEW t \in Tasks PROVE Changed(t)
    <3>1. s.tasks[t] \in TaskState
      BY <1>0
    <3> HIDE DEF u
    <3> QED
      BY <1>2, <2>4, <3>1 DEF Ends, Marks, TaskState, EntryEffect
  <2> QED
    BY <1>2, <2>4, <2>5 DEF Effect, CurrentEffect
<1>3. CASE update \in Ends
  <2> DEFINE status == IF update = "finish" THEN "running" ELSE "error"
             last == IF update = "finish" THEN "success" ELSE "failed"
             e == [t \in Tasks |-> IF t \in Labelled(T)
                                   THEN [next |-> from + Interval[t], last |-> last]
                                   ELSE s.tasks[t]]
  <2>1. u = EndTask(s, T, from, status, last)
    BY <1>3 DEF Updated, Ends
  <2>2. u = [s EXCEPT !.status = status, !.current = {}, !.tasks = e]
    BY <2>1 DEF EndTask, WithEntries
  <2>3. e \in [Tasks -> TaskState]
    BY <1>0 DEF TaskState
  <2>4. u \in FileState /\ u.tasks = e /\ u.current = {}
    <3>1. status \in {"stopped", "running", "error"}
      OBVIOUS
    <3> HIDE DEF u, e, status
    <3> QED
      BY <2>2, <2>3, <3>1 DEF FileState
  <2>5. ASSUME NEW t \in Tasks PROVE Changed(t)
    <3>1. s.tasks[t] \in TaskState /\ last # "running"
      BY <1>0
    <3> HIDE DEF u, last
    <3> QED
      BY <1>0, <1>3, <2>4, <3>1 DEF Ends, Marks, TaskState, EntryEffect
  <2> QED
    BY <2>4, <2>5 DEF Effect, CurrentEffect
<1>4. CASE update \in Marks
  <2> DEFINE last == IF update = "mark" THEN "success" ELSE "failed"
             e == [t \in Tasks |-> IF t \in T
                                   THEN [next |-> now + Interval[t], last |-> last]
                                   ELSE s.tasks[t]]
  <2>1. u = MarkTasks(s, T, last)
    BY <1>4 DEF Updated, Marks
  <2>2. u = [s EXCEPT !.tasks = e]
    BY <2>1 DEF MarkTasks, WithEntries
  <2>3. e \in [Tasks -> TaskState]
    BY <1>0 DEF TaskState
  <2>4. u \in FileState /\ u.tasks = e /\ u.current = s.current
    <3> HIDE DEF u, e
    <3> QED
      BY <2>2, <2>3 DEF FileState
  <2>5. ASSUME NEW t \in Tasks PROVE Changed(t)
    <3>1. s.tasks[t] \in TaskState /\ last # "running" /\ Interval[t] \in Nat
      BY <1>0
    <3> HIDE DEF u, last
    <3> QED
      BY <1>0, <1>4, <2>4, <3>1 DEF Ends, Marks, TaskState, EntryEffect
  <2>6. CurrentEffect(u, update, s)
    BY <1>4, <2>4 DEF Ends, Marks, CurrentEffect
  <2> QED
    BY <2>4, <2>5, <2>6 DEF Effect
<1> QED
  BY <1>1, <1>2, <1>3, <1>4 DEF Updates, Ends, Marks

-----------------------------------------------------------------------------
(***************************************************************************)
(* The steps.                                                              *)
(***************************************************************************)
\* While one daemon is inside the others are not, and have no file open.
LEMMA OthersOutside ==
  ASSUME HistoryInv, NEW p \in Daemons, Inside(p)
  PROVE  \A q \in Daemons \ {p} : ~Inside(q) /\ pc[q] \notin Updates
                                  /\ handle[q] = "none"
BY DEF HistoryInv, LockInv, WritesAlone, Updating, Inside, Updates

\* The plans keep their distance from the last recorded run: a step leaves the
\* plan of a task alone or it is the save that records a run of it.
LEMMA PlansStaySpaced ==
  ASSUME HistoryInv, Remember, HistoryType', LockInv',
         \A t \in Tasks :
           \/ State'.tasks[t].next = State.tasks[t].next
           \/ \E p \in Daemons :
                /\ Updating(p, "replace") /\ pc[p] \in Ends \cup Marks
                /\ t \in due[p] /\ file' \in FileState
                /\ State'.tasks[t].next >= at[p] + Interval[t]
  PROVE  \A t \in Tasks : State'.tasks[t].next >= ran'[t] + Interval[t]
<1> SUFFICES ASSUME NEW t \in Tasks
             PROVE  State'.tasks[t].next >= ran'[t] + Interval[t]
  OBVIOUS
<1> DEFINE new == State'.tasks[t].next
           old == State.tasks[t].next
<1>0. /\ Interval[t] \in Nat /\ Interval[t] > 0
      /\ old >= ran[t] + Interval[t]
      /\ ran[t] \in Int
      /\ \A p \in Daemons : at[p] \in Nat
      /\ \A p \in Daemons : pc[p] \in Ends \cup Marks => Inside(p)
  BY ScheduleAssumption, ProcsAssumption
  DEF HistoryInv, HistoryType, Ends, Marks, Inside
<1>1. old \in Nat /\ new \in Nat
  <2>1. DefaultState \in FileState
    BY DEF DefaultState, FileState, TaskState
  <2>2. State \in FileState
    BY <2>1 DEF State, Loaded, HistoryInv, HistoryType
  <2>3. State' \in FileState
    <3>1. file' = NoFile \/ file' \in FileState
      BY DEF HistoryType
    <3> QED
      BY <2>1, <3>1 DEF State, Loaded, DefaultState
  <2> QED
    BY <2>2, <2>3 DEF FileState, TaskState
<1>2. ASSUME NEW p \in Daemons, Records(p, t)
      PROVE  /\ new > at[p]
             /\ new >= at[p] + Interval[t]
  <2>1. new > at[p] /\ t \in due[p] /\ pc[p] \in Ends \cup Marks /\ Inside(p)
    BY <1>0, <1>2, ContentAssumption
    DEF Records, State, Loaded, Ends, Marks, Inside
  <2>2. old <= at[p] \/ old >= at[p] + Interval[t]
    BY <2>1 DEF HistoryInv, InsideInv, Planned
  <2>3. CASE new = old
    BY <1>0, <1>1, <2>1, <2>2, <2>3
  <2>4. ASSUME NEW q \in Daemons, pc[q] \in Ends \cup Marks,
               new >= at[q] + Interval[t]
        PROVE  new >= at[p] + Interval[t]
    <3>1. q = p
      BY <1>0, <2>1, <2>4 DEF HistoryInv, LockInv
    <3> QED
      BY <2>4, <3>1
  <2> QED
    BY <2>1, <2>3, <2>4
<1>3. CASE \E p \in Daemons : Records(p, t)
  <2> DEFINE p == CHOOSE q \in Daemons : Records(q, t)
  <2>1. p \in Daemons /\ Records(p, t)
    BY <1>3
  <2>2. ran'[t] = at[p]
    BY <1>3 DEF Remember
  <2> HIDE DEF p
  <2> QED
    BY <1>2, <2>1, <2>2
<1>4. CASE ~\E p \in Daemons : Records(p, t)
  <2>1. ran'[t] = ran[t]
    BY <1>4 DEF Remember
  <2>2. CASE new = old
    BY <1>0, <2>1, <2>2
  <2>3. ASSUME NEW p \in Daemons,
               Updating(p, "replace"), pc[p] \in Ends \cup Marks,
               t \in due[p], file' \in FileState, new >= at[p] + Interval[t]
        PROVE  FALSE
    <3>1. new > at[p]
      BY <1>0, <1>1, <2>3
    <3>2. State' = file'
      BY <2>3, ContentAssumption DEF State, Loaded
    <3> QED
      BY <1>4, <2>3, <3>1, <3>2 DEF Records, Ends, Marks
  <2> QED
    BY <2>2, <2>3
<1> QED
  BY <1>3, <1>4

\* The invariant after a step of the one daemon inside.
LEMMA StepOfInside ==
  ASSUME HistoryInv, LockInv', HistoryType', Remember,
         NEW p \in Daemons, Inside(p), UNCHANGED now,
         \A q \in Daemons \ {p} : /\ pc'[q] = pc[q] /\ handle'[q] = handle[q]
                                  /\ at'[q] = at[q],
         WritesAlone(p)', at'[p] <= now,
         Inside(p)' => InsideInv(p)' /\ lock' # NoProc,
         lock' = NoProc /\ ~interrupted' => Quiet',
         \A t \in Tasks :
           \/ State'.tasks[t].next = State.tasks[t].next
           \/ /\ Updating(p, "replace") /\ pc[p] \in Ends \cup Marks
              /\ t \in due[p] /\ file' \in FileState
              /\ State'.tasks[t].next >= at[p] + Interval[t]
  PROVE  HistoryInv'
<1>1. \A t \in Tasks : State'.tasks[t].next >= ran'[t] + Interval[t]
  BY PlansStaySpaced
<1>2. ASSUME NEW q \in Daemons \ {p}
      PROVE  WritesAlone(q)' /\ at'[q] <= now' /\ ~Inside(q)'
  BY OthersOutside DEF WritesAlone, Updating, Inside, HistoryInv
<1>3. \A q \in Daemons : WritesAlone(q)' /\ at'[q] <= now'
  BY <1>2
<1>4. \A q \in Daemons : Inside(q)' => InsideInv(q)'
  BY <1>2
<1> QED
  BY <1>1, <1>3, <1>4 DEF HistoryInv

\* What a load computes, and what the state saved with it is.
LEMMA LoadSaves ==
  ASSUME HistoryInv, NEW p \in Daemons, LoadForUpdate(p)
  PROVE  /\ view' \in [Procs -> FileState]
         /\ io' \in [Procs -> {"load", "open", "write", "replace"}]
         /\ pc' = pc /\ io'[p] = "open"
         /\ UNCHANGED <<files, now, due, at>>
         /\ Saves(p)'
<1>1. /\ p \in Procs /\ pc[p] \in Updates \ {"stop"}
      /\ due[p] \in SUBSET Tasks /\ at[p] \in Nat /\ now \in Nat /\ at[p] <= now
      /\ Readable
  BY ProcsAssumption, ContentAssumption
  DEF LoadForUpdate, Updating, HistoryInv, HistoryType, LockInv, Readable
<1>2. State \in FileState
  BY DEF State, Loaded, HistoryInv, HistoryType, DefaultState, FileState,
         TaskState
<1> DEFINE u == Updated(pc[p], State, due[p], at[p])
<1>3. /\ view' = [view EXCEPT ![p] = u]
      /\ io' = [io EXCEPT ![p] = "open"]
      /\ pc' = pc
      /\ UNCHANGED <<files, now, due, at>>
  BY <1>1 DEF LoadForUpdate, State
<1>4. u \in FileState /\ Effect(u, pc[p], State, due[p], at[p])
  BY <1>1, <1>2, UpdatedIs
<1>5. State' = State
  BY <1>3 DEF State, Loaded, files
<1>6. view'[p] = u
  BY <1>1, <1>3 DEF HistoryInv, HistoryType
<1> HIDE DEF u
<1>7. Saves(p)'
  BY <1>3, <1>4, <1>5, <1>6 DEF Saves, Effect, EntryEffect, CurrentEffect
<1> QED
  BY <1>1, <1>3, <1>4, <1>7 DEF HistoryInv, HistoryType

\* What the other steps of an update do.
LEMMA SaveSteps ==
  ASSUME HistoryInv, Stoppers = {}, NEW p \in Daemons
  PROVE  /\ OpenForUpdate(p) => /\ tmp' = Torn /\ io'[p] = "write"
                                /\ handle' = [handle EXCEPT ![p] = "tmp"]
                                /\ io' = [io EXCEPT ![p] = "write"]
                                /\ UNCHANGED <<file, view>>
         /\ WriteForUpdate(p) => /\ tmp' = view[p] /\ io'[p] = "replace"
                                 /\ handle' = [handle EXCEPT ![p] = "none"]
                                 /\ io' = [io EXCEPT ![p] = "replace"]
                                 /\ UNCHANGED <<file, view>>
         /\ ReplaceForUpdate(p) => /\ file' = view[p] /\ view[p] \in FileState
                                   /\ State' = view[p]
                                   /\ handle' = handle
                                   /\ GoTo(p, After(p))
                                   /\ view' = [view EXCEPT ![p] = DefaultState]
<1>0. /\ p \in Procs /\ io \in [Procs -> {"load", "open", "write", "replace"}]
      /\ view \in [Procs -> FileState]
      /\ handle \in [Procs -> {"none", "tmp", "file", "gone"}]
  BY ProcsAssumption DEF HistoryInv, HistoryType
<1>1. CASE OpenForUpdate(p)
  BY <1>0, <1>1 DEF OpenForUpdate, OpenTemp, WriteForUpdate, ReplaceForUpdate,
                    Updating
<1>2. CASE WriteForUpdate(p)
  <2>1. tmp = Torn /\ handle[p] = "tmp"
    BY <1>2 DEF WriteForUpdate, HistoryInv, WritesAlone
  <2> QED
    BY <1>0, <1>2, <2>1 DEF OpenForUpdate, WriteForUpdate, ReplaceForUpdate,
                            WriteTemp, Overwritten, Updating
<1>3. CASE ReplaceForUpdate(p)
  <2>1. tmp = view[p] /\ view[p] \in FileState
    BY <1>0, <1>3 DEF ReplaceForUpdate, HistoryInv, WritesAlone
  <2>2. CanReplace
    BY <2>1, ContentAssumption DEF CanReplace
  <2>3. ReplaceTemp /\ GoTo(p, After(p))
        /\ view' = [view EXCEPT ![p] = DefaultState]
    BY <1>3, <2>2 DEF ReplaceForUpdate
  <2>4. file' = view[p] /\ State' = view[p]
    BY <2>1, <2>3, ContentAssumption DEF ReplaceTemp, State, Loaded
  <2>5. Inside(p) /\ ~Updating(p, "write")
    BY <1>3 DEF ReplaceForUpdate, Updating, Inside, Updates
  <2>6. \A q \in Procs : handle[q] = "none"
    BY <2>5, OthersOutside, ProcsAssumption DEF HistoryInv, WritesAlone
  <2>7. handle' = [q \in Procs |-> handle[q]]
    BY <2>3, <2>6 DEF ReplaceTemp
  <2>8. handle' = handle
    BY <1>0, <2>7
  <2> QED
    BY <1>3, <2>1, <2>3, <2>4, <2>8
  DEF OpenForUpdate, WriteForUpdate, ReplaceForUpdate, Updating
<1> QED
  BY <1>1, <1>2, <1>3

\* The memory keeps its type, and never forgets an interrupt.
LEMMA RememberKeeps ==
  ASSUME HistoryInv, Remember
  PROVE  /\ ran' \in [Tasks -> Int]
         /\ interrupted' \in BOOLEAN
         /\ interrupted => interrupted'
<1>1. ASSUME NEW t \in Tasks, \E p \in Daemons : Records(p, t)
      PROVE  at[CHOOSE p \in Daemons : Records(p, t)] \in Int
  <2> DEFINE p == CHOOSE q \in Daemons : Records(q, t)
  <2>1. p \in Procs
    BY <1>1, ProcsAssumption
  <2> HIDE DEF p
  <2>2. at[p] \in Int
    BY <2>1 DEF HistoryInv, HistoryType
  <2> QED
    BY <2>2 DEF p
<1>2. \A t \in Tasks : ran[t] \in Int
  BY DEF HistoryInv, HistoryType
<1> QED
  BY <1>1, <1>2 DEF Remember, HistoryInv, HistoryType

\* The daemon inside moves on between two updates and leaves the files alone.
LEMMA MoveInside ==
  ASSUME HistoryInv, LockInv', Remember,
         NEW p \in Daemons, Inside(p), pc[p] \notin Updates,
         NEW place \in Moves \ {"ended", "idle"}, GoTo(p, place),
         UNCHANGED <<file, tmp, lock, handle, now, view>>,
         due' \in [Procs -> SUBSET Tasks], at' \in [Procs -> Nat],
         \A q \in Daemons \ {p} : at'[q] = at[q],
         at'[p] <= now,
         \A t \in due'[p] : Planned(p, t)',
         ~interrupted => IF place \in Ends \cup {"run"}
                         THEN OnlyLabelled(p)' ELSE Quiet
  PROVE  HistoryInv'
<1>0. /\ p \in Procs /\ pc \in [Procs -> Places]
      /\ io \in [Procs -> {"load", "open", "write", "replace"}]
      /\ pc' = [pc EXCEPT ![p] = place]
      /\ io' = [io EXCEPT ![p] = "load"]
  BY ProcsAssumption DEF HistoryInv, HistoryType, LockInv, GoTo
<1>1. HistoryType'
  BY <1>0, RememberKeeps DEF HistoryInv, HistoryType
<1>2. pc'[p] = place /\ io'[p] = "load"
      /\ \A q \in Daemons \ {p} : pc'[q] = pc[q]
  BY <1>0, ProcsAssumption
<1>3. State' = State
  BY DEF State, Loaded
<1>4. WritesAlone(p)'
  BY <1>2 DEF WritesAlone, Updating, HistoryInv
<1>5. InsideInv(p)'
  BY <1>2, <1>3, RememberKeeps DEF InsideInv, Saving, Quiet
<1>6. lock' = p /\ lock' # NoProc
  BY <1>0, FileAssumption DEF HistoryInv, LockInv
<1> QED
  BY <1>1, <1>2, <1>3, <1>4, <1>5, <1>6, StepOfInside

\* The steps of a daemon between two updates.
LEMMA BetweenUpdates ==
  ASSUME HistoryInv, LockInv', Remember, NEW p \in Daemons,
         \/ ClearFlag(p) \/ PollFlag(p) \/ PollState(p) \/ FindDueTasks(p)
         \/ RunTasks(p) \/ WriteSnapshot(p) \/ Wake(p)
  PROVE  HistoryInv'
<1>0. /\ p \in Procs /\ Readable
      /\ due \in [Procs -> SUBSET Tasks] /\ at \in [Procs -> Nat]
      /\ now \in Nat /\ at[p] <= now
  BY ProcsAssumption, ContentAssumption DEF HistoryInv, HistoryType, Readable
<1>1. /\ "clear" \in Updates /\ "unflag" \notin Updates /\ "poll" \notin Updates
      /\ "poll_state" \notin Updates /\ "due" \notin Updates
      /\ "run" \notin Updates /\ "snapshot" \notin Updates
      /\ "sleep" \notin Updates
      /\ {"clear", "poll_state", "final", "heartbeat", "refresh", "start",
          "finish", "fail", "unlock", "sleep", "poll"}
           \subseteq Moves \ {"ended", "idle"}
      /\ Ends = {"finish", "fail"} /\ Marks = {"mark", "mark_failed"}
  BY DEF Updates, Waypoints, Places, Moves, Ends, Marks
\* A move that is not of the task phase, with the locals kept or dropped.
<1>2. ASSUME NEW from \in {"unflag", "poll", "poll_state", "snapshot", "sleep"},
             NEW place \in {"clear", "poll_state", "final", "heartbeat",
                            "unlock", "sleep", "poll"},
             Jump(p, from, place), UNCHANGED <<file, tmp, lock, handle>>,
             \/ UNCHANGED <<due, at>>
             \/ /\ due' = [due EXCEPT ![p] = {}]
                /\ at' = [at EXCEPT ![p] = 0]
      PROVE  HistoryInv'
  <2>1. /\ Inside(p) /\ pc[p] = from /\ GoTo(p, place) /\ UNCHANGED <<now, view>>
        /\ pc[p] \notin Updates
        /\ place \in Moves \ {"ended", "idle"}
    BY <1>1, <1>2 DEF Jump, Inside
  <2>2. /\ due' \in [Procs -> SUBSET Tasks] /\ at' \in [Procs -> Nat]
        /\ at'[p] <= now
        /\ \A q \in Daemons \ {p} : at'[q] = at[q]
    <3>1. CASE UNCHANGED <<due, at>>
      BY <1>0, <3>1
    <3>2. CASE /\ due' = [due EXCEPT ![p] = {}]
               /\ at' = [at EXCEPT ![p] = 0]
      BY <1>0, <3>2, ProcsAssumption
    <3> QED
      BY <1>2, <3>1, <3>2
  <2>3. pc'[p] = place
    BY <1>0, <2>1 DEF GoTo, HistoryInv, LockInv
  <2>4. \A t \in due'[p] : Planned(p, t)'
    BY <1>1, <2>3 DEF Planned
  <2>5. ~interrupted => Quiet
    BY <1>1, <2>1 DEF HistoryInv, InsideInv
  <2> QED
    BY <1>1, <1>2, <2>1, <2>2, <2>4, <2>5, MoveInside
<1>3. CASE ClearFlag(p)
  BY <1>2, <1>3 DEF ClearFlag, SetFlag
<1>4. CASE PollFlag(p)
  BY <1>2, <1>4 DEF PollFlag, files
<1>5. CASE PollState(p)
  BY <1>0, <1>2, <1>5 DEF PollState, files
<1>6. CASE Wake(p)
  BY <1>2, <1>6 DEF Wake, files
<1>7. CASE FindDueTasks(p)
  <2> DEFINE found == DueTasks(State)
             place == IF found = {} THEN "refresh" ELSE "start"
  <2>1. /\ Jump(p, "due", place)
        /\ due' = [due EXCEPT ![p] = found]
        /\ at' = [at EXCEPT ![p] = now]
        /\ UNCHANGED files
    BY <1>0, <1>7 DEF FindDueTasks, State
  <2>2. found \subseteq Tasks
    BY DEF DueTasks
  <2>3. /\ Inside(p) /\ pc[p] = "due" /\ GoTo(p, place) /\ UNCHANGED <<now, view>>
        /\ UNCHANGED <<file, tmp, lock, handle>>
        /\ place \in Moves \ {"ended", "idle"}
    BY <1>1, <2>1 DEF Jump, Inside, files
  <2>4. pc'[p] = place
    BY <1>0, <2>3 DEF GoTo, HistoryInv, LockInv
  <2>5. /\ due' \in [Procs -> SUBSET Tasks] /\ at' \in [Procs -> Nat]
        /\ at'[p] = now /\ due'[p] = found
        /\ \A q \in Daemons \ {p} : at'[q] = at[q]
    BY <1>0, <2>1, <2>2
  <2>6. \A t \in due'[p] : Planned(p, t)'
    <3>1. State' = State
      BY <2>3 DEF State, Loaded
    <3>2. \A t \in found : State.tasks[t].next <= now
      BY DEF DueTasks
    <3> QED
      BY <1>1, <2>4, <2>5, <3>1, <3>2 DEF Planned
  <2>7. ~interrupted => Quiet
    BY <1>1, <2>3 DEF HistoryInv, InsideInv
  <2> QED
    BY <1>0, <1>1, <2>3, <2>5, <2>6, <2>7, MoveInside
\* The task phase.
<1>8. ASSUME NEW place \in {"finish", "fail"},
             \/ Jump(p, "run", place)
             \/ Jump(p, "snapshot", place), UNCHANGED <<files, due, at>>
      PROVE  HistoryInv'
  <2>1. /\ Inside(p) /\ GoTo(p, place) /\ UNCHANGED <<now, view>>
        /\ pc[p] \in {"run", "snapshot"}
        /\ UNCHANGED <<file, tmp, lock, handle>>
        /\ place \in Moves \ {"ended", "idle"}
    BY <1>1, <1>8 DEF Jump, Inside, files
  <2>2. pc'[p] = place
    BY <1>0, <2>1 DEF GoTo, HistoryInv, LockInv
  <2>3. State' = State
    BY <2>1 DEF State, Loaded
  <2>4. \A t \in due[p] : Planned(p, t)
    BY <2>1 DEF HistoryInv, InsideInv
  <2>5. \A t \in due'[p] : Planned(p, t)'
    BY <1>1, <1>8, <2>1, <2>2, <2>3, <2>4 DEF Planned
  <2>6. ~interrupted => OnlyLabelled(p)
    BY <1>1, <2>1 DEF HistoryInv, InsideInv, Quiet, OnlyLabelled
  <2>7. ~interrupted => OnlyLabelled(p)'
    BY <1>8, <2>3, <2>6 DEF OnlyLabelled, Labelled
  <2> QED
    BY <1>0, <1>1, <1>8, <2>1, <2>5, <2>7, MoveInside
<1>9. CASE RunTasks(p)
  <2>1. pc[p] = "run"
    BY <1>9 DEF RunTasks, Jump
  <2>2. Handler(p) = "fail"
    BY <2>1 DEF Handler
  <2> QED
    BY <1>8, <1>9, <2>2 DEF RunTasks
<1>10. CASE WriteSnapshot(p)
  <2>1. pc[p] = "snapshot"
    BY <1>10 DEF WriteSnapshot, Jump
  <2>2. Handler(p) = "fail" /\ CycleEnd(p) \in {"unlock", "sleep"}
    BY <2>1 DEF Handler, CycleEnd
  <2> QED
    BY <1>2, <1>8, <1>10, <2>2 DEF WriteSnapshot, files
<1> QED
  BY <1>3, <1>4, <1>5, <1>6, <1>7, <1>9, <1>10

\* The load of an update.
LEMMA LoadKeeps ==
  ASSUME HistoryInv, LockInv', Remember, NEW p \in Daemons, LoadForUpdate(p)
  PROVE  HistoryInv'
<1>0. /\ view' \in [Procs -> FileState]
      /\ io' \in [Procs -> {"load", "open", "write", "replace"}]
      /\ pc' = pc /\ io'[p] = "open"
      /\ UNCHANGED <<files, now, due, at>>
      /\ Saves(p)'
  BY LoadSaves
<1>1. HistoryType'
  BY <1>0, RememberKeeps DEF HistoryInv, HistoryType, files
<1>2. State' = State
  BY <1>0 DEF State, Loaded, files
<1>3. Inside(p)
  BY DEF LoadForUpdate, Updating, Updates, Inside
<1>4. WritesAlone(p)'
  BY <1>0 DEF WritesAlone, Updating, HistoryInv, files, LoadForUpdate
<1>5. InsideInv(p)'
  <2>1. /\ \A t \in due[p] : Planned(p, t)
        /\ ~interrupted => IF pc[p] \in Ends \cup {"run"}
                           THEN OnlyLabelled(p) ELSE Quiet
    BY <1>3 DEF HistoryInv, InsideInv
  <2>2. \A t \in due'[p] : Planned(p, t)'
    BY <1>0, <1>2, <2>1 DEF Planned
  <2>3. ~interrupted' => IF pc'[p] \in Ends \cup {"run"}
                         THEN OnlyLabelled(p)' ELSE Quiet'
    BY <1>0, <1>2, <2>1, RememberKeeps DEF OnlyLabelled, Quiet
  <2> QED
    BY <1>0, <2>2, <2>3 DEF InsideInv
<1>6. lock' = p /\ lock' # NoProc
  BY <1>0, <1>3, ProcsAssumption, FileAssumption
  DEF HistoryInv, LockInv, files
<1>7. at'[p] <= now /\ UNCHANGED <<now, pc, handle, at>>
  BY <1>0 DEF HistoryInv, files
<1> QED
  BY <1>1, <1>2, <1>3, <1>4, <1>5, <1>6, <1>7, StepOfInside

\* The opening and the writing of the temporary.
LEMMA WriteKeeps ==
  ASSUME HistoryInv, LockInv', Remember, Stoppers = {}, NEW p \in Daemons,
         OpenForUpdate(p) \/ WriteForUpdate(p)
  PROVE  HistoryInv'
<1>0. /\ p \in Procs
      /\ io \in [Procs -> {"load", "open", "write", "replace"}]
      /\ view \in [Procs -> FileState]
      /\ handle \in [Procs -> {"none", "tmp", "file", "gone"}]
  BY ProcsAssumption DEF HistoryInv, HistoryType
<1>1. UNCHANGED <<file, lock, now, pc, view, due, at>>
  BY SaveSteps DEF OpenForUpdate, WriteForUpdate, OpenTemp, WriteTemp
<1>2. PICK step \in {"write", "replace"}, h \in {"tmp", "none"} :
        /\ io' = [io EXCEPT ![p] = step]
        /\ handle' = [handle EXCEPT ![p] = h]
        /\ step = "write" => tmp' = Torn /\ h = "tmp"
        /\ step = "replace" => tmp' = view[p] /\ h = "none"
  BY SaveSteps
<1>3. HistoryType'
  BY <1>0, <1>1, <1>2, RememberKeeps DEF HistoryInv, HistoryType
<1>4. State' = State
  BY <1>1 DEF State, Loaded
<1>5. Inside(p) /\ Saving(p) /\ pc[p] \in Updates
  BY DEF OpenForUpdate, WriteForUpdate, Updating, Updates, Inside, Saving
<1>6. io'[p] = step /\ handle'[p] = h
      /\ \A q \in Daemons \ {p} : handle'[q] = handle[q]
  BY <1>0, <1>2, ProcsAssumption
<1>7. WritesAlone(p)'
  BY <1>1, <1>2, <1>5, <1>6 DEF WritesAlone, Updating
<1>8. InsideInv(p)'
  <2>1. /\ Saves(p) /\ \A t \in due[p] : Planned(p, t)
        /\ ~interrupted => IF pc[p] \in Ends \cup {"run"}
                           THEN OnlyLabelled(p) ELSE Quiet
    BY <1>5 DEF HistoryInv, InsideInv
  <2>2. Saves(p)'
    BY <1>1, <1>4, <2>1
    DEF Saves, Effect, EntryEffect, CurrentEffect, Labelled
  <2>3. \A t \in due'[p] : Planned(p, t)'
    BY <1>1, <1>4, <2>1 DEF Planned
  <2>4. ~interrupted' => IF pc'[p] \in Ends \cup {"run"}
                         THEN OnlyLabelled(p)' ELSE Quiet'
    BY <1>1, <1>4, <2>1, RememberKeeps DEF OnlyLabelled, Quiet
  <2> QED
    BY <2>2, <2>3, <2>4 DEF InsideInv
<1>9. lock' = p /\ lock' # NoProc
  BY <1>0, <1>1, <1>5, FileAssumption DEF HistoryInv, LockInv
<1>10. at'[p] <= now
  BY <1>1 DEF HistoryInv
<1> QED
  BY <1>1, <1>3, <1>4, <1>5, <1>6, <1>7, <1>8, <1>9, <1>10, StepOfInside

\* The rename: the state file becomes what the update computed.
LEMMA ReplaceKeeps ==
  ASSUME HistoryInv, LockInv', Remember, Stoppers = {}, NEW p \in Daemons,
         ReplaceForUpdate(p)
  PROVE  HistoryInv'
<1> DEFINE place == After(p)
<1>0. /\ p \in Procs /\ pc \in [Procs -> Places]
      /\ io \in [Procs -> {"load", "open", "write", "replace"}]
      /\ view \in [Procs -> FileState]
      /\ due \in [Procs -> SUBSET Tasks] /\ at \in [Procs -> Nat]
      /\ Interval \in [Tasks -> Nat \ {0}]
  BY ProcsAssumption, ScheduleAssumption DEF HistoryInv, HistoryType, LockInv
<1>1. /\ Updating(p, "replace") /\ Inside(p) /\ Saving(p)
      /\ pc[p] \in Updates \ {"stop"}
      /\ UNCHANGED <<now, due, at, lock>>
  BY DEF ReplaceForUpdate, Updating, Updates, Inside, Saving, HistoryInv,
         LockInv, files, ReplaceTemp
<1>2. /\ file' = view[p] /\ view[p] \in FileState
      /\ State' = view[p]
      /\ handle' = handle
      /\ pc' = [pc EXCEPT ![p] = place]
      /\ io' = [io EXCEPT ![p] = "load"]
      /\ view' = [view EXCEPT ![p] = DefaultState]
  BY SaveSteps DEF GoTo
<1>3. HistoryType'
  <2>1. DefaultState \in FileState
    BY DEF DefaultState, FileState, TaskState
  <2> QED
    BY <1>0, <1>1, <1>2, <2>1, RememberKeeps DEF HistoryInv, HistoryType
<1>4. pc'[p] = place /\ io'[p] = "load"
      /\ \A q \in Daemons \ {p} : pc'[q] = pc[q]
  BY <1>0, <1>2, ProcsAssumption
<1>5. /\ pc[p] = "start" => place = "run"
      /\ pc[p] = "finish" => place = "mark"
      /\ pc[p] = "mark" => place = "snapshot"
      /\ pc[p] = "fail" => place = "mark_failed"
      /\ pc[p] \notin {"start", "finish", "mark", "fail"} =>
           place \in {"poll", "due", "unlock", "sleep"}
  BY <1>1 DEF After, Updates, CycleEnd
<1> HIDE DEF place
<1>6. /\ \A t \in Tasks : EntryEffect(State', pc[p], State, due[p], at[p], t)
      /\ CurrentEffect(State', pc[p], State)
      /\ \A t \in due[p] : Planned(p, t)
      /\ ~interrupted => IF pc[p] \in Ends \cup {"run"}
                         THEN OnlyLabelled(p) ELSE Quiet
  BY <1>1, <1>2 DEF HistoryInv, InsideInv, Saves, Effect
<1>7. /\ State \in FileState /\ State' \in FileState
  BY <1>2 DEF State, Loaded, HistoryInv, HistoryType, DefaultState, FileState,
              TaskState
<1>8. \A t \in Tasks : /\ State.tasks[t].next \in Nat
                       /\ State'.tasks[t].next \in Nat
                       /\ Interval[t] \in Nat
  BY <1>0, <1>7 DEF FileState, TaskState
<1>9. \A t \in due'[p] : Planned(p, t)'
  <2> SUFFICES ASSUME NEW t \in due[p] PROVE Planned(p, t)'
    BY <1>1
  <2>1. t \in Tasks /\ at[p] \in Nat
    BY <1>0
  <2> QED
    BY <1>1, <1>4, <1>5, <1>6, <1>8, <2>1
    DEF Planned, EntryEffect, Ends, Marks, Updates
<1>10. ~interrupted => IF place \in Ends \cup {"run"}
                       THEN OnlyLabelled(p)' ELSE Quiet'
  <2> SUFFICES ASSUME ~interrupted
               PROVE  IF place \in Ends \cup {"run"}
                      THEN OnlyLabelled(p)' ELSE Quiet'
    OBVIOUS
  <2>1. CASE pc[p] = "start"
    <3>1. place = "run" /\ Quiet
      BY <1>5, <1>6, <2>1 DEF Ends
    <3> QED
      BY <1>1, <1>6, <2>1, <3>1 DEF EntryEffect, OnlyLabelled, Quiet, Ends
  <2>2. CASE pc[p] \in Ends
    <3>1. place \in {"mark", "mark_failed"} /\ OnlyLabelled(p)
      BY <1>5, <1>6, <2>2 DEF Ends
    <3> QED
      BY <1>6, <2>2, <3>1
      DEF EntryEffect, CurrentEffect, OnlyLabelled, Quiet, Ends
  <2>3. CASE pc[p] \in Updates \ (Ends \cup {"start", "stop"})
    <3>1. place \notin Ends \cup {"run"} /\ Quiet
      BY <1>5, <1>6, <2>3 DEF Ends, Updates
    <3> QED
      BY <1>6, <2>3, <3>1 DEF EntryEffect, CurrentEffect, Quiet, Updates
  <2> QED
    BY <1>1, <2>1, <2>2, <2>3
<1>11. InsideInv(p)'
  BY <1>4, <1>9, <1>10, RememberKeeps DEF InsideInv, Saving
<1>12. WritesAlone(p)'
  BY <1>1, <1>2, <1>4 DEF WritesAlone, Updating, HistoryInv
<1>13. lock' = p /\ lock' # NoProc
  BY <1>0, <1>1, FileAssumption DEF HistoryInv, LockInv
<1>14. at'[p] <= now /\ \A q \in Daemons \ {p} : at'[q] = at[q]
  BY <1>1 DEF HistoryInv
<1>15. \A t \in Tasks :
         \/ State'.tasks[t].next = State.tasks[t].next
         \/ /\ Updating(p, "replace") /\ pc[p] \in Ends \cup Marks
            /\ t \in due[p] /\ file' \in FileState
            /\ State'.tasks[t].next >= at[p] + Interval[t]
  <2> SUFFICES ASSUME NEW t \in Tasks, State'.tasks[t].next # State.tasks[t].next
               PROVE  /\ pc[p] \in Ends \cup Marks /\ t \in due[p]
                      /\ State'.tasks[t].next >= at[p] + Interval[t]
    BY <1>1, <1>2
  <2> QED
    BY <1>0, <1>6, <1>8 DEF EntryEffect
<1> QED
  BY <1>1, <1>2, <1>3, <1>4, <1>11, <1>12, <1>13, <1>14, <1>15, StepOfInside

\* Taking the lock: nobody was inside, so nothing is half done.
LEMMA StartKeeps ==
  ASSUME HistoryInv, LockInv', Remember, NEW p \in Daemons, StartDaemon(p)
  PROVE  HistoryInv'
<1>0. /\ p \in Procs /\ pc \in [Procs -> Places]
      /\ io \in [Procs -> {"load", "open", "write", "replace"}]
  BY ProcsAssumption DEF HistoryInv, HistoryType, LockInv
<1>1. PICK place \in {"unflag", "due"} : GoTo(p, place)
  BY DEF StartDaemon
<1>2. /\ lock = NoProc /\ ~Inside(p)
      /\ UNCHANGED <<file, tmp, handle, now, view, due, at>>
  BY DEF StartDaemon, Acquire, Inside
<1>3. \A q \in Daemons : ~Inside(q) /\ pc[q] \notin Updates /\ handle[q] = "none"
  <2>1. \A q \in Daemons : ~Inside(q)
    BY <1>2, FileAssumption, ProcsAssumption DEF HistoryInv, LockInv
  <2> QED
    BY <2>1 DEF HistoryInv, WritesAlone, Updating, Inside, Updates
<1>4. /\ pc' = [pc EXCEPT ![p] = place] /\ io' = [io EXCEPT ![p] = "load"]
      /\ pc'[p] = place
      /\ \A q \in Daemons \ {p} : pc'[q] = pc[q]
      /\ place \notin Updates \cup Ends \cup Marks \cup {"start", "run", "snapshot"}
  BY <1>0, <1>1, ProcsAssumption DEF GoTo, Updates, Ends, Marks
<1>5. HistoryType'
  BY <1>0, <1>2, <1>4, RememberKeeps DEF HistoryInv, HistoryType
<1>6. State' = State
  BY <1>2 DEF State, Loaded
<1>7. \A q \in Daemons : WritesAlone(q)' /\ at'[q] <= now'
  BY <1>2, <1>3, <1>4 DEF WritesAlone, Updating, HistoryInv
<1>8. \A q \in Daemons \ {p} : ~Inside(q)'
  BY <1>3, <1>4 DEF Inside
<1>9. InsideInv(p)'
  BY <1>2, <1>4, <1>6, RememberKeeps
  DEF HistoryInv, InsideInv, Saving, Planned, Quiet
<1>10. lock' # NoProc
  BY <1>0, FileAssumption DEF StartDaemon, Acquire
<1>11. \A t \in Tasks : State'.tasks[t].next >= ran'[t] + Interval[t]
  BY <1>5, <1>6, PlansStaySpaced
<1> QED
  BY <1>5, <1>7, <1>8, <1>9, <1>10, <1>11 DEF HistoryInv

\* Giving the lock back, whatever brought the daemon to it.
LEMMA UnlockKeeps ==
  ASSUME HistoryInv, LockInv', Remember, NEW p \in Daemons, Unlock(p)
  PROVE  HistoryInv'
<1>0. /\ p \in Procs /\ pc \in [Procs -> Places]
      /\ io \in [Procs -> {"load", "open", "write", "replace"}]
      /\ due \in [Procs -> SUBSET Tasks] /\ at \in [Procs -> Nat] /\ now \in Nat
  BY ProcsAssumption DEF HistoryInv, HistoryType, LockInv
<1>1. /\ pc[p] = "unlock" /\ Inside(p)
      /\ pc' = [pc EXCEPT ![p] = "idle"] /\ io' = [io EXCEPT ![p] = "load"]
      /\ due' = [due EXCEPT ![p] = {}] /\ at' = [at EXCEPT ![p] = 0]
      /\ UNCHANGED <<file, tmp, handle, now, view>>
  BY DEF Unlock, Release, Jump, GoTo, Inside
<1>2. /\ pc'[p] = "idle" /\ at'[p] = 0
      /\ \A q \in Daemons \ {p} : pc'[q] = pc[q] /\ at'[q] = at[q]
  BY <1>0, <1>1, ProcsAssumption
<1>3. HistoryType'
  BY <1>0, <1>1, RememberKeeps DEF HistoryInv, HistoryType
<1>4. State' = State
  BY <1>1 DEF State, Loaded
<1>5. WritesAlone(p)' /\ ~Inside(p)'
  BY <1>1, <1>2 DEF WritesAlone, Updating, Updates, HistoryInv, Inside
<1>6. ~interrupted => Quiet
  BY <1>1 DEF HistoryInv, InsideInv, Ends
<1>7. ~interrupted' => Quiet'
  BY <1>4, <1>6, RememberKeeps DEF Quiet
<1> QED
  BY <1>0, <1>1, <1>2, <1>3, <1>4, <1>5, <1>7, StepOfInside

\* Ctrl-C and a kill.
LEMMA EndKeeps ==
  ASSUME HistoryInv, LockInv', Remember, NEW p \in Daemons,
         Interrupt(p) \/ Kill(p)
  PROVE  HistoryInv'
<1>0. /\ p \in Procs /\ pc \in [Procs -> Places]
      /\ io \in [Procs -> {"load", "open", "write", "replace"}]
      /\ handle \in [Procs -> {"none", "tmp", "file", "gone"}]
      /\ view \in [Procs -> FileState] /\ now \in Nat
  BY ProcsAssumption DEF HistoryInv, HistoryType, LockInv
<1>1. PICK place \in {"unlock", "ended"} :
        /\ pc' = [pc EXCEPT ![p] = place]
        /\ place = "unlock" => Interrupt(p)
  BY DEF Interrupt, Kill, GoTo
<1>2. /\ Inside(p)
      /\ io' = [io EXCEPT ![p] = "load"]
      /\ handle' = [handle EXCEPT ![p] = "none"]
      /\ view' = view \/ view' = [view EXCEPT ![p] = DefaultState]
      /\ UNCHANGED <<file, tmp, lock, now, due, at>>
  BY DEF Interrupt, Kill, GoTo, CloseHandle, Inside
<1>3. /\ pc'[p] = place /\ handle'[p] = "none" /\ place \notin Updates
      /\ \A q \in Daemons \ {p} : pc'[q] = pc[q] /\ handle'[q] = handle[q]
  BY <1>0, <1>1, <1>2, ProcsAssumption DEF Updates
<1>4. HistoryType'
  <2>1. DefaultState \in FileState
    BY DEF DefaultState, FileState, TaskState
  <2> QED
    BY <1>0, <1>1, <1>2, <2>1, RememberKeeps DEF HistoryInv, HistoryType
<1>5. State' = State
  BY <1>2 DEF State, Loaded
<1>6. WritesAlone(p)'
  BY <1>3 DEF WritesAlone, Updating
<1>7. Inside(p)' => InsideInv(p)'
  <2> SUFFICES ASSUME Inside(p)' PROVE InsideInv(p)'
    OBVIOUS
  <2>1. place = "unlock" /\ interrupted'
    BY <1>1, <1>3 DEF Inside, Remember
  <2> QED
    BY <1>3, <2>1 DEF InsideInv, Saving, Planned, Ends, Marks
<1>8. lock' = p /\ lock' # NoProc
  BY <1>0, <1>2, FileAssumption DEF HistoryInv, LockInv
<1> QED
  BY <1>2, <1>3, <1>4, <1>5, <1>6, <1>7, <1>8, StepOfInside DEF HistoryInv

\* The invariant survives every step.
LEMMA NextHistoryInv ==
  ASSUME Stoppers = {}
  PROVE  HistoryInv /\ [Next /\ Remember]_<<vars, ran, interrupted>> => HistoryInv'
<1> SUFFICES ASSUME HistoryInv, [Next /\ Remember]_<<vars, ran, interrupted>>
             PROVE  HistoryInv'
  OBVIOUS
<1>1. LockInv'
  BY NextLockInv DEF HistoryInv
<1>2. CASE UNCHANGED <<vars, ran, interrupted>>
  <2>1. State' = State
    BY <1>2 DEF State, Loaded, vars, files
  <2> QED
    BY <1>2, <2>1
    DEF HistoryInv, LockInv, HistoryType, WritesAlone, Updating, Inside,
        InsideInv, Saving, Saves, Effect, EntryEffect, CurrentEffect, Labelled,
        Planned, OnlyLabelled, Quiet, vars, files, proc
<1>3. CASE Tick /\ Remember
  <2>1. /\ UNCHANGED <<files, proc>>
        /\ State' = State
    BY <1>3 DEF Tick, State, Loaded, files
  <2>2. now' \in Nat /\ now' = now + 1
    BY <1>3 DEF Tick, HistoryInv, HistoryType
  <2>3. HistoryType'
    BY <1>3, <2>1, <2>2, RememberKeeps DEF HistoryInv, HistoryType, files, proc
  <2>4. \A t \in Tasks : State'.tasks[t].next >= ran'[t] + Interval[t]
    BY <1>1, <1>3, <2>1, <2>3, PlansStaySpaced
  <2>5. ASSUME NEW q \in Daemons
        PROVE  WritesAlone(q)' /\ at'[q] <= now'
    <3>1. WritesAlone(q) /\ at[q] <= now /\ at[q] \in Nat /\ now \in Nat
      BY ProcsAssumption DEF HistoryInv, HistoryType
    <3>2. at'[q] <= now'
      BY <2>1, <2>2, <3>1 DEF proc
    <3> QED
      BY <2>1, <3>1, <3>2 DEF WritesAlone, Updating, files, proc
  <2>6. ASSUME NEW q \in Daemons, Inside(q)' PROVE InsideInv(q)'
    <3>1. InsideInv(q)
      BY <2>1, <2>6 DEF HistoryInv, Inside, proc
    <3> QED
      BY <1>3, <2>1, <3>1, RememberKeeps
      DEF InsideInv, Saving, Saves, Effect, EntryEffect, CurrentEffect,
          Labelled, Planned, OnlyLabelled, Quiet, files, proc
  <2>7. lock' = NoProc /\ ~interrupted' => Quiet'
    BY <1>3, <2>1, RememberKeeps DEF HistoryInv, Quiet, files
  <2> QED
    BY <1>1, <2>3, <2>4, <2>5, <2>6, <2>7 DEF HistoryInv
<1>4. ASSUME NEW p \in Daemons, Remember, StartDaemon(p) \/ DaemonStep(p)
      PROVE  HistoryInv'
  BY <1>1, <1>4, StartKeeps, LoadKeeps, WriteKeeps, ReplaceKeeps,
     BetweenUpdates, UnlockKeeps DEF DaemonStep, Update
<1>5. ASSUME NEW p \in Daemons, Remember, Interrupt(p) \/ Kill(p)
      PROVE  HistoryInv'
  BY <1>1, <1>5, EndKeeps
<1> QED
  BY <1>2, <1>3, <1>4, <1>5, ProcsAssumption DEF Next

\* The history starts with every task due and nothing interrupted.
LEMMA InitHistoryInv ==
  Init /\ ran = [t \in Tasks |-> -Interval[t]] /\ interrupted = FALSE => HistoryInv
<1> SUFFICES ASSUME Init, ran = [t \in Tasks |-> -Interval[t]],
                    interrupted = FALSE
             PROVE  HistoryInv
  OBVIOUS
<1>1. DefaultState \in FileState /\ State = DefaultState
  BY DEF Init, FilesInit, State, Loaded, DefaultState, FileState, TaskState
<1>2. HistoryType
  <2>1. \A t \in Tasks : -Interval[t] \in Int
    BY ScheduleAssumption
  <2>2. ran \in [Tasks -> Int]
    BY <2>1
  <2> HIDE DEF DefaultState
  <2> QED
    BY <1>1, <2>2 DEF Init, FilesInit, HistoryType
<1>3. LockInv
  BY ProcsAssumption DEF Init, LockInv, Places, Waypoints, Inside
<1>4. \A p \in Daemons : WritesAlone(p) /\ at[p] <= now /\ ~Inside(p)
  BY ProcsAssumption DEF Init, FilesInit, WritesAlone, Updating, Updates, Inside
<1>5. Quiet
  BY <1>1 DEF Quiet, DefaultState
<1>6. \A t \in Tasks : State.tasks[t].next >= ran[t] + Interval[t]
  BY <1>1, ScheduleAssumption DEF DefaultState
<1> QED
  BY <1>2, <1>3, <1>4, <1>5, <1>6 DEF HistoryInv

\* A task whose run was recorded does not run again before its interval has
\* passed, whichever daemons take turns, fail, are interrupted or killed, as
\* long as nobody asks for a stop: a stop request saves a state of its own.
THEOREM RunsAlwaysSpaced ==
  ASSUME Stoppers = {} PROVE HistorySpec => []RunsAreSpaced
<1>1. HistoryInv => RunsAreSpaced
  <2> SUFFICES ASSUME HistoryInv, NEW p \in Daemons, NEW t \in Tasks,
                      pc[p] = "run", t \in due[p]
               PROVE  at[p] >= ran[t] + Interval[t]
    BY DEF RunsAreSpaced
  <2>1. Planned(p, t)
    BY DEF HistoryInv, InsideInv, Inside
  <2>2. State.tasks[t].next <= at[p]
    BY <2>1 DEF Planned
  <2>3. State.tasks[t].next >= ran[t] + Interval[t]
    BY DEF HistoryInv
  <2>4. /\ State.tasks[t].next \in Int /\ at[p] \in Int
        /\ ran[t] + Interval[t] \in Int
    BY ProcsAssumption, ScheduleAssumption
    DEF HistoryInv, HistoryType, State, Loaded, DefaultState, FileState,
        TaskState
  <2> QED
    BY <2>2, <2>3, <2>4
<1> QED
  BY <1>1, InitHistoryInv, NextHistoryInv, PTL DEF HistorySpec

\* Once the lock is free the state file shows no task in progress, after a
\* success, a failed task or a failed snapshot, unless Ctrl-C was pressed.
THEOREM NothingStaysRunning ==
  ASSUME Stoppers = {} PROVE HistorySpec => []NothingLeftRunning
<1>1. HistoryInv => NothingLeftRunning
  BY DEF HistoryInv, NothingLeftRunning, Quiet, State, Loaded
<1> QED
  BY <1>1, InitHistoryInv, NextHistoryInv, PTL DEF HistorySpec

=============================================================================
