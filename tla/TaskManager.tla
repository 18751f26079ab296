---------------------------- MODULE TaskManager ----------------------------
(***************************************************************************)
(* The background-task manager (services/task_manager.go) over the tasks'  *)
(* table and its cache (models/task.go), with the goroutine that runs each *)
(* task, the detector of tasks older than 24 hours, the delayed removal of *)
(* ended tasks from memory, the clean-up of old rows with the reload of    *)
(* the cache it starts, and the restart of the process.                    *)
(*                                                                         *)
(* tm.mutex makes the manager's calls exclude each other, but neither a    *)
(* clean-up nor a reload takes it: a call that writes a row and then the   *)
(* cache is two steps, the second of which is SetCache.  A task is its     *)
(* status and its progress; names, messages and results are left out.      *)
(* CleanupTask, GetContext and IsTaskCancelled have no caller.             *)
(***************************************************************************)
EXTENDS Integers

CONSTANTS
  Task,        \* task ids; GenerateTaskID never repeats one
  Reloader,    \* goroutines that can reload the cache at the same time
  MaxTotal,    \* bound on a task's number of items
  MaxRemovers, \* bound on the delayed removals waiting for one task
  MaxCrashes   \* bound on the restarts of the process

ASSUME BoundAssumption == MaxTotal \in Nat /\ MaxRemovers \in Nat /\ MaxCrashes \in Nat

VARIABLES
  proc,      \* the process: "down", "loaded" (caches filled) or "up"
  crashes,   \* restarts so far
  mem,       \* runningTasks[t].Task
  ctxDone,   \* runningTasks[t].Context is cancelled or has timed out
  aged,      \* the task is older than 24 hours
  removers,  \* goroutines that will delete the entry 500 ms after an end
  zombies,   \* the detector's snapshot, not yet worked off
  db,        \* the tasks' table
  cache,     \* taskCache
  caching,   \* what the holder of tm.mutex has written to the row of t, and
             \* is about to write to the cache; Absent if nothing
  reload,    \* how far each reloading goroutine is, the rows it has read, and
             \* the tasks whose row was written since
  overtaken, \* t was last cached by a reload that missed a later write
  lost,      \* the database refused the task's last final write
  worker     \* the goroutine that runs the task

memVars == <<mem, ctxDone, aged, removers, zombies>>
cacheVars == <<cache, caching, reload, overtaken>>
vars == <<proc, crashes, memVars, db, cacheVars, lost, worker>>

Terminal == {"completed", "cancelled", "error"}

Record == [status : {"absent", "running"} \cup Terminal,
           progress : 0 .. MaxTotal, total : 0 .. MaxTotal]

Absent == [status |-> "absent", progress |-> 0, total |-> 0]

InMemory(t) == mem[t].status # "absent"

Nothing == [t \in Task |-> Absent]

Reload == [step : {"idle", "started", "read"}, rows : [Task -> Record], missed : SUBSET Task]

NoReload == [step |-> "idle", rows |-> Nothing, missed |-> {}]

Init ==
  /\ proc = "up"
  /\ crashes = 0
  /\ mem = Nothing
  /\ ctxDone = [t \in Task |-> FALSE]
  /\ aged = [t \in Task |-> FALSE]
  /\ removers = [t \in Task |-> 0]
  /\ zombies = {}
  /\ db = Nothing
  /\ cache = Nothing
  /\ caching = Nothing
  /\ reload = [g \in Reloader |-> NoReload]
  /\ overtaken = [t \in Task |-> FALSE]
  /\ lost = [t \in Task |-> FALSE]
  /\ worker = [t \in Task |-> "none"]

-----------------------------------------------------------------------------
\* No call of the manager is under way.
MutexFree == caching = Nothing

\* A write of t's row is missed by the reloads that have read the table.
Overtake(t) ==
  [g \in Reloader |-> IF reload[g].step = "read"
                      THEN [reload[g] EXCEPT !.missed = @ \cup {t}] ELSE reload[g]]

\* Mutant of SyncFinalStatus: the cache is written even if the table was not.
SyncCacheAlways(t, r, ok) ==
  /\ db' = IF ok /\ db[t] # Absent THEN [db EXCEPT ![t] = r] ELSE db
  /\ caching' = [caching EXCEPT ![t] = r]
  /\ reload' = IF ok THEN Overtake(t) ELSE reload
  /\ lost' = [lost EXCEPT ![t] = ~ok]

\* SyncFinalStatus of record r: the row first, the cache, by SetCache, if that
\* succeeds.  The update of a row that was deleted changes none and succeeds.
SyncFinalStatus(t, r, ok) ==
  /\ db' = IF ok /\ db[t] # Absent THEN [db EXCEPT ![t] = r] ELSE db
  /\ caching' = IF ok THEN [caching EXCEPT ![t] = r] ELSE caching
  /\ reload' = IF ok THEN Overtake(t) ELSE reload
  /\ lost' = [lost EXCEPT ![t] = ~ok]

\* Mutant of EndTask: nobody removes the entry.
EndTaskOnly(t, r, ok) ==
  /\ MutexFree
  /\ removers[t] < MaxRemovers
  /\ mem' = [mem EXCEPT ![t] = r]
  /\ SyncFinalStatus(t, r, ok)
  /\ ctxDone' = [ctxDone EXCEPT ![t] = TRUE]
  /\ UNCHANGED removers

\* What CompleteTask, FailTask and CancelTask do with an entry in memory,
\* whatever its status is already.
EndTask(t, r, ok) ==
  /\ MutexFree
  /\ removers[t] < MaxRemovers
  /\ mem' = [mem EXCEPT ![t] = r]
  /\ SyncFinalStatus(t, r, ok)
  /\ ctxDone' = [ctxDone EXCEPT ![t] = TRUE]
  /\ removers' = [removers EXCEPT ![t] = @ + 1]

Completed(t) == [mem[t] EXCEPT !.status = "completed", !.progress = mem[t].total]
Failed(t) == [mem[t] EXCEPT !.status = "error"]
Cancelled(r) == [r EXCEPT !.status = "cancelled"]

WorkerEnds(t) ==
  /\ proc = "up"
  /\ worker[t] = "working"
  /\ worker' = [worker EXCEPT ![t] = "ended"]

-----------------------------------------------------------------------------
\* CreateTask whose insert succeeds; if it fails nothing changes.
CreateTask(t, n) ==
  /\ proc = "up"
  /\ MutexFree
  /\ worker[t] = "none"
  /\ LET r == [status |-> "running", progress |-> 0, total |-> n]
     IN  /\ db' = [db EXCEPT ![t] = r]
         /\ caching' = [caching EXCEPT ![t] = r]
         /\ mem' = [mem EXCEPT ![t] = r]
  /\ reload' = Overtake(t)
  /\ worker' = [worker EXCEPT ![t] = "working"]
  /\ UNCHANGED <<proc, crashes, ctxDone, aged, removers, zombies, cache, overtaken, lost>>

\* taskCache.Set, the end of a call that has written the row.
SetCache(t) ==
  /\ proc = "up"
  /\ caching[t] # Absent
  /\ cache' = [cache EXCEPT ![t] = caching[t]]
  /\ caching' = [caching EXCEPT ![t] = Absent]
  /\ overtaken' = [overtaken EXCEPT ![t] = FALSE]
  /\ UNCHANGED <<proc, crashes, memVars, db, reload, lost, worker>>

UpdateProgress(t, n) ==
  /\ proc = "up"
  /\ MutexFree
  /\ worker[t] = "working"
  /\ InMemory(t)
  /\ mem' = [mem EXCEPT ![t].progress = n]
  /\ UNCHANGED <<proc, crashes, ctxDone, aged, removers, zombies, db, cacheVars, lost, worker>>

UpdateTotal(t, n) ==
  /\ proc = "up"
  /\ MutexFree
  /\ worker[t] = "working"
  /\ InMemory(t)
  /\ mem' = [mem EXCEPT ![t].total = n]
  /\ UNCHANGED <<proc, crashes, ctxDone, aged, removers, zombies, db, cacheVars, lost, worker>>

CompleteTask(t, ok) ==
  /\ WorkerEnds(t)
  /\ InMemory(t)
  /\ EndTask(t, Completed(t), ok)
  /\ UNCHANGED <<proc, crashes, aged, zombies, cache, overtaken>>

FailTask(t, ok) ==
  /\ WorkerEnds(t)
  /\ InMemory(t)
  /\ EndTask(t, Failed(t), ok)
  /\ UNCHANGED <<proc, crashes, aged, zombies, cache, overtaken>>

\* The goroutine returns without a final call, because its context is done,
\* or with one that finds no entry any more.
WorkerReturns(t) ==
  /\ WorkerEnds(t)
  /\ ctxDone[t] \/ ~InMemory(t)
  /\ UNCHANGED <<proc, crashes, memVars, db, cacheVars, lost>>

\* CancelTask of an entry in memory.
CancelTask(t, ok) ==
  /\ proc = "up"
  /\ InMemory(t)
  /\ EndTask(t, Cancelled(mem[t]), ok)
  /\ UNCHANGED <<proc, crashes, aged, zombies, cache, overtaken, worker>>

\* Task.GetByID: the cache first, the table if the cache has no such task.
GetByID(t) == IF cache[t] # Absent THEN cache[t] ELSE db[t]

\* CancelTask of a task that is not in memory.
CancelStoredTask(t, ok) ==
  /\ proc = "up"
  /\ MutexFree
  /\ ~InMemory(t)
  /\ GetByID(t).status = "running"
  /\ SyncFinalStatus(t, Cancelled(GetByID(t)), ok)
  /\ UNCHANGED <<proc, crashes, memVars, cache, overtaken, worker>>

\* The goroutine of an end deletes the entry, whoever else ended it since.
RemoveTask(t) ==
  /\ proc = "up"
  /\ MutexFree
  /\ removers[t] > 0
  /\ removers' = [removers EXCEPT ![t] = @ - 1]
  /\ mem' = [mem EXCEPT ![t] = Absent]
  /\ UNCHANGED <<proc, crashes, ctxDone, aged, zombies, db, cacheVars, lost, worker>>

\* 24 hours pass: the context times out and the detector will see the task.
Age(t) ==
  /\ proc = "up"
  /\ InMemory(t)
  /\ ~aged[t]
  /\ aged' = [aged EXCEPT ![t] = TRUE]
  /\ ctxDone' = [ctxDone EXCEPT ![t] = TRUE]
  /\ UNCHANGED <<proc, crashes, mem, removers, zombies, db, cacheVars, lost, worker>>

\* detectAndCleanZombieTasks: the snapshot under the read lock ...
ScanZombies ==
  /\ proc = "up"
  /\ MutexFree
  /\ zombies = {}
  /\ zombies' = {t \in Task : InMemory(t) /\ aged[t]}
  /\ UNCHANGED <<proc, crashes, mem, ctxDone, aged, removers, db, cacheVars, lost, worker>>

\* Mutant of FailZombie: the snapshot is believed.
FailGone(t, ok) ==
  /\ proc = "up"
  /\ t \in zombies
  /\ zombies' = zombies \ {t}
  /\ EndTask(t, Failed(t), ok)
  /\ UNCHANGED <<proc, crashes, aged, cache, overtaken, worker>>

\* ... and one FailTask per task after the unlock.
FailZombie(t, ok) ==
  /\ proc = "up"
  /\ t \in zombies
  /\ zombies' = zombies \ {t}
  /\ \/ /\ InMemory(t)
        /\ EndTask(t, Failed(t), ok)
     \/ /\ MutexFree /\ ~InMemory(t)
        /\ UNCHANGED <<mem, ctxDone, removers, db, caching, reload, lost>>
  /\ UNCHANGED <<proc, crashes, aged, cache, overtaken, worker>>

-----------------------------------------------------------------------------
\* The process ends; what is in memory is gone.
Crash ==
  /\ proc = "up"
  /\ crashes < MaxCrashes
  /\ proc' = "down"
  /\ crashes' = crashes + 1
  /\ mem' = Nothing
  /\ ctxDone' = [t \in Task |-> FALSE]
  /\ aged' = [t \in Task |-> FALSE]
  /\ removers' = [t \in Task |-> 0]
  /\ zombies' = {}
  /\ cache' = Nothing
  /\ caching' = Nothing
  /\ reload' = [g \in Reloader |-> NoReload]
  /\ overtaken' = [t \in Task |-> FALSE]
  /\ worker' = [t \in Task |-> IF worker[t] = "none" THEN "none" ELSE "ended"]
  /\ UNCHANGED <<db, lost>>

\* What InitTaskCache reads: the rows of the last seven days.
Rows(recent) == [t \in Task |-> IF t \in recent THEN db[t] ELSE Absent]

\* InitTaskCache at the start, before anything else runs.
InitTaskCache(recent) ==
  /\ proc = "down"
  /\ proc' = "loaded"
  /\ cache' = Rows(recent)
  /\ UNCHANGED <<crashes, memVars, db, caching, reload, overtaken, lost, worker>>

\* Mutant of InitTaskManager: the running tasks are not marked.
InitUnmarked(ok) ==
  /\ proc = "loaded"
  /\ proc' = "up"
  /\ lost' = [t \in Task |-> FALSE]
  /\ UNCHANGED <<crashes, memVars, db, cacheVars, worker>>

\* InitTaskManager: MarkRunningTasksAsError updates the table, and only it.
\* The clean-up it starts is one of ClearTaskHistory's, for thirty days.
InitTaskManager(ok) ==
  /\ proc = "loaded"
  /\ proc' = "up"
  /\ LET running == {t \in Task : db[t].status = "running"}
     IN  /\ db' = [t \in Task |-> IF ok /\ t \in running
                                  THEN [db[t] EXCEPT !.status = "error"] ELSE db[t]]
         /\ lost' = [t \in Task |-> ~ok /\ t \in running]
  /\ UNCHANGED <<crashes, memVars, cacheVars, worker>>

-----------------------------------------------------------------------------
\* CleanupOldTasks deletes the ended tasks from before a date, with them those
\* of old.  If the date lies within the last seven days and any row was deleted,
\* be it of a task that is not in Task, a goroutine reloads the cache;
\* otherwise the cache keeps the deleted tasks it has.
CleanupOldTasks(old) ==
  /\ \A t \in old : db[t].status \in Terminal
  /\ db' = [t \in Task |-> IF t \in old THEN Absent ELSE db[t]]
  /\ \/ UNCHANGED reload
     \/ \E g \in Reloader : /\ reload[g].step = "idle"
                            /\ reload' = [reload EXCEPT ![g].step = "started"]

\* ClearTaskHistory, by a user, with any date at any time.
ClearTaskHistory(old) ==
  /\ proc = "up"
  /\ CleanupOldTasks(old)
  /\ UNCHANGED <<proc, crashes, memVars, cache, caching, overtaken, lost, worker>>

\* The reload's InitTaskCache reads the table ...
ReadRows(g, recent) ==
  /\ reload[g].step = "started"
  /\ reload' = [reload EXCEPT ![g] = [step |-> "read", rows |-> Rows(recent), missed |-> {}]]
  /\ UNCHANGED <<proc, crashes, memVars, db, cache, caching, overtaken, lost, worker>>

\* ... which may fail and leave the cache as it is ...
ReloadFails(g) ==
  /\ reload[g].step = "started"
  /\ reload' = [reload EXCEPT ![g] = NoReload]
  /\ UNCHANGED <<proc, crashes, memVars, db, cache, caching, overtaken, lost, worker>>

\* ... and replaces the whole cache by what it has read.
LoadAll(g) ==
  /\ reload[g].step = "read"
  /\ cache' = reload[g].rows
  /\ overtaken' = [t \in Task |-> t \in reload[g].missed]
  /\ reload' = [reload EXCEPT ![g] = NoReload]
  /\ UNCHANGED <<proc, crashes, memVars, db, caching, lost, worker>>

Next ==
  \/ \E t \in Task :
       \/ \E n \in 0 .. MaxTotal : CreateTask(t, n) \/ UpdateProgress(t, n) \/ UpdateTotal(t, n)
       \/ \E ok \in BOOLEAN :
            \/ CompleteTask(t, ok) \/ FailTask(t, ok) \/ FailZombie(t, ok)
            \/ CancelTask(t, ok) \/ CancelStoredTask(t, ok)
       \/ WorkerReturns(t) \/ RemoveTask(t) \/ Age(t) \/ SetCache(t)
  \/ ScanZombies \/ Crash
  \/ \E ok \in BOOLEAN : InitTaskManager(ok)
  \/ \E S \in SUBSET Task :
       \/ InitTaskCache(S) \/ ClearTaskHistory(S)
       \/ \E g \in Reloader : ReadRows(g, S)
  \/ \E g \in Reloader : ReloadFails(g) \/ LoadAll(g)

Spec == Init /\ [][Next]_vars

\* Time passes, the detector's ticker ticks, a goroutine whose sleep is over
\* takes the mutex, and the one that has it goes on.  Nothing is assumed of the
\* tasks' own goroutines, the users, the reloads or the database.
Fairness ==
  /\ WF_vars(ScanZombies)
  /\ \A t \in Task :
       /\ WF_vars(SetCache(t))
       /\ WF_vars(RemoveTask(t))
       /\ WF_vars(Age(t))
       /\ WF_vars(\E ok \in BOOLEAN : FailZombie(t, ok))

FairSpec == Spec /\ Fairness

-----------------------------------------------------------------------------
TypeOK ==
  /\ proc \in {"down", "loaded", "up"}
  /\ crashes \in Nat
  /\ mem \in [Task -> Record]
  /\ ctxDone \in [Task -> BOOLEAN]
  /\ aged \in [Task -> BOOLEAN]
  /\ removers \in [Task -> Nat]
  /\ zombies \subseteq Task
  /\ db \in [Task -> Record]
  /\ cache \in [Task -> Record]
  /\ lost \in [Task -> BOOLEAN]
  /\ caching \in [Task -> Record]
  /\ reload \in [Reloader -> Reload]
  /\ overtaken \in [Task -> BOOLEAN]
  /\ worker \in [Task -> {"none", "working", "ended"}]

\* The table shows a task as running only while the process really has it in
\* memory as running, or the database itself refused its final status: no end,
\* no removal and no restart leaves a task that runs for ever on the task page.
NoOrphanRunningTask ==
  proc = "up" =>
    \A t \in Task : db[t].status = "running" => mem[t].status = "running" \/ lost[t]

\* A cached task differs from its row only for one of four reasons: the call
\* that has written the row has yet to write the cache; a clean-up deleted the
\* row, and nothing takes it out of the cache; a restart marked the row as
\* interrupted behind a cache that was loaded before; or a reload had read the
\* table before the row was last written, and came after that call.
CacheStaleHasACause ==
  proc = "up" =>
    \A t \in Task : cache[t] # Absent /\ cache[t] # db[t] =>
      \/ caching[t] # Absent
      \/ db[t] = Absent
      \/ cache[t].status = "running" /\ ~InMemory(t) /\ db[t].status = "error"
      \/ overtaken[t]

\* Once an ended task has left the memory its row is never rewritten, only
\* deleted, unless a stale cache, of a restart or of a reload that missed the
\* end, says that it still runs.
FinalOnceRemoved ==
  [][\A t \in Task :
       /\ proc = "up"
       /\ db[t].status \in Terminal
       /\ ~InMemory(t)
       /\ cache[t].status # "running"
       => db'[t] \in {db[t], Absent}]_vars

\* Every task leaves the memory: by its own end, or as a zombie after a day,
\* even if its goroutine never returns.
MemoryDrains == \A t \in Task : InMemory(t) ~> ~InMemory(t)

\* InitTaskManager marks the running tasks so that no state is inconsistent
\* after a restart (task_manager.go:402): what the task page reads for a task
\* nobody runs is then not "running".
RestartConsistent ==
  proc = "up" =>
    \A t \in Task : ~InMemory(t) /\ ~lost[t] => GetByID(t).status # "running"
=============================================================================
