------------------------- MODULE TaskManagerProofs -------------------------
(***************************************************************************)
(* Proofs about TaskManager, for any tasks, totals, numbers of removals,   *)
(* of restarts and of reloads under way.                                   *)
(***************************************************************************)
EXTENDS TaskManager, TLAPS

\* What each copy of a task says of the others: a task nobody has created is
\* nowhere, an entry that is about to be removed has ended, a process that is
\* not up has no entries, a cache that has just been loaded agrees with the
\* table, and what a call is about to cache is what it has written to the row.
CopiesInv ==
  \A t \in Task :
    /\ worker[t] = "none" =>
         /\ mem[t] = Absent /\ db[t] = Absent /\ cache[t] = Absent
         /\ caching[t] = Absent /\ removers[t] = 0
    /\ removers[t] > 0 => mem[t].status # "running"
    /\ proc # "up" => mem[t] = Absent /\ removers[t] = 0 /\ caching[t] = Absent
    /\ proc = "loaded" => cache[t] \in {db[t], Absent}
    /\ caching[t] # Absent => db[t] \in {caching[t], Absent}

\* What a reload has read of a task is its row, unless the row was deleted or
\* written since; nothing reloads while the process starts.
ReloadInv ==
  \A g \in Reloader :
    /\ proc # "up" => reload[g].step = "idle"
    /\ \A t \in Task :
         /\ worker[t] = "none" => reload[g].rows[t] = Absent
         /\ reload[g].step = "read" =>
              \/ reload[g].rows[t] \in {Absent, db[t]}
              \/ db[t] = Absent
              \/ t \in reload[g].missed

IInv ==
  /\ TypeOK
  /\ CopiesInv
  /\ ReloadInv
  /\ NoOrphanRunningTask
  /\ CacheStaleHasACause

-----------------------------------------------------------------------------
LEMMA AbsentType == Absent \in Record /\ Absent.status = "absent"
BY BoundAssumption DEF Absent, Record

LEMMA NoReloadType ==
  /\ NoReload \in Reload /\ NoReload.step = "idle" /\ NoReload.missed = {}
  /\ Nothing \in [Task -> Record]
  /\ \A t \in Task : NoReload.rows[t] = Absent /\ Nothing[t] = Absent
BY AbsentType DEF NoReload, Reload, Nothing

LEMMA InitInv == Init => IInv
<1> SUFFICES ASSUME Init PROVE IInv
  OBVIOUS
<1>1. TypeOK
  BY AbsentType, NoReloadType DEF Init, TypeOK
<1>2. CopiesInv /\ NoOrphanRunningTask /\ CacheStaleHasACause
  BY AbsentType, NoReloadType DEF Init, CopiesInv, NoOrphanRunningTask, CacheStaleHasACause
<1>3. ReloadInv
  BY NoReloadType DEF Init, ReloadInv
<1>4. QED  BY <1>1, <1>2, <1>3 DEF IInv

\* The records an end writes.
LEMMA EndedRecords ==
  ASSUME NEW r \in Record
  PROVE  /\ [r EXCEPT !.status = "completed", !.progress = r.total] \in Record
         /\ [r EXCEPT !.status = "error"] \in Record
         /\ [r EXCEPT !.status = "cancelled"] \in Record
         /\ [r EXCEPT !.status = "completed", !.progress = r.total].status = "completed"
         /\ [r EXCEPT !.status = "error"].status = "error"
         /\ [r EXCEPT !.status = "cancelled"].status = "cancelled"
BY DEF Record, Terminal

\* A write adds its task to what the reloads under way have missed.
LEMMA OvertakeFacts ==
  ASSUME TypeOK, NEW t \in Task
  PROVE  /\ Overtake(t) \in [Reloader -> Reload]
         /\ \A g \in Reloader :
              /\ Overtake(t)[g].step = reload[g].step
              /\ Overtake(t)[g].rows = reload[g].rows
              /\ reload[g].missed \subseteq Overtake(t)[g].missed
              /\ reload[g].step = "read" => t \in Overtake(t)[g].missed
<1>1. ASSUME NEW g \in Reloader
      PROVE  /\ [reload[g] EXCEPT !.missed = @ \cup {t}] \in Reload
             /\ [reload[g] EXCEPT !.missed = @ \cup {t}].step = reload[g].step
             /\ [reload[g] EXCEPT !.missed = @ \cup {t}].rows = reload[g].rows
             /\ [reload[g] EXCEPT !.missed = @ \cup {t}].missed = reload[g].missed \cup {t}
  BY DEF TypeOK, Reload
<1>2. QED  BY <1>1 DEF Overtake, TypeOK

\* A write of t's row, the cache still to follow, in a call that has the mutex.
LEMMA WriteInv ==
  ASSUME IInv, NEW t \in Task, NEW r \in Record, r # Absent,
         proc = "up", MutexFree, worker'[t] # "none",
         \A u \in Task \ {t} : worker'[u] = "none" => worker[u] = "none",
         db' \in [Task -> Record],
         \A u \in Task \ {t} : db'[u] = db[u] /\ mem'[u] = mem[u],
         db'[t] \in {r, Absent},
         caching' = [caching EXCEPT ![t] = r], reload' = Overtake(t),
         UNCHANGED <<proc, cache, overtaken>>
  PROVE  /\ caching' \in [Task -> Record] /\ reload' \in [Reloader -> Reload]
         /\ ReloadInv' /\ CacheStaleHasACause'
         /\ \A u \in Task : caching'[u] # Absent => db'[u] \in {caching'[u], Absent}
         /\ \A u \in Task : worker'[u] = "none" => caching'[u] = Absent
<1> USE DEF IInv, TypeOK
<1>1. \A u \in Task : caching[u] = Absent
  BY NoReloadType DEF MutexFree
<1>2. caching' \in [Task -> Record] /\ caching'[t] = r
      /\ \A u \in Task \ {t} : caching'[u] = Absent
  BY <1>1
<1>3. reload' \in [Reloader -> Reload] /\ ReloadInv'
  <2>1. /\ reload' \in [Reloader -> Reload]
        /\ \A g \in Reloader :
             /\ reload'[g].step = reload[g].step
             /\ reload'[g].rows = reload[g].rows
             /\ reload[g].missed \subseteq reload'[g].missed
             /\ reload[g].step = "read" => t \in reload'[g].missed
    BY OvertakeFacts
  <2>2. ASSUME NEW g \in Reloader, NEW u \in Task, worker'[u] = "none"
        PROVE  reload'[g].rows[u] = Absent
    BY <2>1, <2>2 DEF ReloadInv
  <2>3. ASSUME NEW g \in Reloader, NEW u \in Task, reload'[g].step = "read"
        PROVE  \/ reload'[g].rows[u] \in {Absent, db'[u]}
               \/ db'[u] = Absent
               \/ u \in reload'[g].missed
    BY <2>1, <2>3 DEF ReloadInv
  <2>4. QED  BY <2>1, <2>2, <2>3 DEF ReloadInv
<1>4. CacheStaleHasACause'
  BY <1>1, <1>2 DEF CacheStaleHasACause, InMemory
<1>5. QED  BY <1>2, <1>3, <1>4

\* An end of an entry in memory, by whoever.
LEMMA EndTaskInv ==
  ASSUME IInv, NEW t \in Task, NEW r \in Record, r.status \in Terminal, NEW ok \in BOOLEAN,
         proc = "up", InMemory(t), EndTask(t, r, ok),
         UNCHANGED <<proc, crashes, aged, cache, overtaken>>,
         zombies' \subseteq Task,
         worker' \in {worker, [worker EXCEPT ![t] = "ended"]}
  PROVE  IInv'
<1> USE DEF IInv, TypeOK
<1>1. /\ MutexFree
      /\ mem' = [mem EXCEPT ![t] = r] /\ ctxDone' = [ctxDone EXCEPT ![t] = TRUE]
      /\ removers' = [removers EXCEPT ![t] = @ + 1]
      /\ lost' = [lost EXCEPT ![t] = ~ok]
  BY DEF EndTask, SyncFinalStatus
<1>2. /\ worker[t] # "none" /\ r.status \notin {"absent", "running"} /\ r # Absent
      /\ worker'[t] # "none" /\ \A u \in Task : worker'[u] = "none" => worker[u] = "none"
      /\ \A u \in Task \ {t} : mem'[u] = mem[u] /\ removers'[u] = removers[u]
                              /\ lost'[u] = lost[u]
  BY <1>1, AbsentType DEF CopiesInv, InMemory, Terminal
<1>3. CASE ok
  <2>1. /\ db' \in [Task -> Record]
        /\ db'[t] \in {r, Absent} /\ \A u \in Task \ {t} : db'[u] = db[u]
        /\ caching' = [caching EXCEPT ![t] = r] /\ reload' = Overtake(t)
    BY <1>3 DEF EndTask, SyncFinalStatus
  <2>2. /\ caching' \in [Task -> Record] /\ reload' \in [Reloader -> Reload]
        /\ ReloadInv' /\ CacheStaleHasACause'
        /\ \A u \in Task : caching'[u] # Absent => db'[u] \in {caching'[u], Absent}
        /\ \A u \in Task : worker'[u] = "none" => caching'[u] = Absent
    BY <1>1, <1>2, <2>1, WriteInv
  <2>3. TypeOK'
    BY <1>1, <2>1, <2>2
  <2>4. CopiesInv'
    BY <1>1, <1>2, <2>1, <2>2 DEF CopiesInv
  <2>5. NoOrphanRunningTask'
    BY <1>1, <1>2, <2>1, AbsentType DEF NoOrphanRunningTask
  <2>6. QED  BY <2>2, <2>3, <2>4, <2>5
<1>4. CASE ~ok
  <2>1. UNCHANGED <<db, caching, reload>>
    BY <1>4 DEF EndTask, SyncFinalStatus
  <2>2. TypeOK'
    BY <1>1, <2>1
  <2>3. CopiesInv'
    BY <1>1, <1>2, <2>1 DEF CopiesInv
  <2>4. ReloadInv'
    BY <1>2, <2>1 DEF ReloadInv
  <2>5. NoOrphanRunningTask'
    BY <1>1, <1>2, <1>4, <2>1 DEF NoOrphanRunningTask
  <2>6. CacheStaleHasACause'
    BY <1>1, <1>2, <2>1 DEF CacheStaleHasACause, InMemory
  <2>7. QED  BY <2>2, <2>3, <2>4, <2>5, <2>6
<1>5. QED  BY <1>3, <1>4

LEMMA CreateInv ==
  ASSUME IInv, NEW t \in Task, NEW n \in 0 .. MaxTotal, CreateTask(t, n)
  PROVE  IInv'
<1> USE DEF IInv, TypeOK
<1> DEFINE r == [status |-> "running", progress |-> 0, total |-> n]
<1>1. /\ proc = "up" /\ MutexFree /\ worker[t] = "none"
      /\ db' = [db EXCEPT ![t] = r] /\ caching' = [caching EXCEPT ![t] = r]
      /\ mem' = [mem EXCEPT ![t] = r] /\ worker' = [worker EXCEPT ![t] = "working"]
      /\ reload' = Overtake(t)
      /\ UNCHANGED <<proc, crashes, ctxDone, aged, removers, zombies, cache, overtaken, lost>>
  BY DEF CreateTask
<1>2. r \in Record /\ r.status = "running" /\ r # Absent
  BY BoundAssumption, AbsentType DEF Record
<1> HIDE DEF r
<1>3. /\ caching' \in [Task -> Record] /\ reload' \in [Reloader -> Reload]
      /\ ReloadInv' /\ CacheStaleHasACause'
      /\ \A u \in Task : caching'[u] # Absent => db'[u] \in {caching'[u], Absent}
      /\ \A u \in Task : worker'[u] = "none" => caching'[u] = Absent
  BY <1>1, <1>2, WriteInv
<1>4. TypeOK'
  BY <1>1, <1>2, <1>3
<1>5. CopiesInv'
  BY <1>1, <1>2, <1>3 DEF CopiesInv
<1>6. NoOrphanRunningTask'
  BY <1>1, <1>2 DEF NoOrphanRunningTask
<1>7. QED  BY <1>3, <1>4, <1>5, <1>6

\* The end of a call: the cache has what the row has.
LEMMA SetCacheInv ==
  ASSUME IInv, NEW t \in Task, SetCache(t)
  PROVE  IInv'
<1> USE AbsentType DEF IInv, TypeOK
<1>1. /\ proc = "up" /\ caching[t] # Absent
      /\ cache' = [cache EXCEPT ![t] = caching[t]]
      /\ caching' = [caching EXCEPT ![t] = Absent]
      /\ overtaken' = [overtaken EXCEPT ![t] = FALSE]
      /\ UNCHANGED <<proc, crashes, mem, ctxDone, aged, removers, zombies, db, reload, lost, worker>>
  BY DEF SetCache, memVars
<1>2. TypeOK'
  BY <1>1
<1>3. CopiesInv'
  BY <1>1 DEF CopiesInv
<1>4. ReloadInv'
  BY <1>1 DEF ReloadInv
<1>5. NoOrphanRunningTask'
  BY <1>1 DEF NoOrphanRunningTask
<1>6. CacheStaleHasACause'
  BY <1>1 DEF CacheStaleHasACause, InMemory, CopiesInv
<1>7. QED  BY <1>2, <1>3, <1>4, <1>5, <1>6

\* Reports change an entry's numbers only.
LEMMA UpdateInv ==
  ASSUME IInv, NEW t \in Task, NEW n \in 0 .. MaxTotal, UpdateProgress(t, n) \/ UpdateTotal(t, n)
  PROVE  IInv'
<1> USE DEF IInv, TypeOK
<1>1. PICK r \in Record : r.status = mem[t].status /\ mem' = [mem EXCEPT ![t] = r]
  <2>1. PICK r : /\ r \in {[mem[t] EXCEPT !.progress = n], [mem[t] EXCEPT !.total = n]}
                 /\ mem' = [mem EXCEPT ![t] = r]
    BY DEF UpdateProgress, UpdateTotal
  <2>2. r \in Record /\ r.status = mem[t].status
    <3>1. mem[t] \in Record
      OBVIOUS
    <3>2. CASE r = [mem[t] EXCEPT !.progress = n]
      BY <3>1, <3>2 DEF Record
    <3>3. CASE r = [mem[t] EXCEPT !.total = n]
      BY <3>1, <3>3 DEF Record
    <3>4. QED  BY <2>1, <3>2, <3>3
  <2>3. QED  BY <2>1, <2>2
<1>2. /\ proc = "up" /\ worker[t] = "working" /\ InMemory(t)
      /\ UNCHANGED <<proc, crashes, ctxDone, aged, removers, zombies, db, cache, caching,
                     reload, overtaken, lost, worker>>
  BY DEF UpdateProgress, UpdateTotal, cacheVars
<1>3. TypeOK'
  BY <1>1, <1>2
<1>4. CopiesInv' /\ ReloadInv'
  BY <1>1, <1>2 DEF CopiesInv, ReloadInv
<1>5. NoOrphanRunningTask'
  BY <1>1, <1>2 DEF NoOrphanRunningTask
<1>6. CacheStaleHasACause'
  BY <1>1, <1>2 DEF CacheStaleHasACause, InMemory
<1>7. QED  BY <1>3, <1>4, <1>5, <1>6

LEMMA CancelStoredInv ==
  ASSUME IInv, NEW t \in Task, NEW ok \in BOOLEAN, CancelStoredTask(t, ok)
  PROVE  IInv'
<1> USE DEF IInv, TypeOK
<1>1. PICK r \in Record : r = Cancelled(GetByID(t)) /\ r.status = "cancelled"
  BY EndedRecords DEF Cancelled, GetByID
<1>2. /\ proc = "up" /\ MutexFree /\ ~InMemory(t) /\ lost' = [lost EXCEPT ![t] = ~ok]
      /\ UNCHANGED <<proc, crashes, mem, ctxDone, aged, removers, zombies, worker,
                     cache, overtaken>>
  BY <1>1 DEF CancelStoredTask, SyncFinalStatus, memVars
<1>3. worker[t] # "none" /\ r # Absent
  BY <1>1, AbsentType DEF CopiesInv, CancelStoredTask, GetByID
<1>4. CASE ok
  <2>1. /\ db' \in [Task -> Record]
        /\ db'[t] \in {r, Absent} /\ \A u \in Task \ {t} : db'[u] = db[u]
        /\ caching' = [caching EXCEPT ![t] = r] /\ reload' = Overtake(t)
    BY <1>1, <1>4 DEF CancelStoredTask, SyncFinalStatus
  <2>2. /\ caching' \in [Task -> Record] /\ reload' \in [Reloader -> Reload]
        /\ ReloadInv' /\ CacheStaleHasACause'
        /\ \A u \in Task : caching'[u] # Absent => db'[u] \in {caching'[u], Absent}
        /\ \A u \in Task : worker'[u] = "none" => caching'[u] = Absent
    BY <1>2, <1>3, <2>1, WriteInv
  <2>3. TypeOK'
    BY <1>2, <2>1, <2>2
  <2>4. CopiesInv'
    BY <1>2, <1>3, <2>1, <2>2 DEF CopiesInv
  <2>5. NoOrphanRunningTask'
    BY <1>1, <1>2, <2>1, AbsentType DEF NoOrphanRunningTask
  <2>6. QED  BY <2>2, <2>3, <2>4, <2>5
<1>5. CASE ~ok
  <2>1. UNCHANGED <<db, caching, reload>>
    BY <1>5 DEF CancelStoredTask, SyncFinalStatus
  <2>2. TypeOK'
    BY <1>2, <2>1
  <2>3. CopiesInv' /\ ReloadInv'
    BY <1>2, <2>1 DEF CopiesInv, ReloadInv
  <2>4. NoOrphanRunningTask'
    BY <1>2, <1>5, <2>1 DEF NoOrphanRunningTask
  <2>5. CacheStaleHasACause'
    BY <1>2, <2>1 DEF CacheStaleHasACause, InMemory
  <2>6. QED  BY <2>2, <2>3, <2>4, <2>5
<1>6. QED  BY <1>4, <1>5

LEMMA RemoveInv ==
  ASSUME IInv, NEW t \in Task, RemoveTask(t)
  PROVE  IInv'
<1> USE DEF IInv, TypeOK
<1>1. /\ proc = "up" /\ removers[t] > 0 /\ removers' = [removers EXCEPT ![t] = @ - 1]
      /\ mem' = [mem EXCEPT ![t] = Absent]
      /\ UNCHANGED <<proc, crashes, ctxDone, aged, zombies, db, cache, caching, reload,
                     overtaken, lost, worker>>
  BY DEF RemoveTask, cacheVars
<1>2. mem[t].status # "running" /\ worker[t] # "none"
  BY <1>1 DEF CopiesInv
<1>3. TypeOK'
  BY <1>1, AbsentType
<1>4. CopiesInv' /\ ReloadInv'
  BY <1>1, <1>2, AbsentType DEF CopiesInv, ReloadInv
<1>5. NoOrphanRunningTask'
  BY <1>1, <1>2, AbsentType DEF NoOrphanRunningTask
<1>6. CacheStaleHasACause'
  BY <1>1, <1>2, AbsentType DEF CacheStaleHasACause, InMemory
<1>7. QED  BY <1>3, <1>4, <1>5, <1>6

\* The steps that change no copy of a task.
LEMMA SameCopiesInv ==
  ASSUME IInv, TypeOK', UNCHANGED <<proc, mem, removers, db, cacheVars, lost>>,
         \A t \in Task : worker'[t] = "none" => worker[t] = "none"
  PROVE  IInv'
BY DEF IInv, CopiesInv, ReloadInv, NoOrphanRunningTask, CacheStaleHasACause, InMemory, cacheVars

-----------------------------------------------------------------------------
\* The process ends and starts again.
LEMMA CrashInv ==
  ASSUME IInv, Crash
  PROVE  IInv'
<1> USE AbsentType, NoReloadType DEF IInv, TypeOK, Crash
<1>1. TypeOK'
  OBVIOUS
<1>2. CopiesInv' /\ ReloadInv'
  BY DEF CopiesInv, ReloadInv
<1>3. NoOrphanRunningTask' /\ CacheStaleHasACause'
  BY DEF NoOrphanRunningTask, CacheStaleHasACause
<1>4. QED  BY <1>1, <1>2, <1>3

LEMMA LoadInv ==
  ASSUME IInv, NEW recent \in SUBSET Task, InitTaskCache(recent)
  PROVE  IInv'
<1> USE AbsentType DEF IInv, TypeOK
<1>1. /\ proc = "down" /\ proc' = "loaded"
      /\ cache' = [t \in Task |-> IF t \in recent THEN db[t] ELSE Absent]
      /\ UNCHANGED <<crashes, mem, ctxDone, aged, removers, zombies, db, caching, reload,
                     overtaken, lost, worker>>
  BY DEF InitTaskCache, Rows, memVars
<1>2. TypeOK'
  BY <1>1
<1>3. CopiesInv' /\ ReloadInv'
  BY <1>1 DEF CopiesInv, ReloadInv
<1>4. NoOrphanRunningTask' /\ CacheStaleHasACause'
  BY <1>1 DEF NoOrphanRunningTask, CacheStaleHasACause
<1>5. QED  BY <1>2, <1>3, <1>4

LEMMA StartInv ==
  ASSUME IInv, NEW ok \in BOOLEAN, InitTaskManager(ok)
  PROVE  IInv'
<1> USE AbsentType DEF IInv, TypeOK
<1>1. /\ proc = "loaded" /\ proc' = "up"
      /\ UNCHANGED <<crashes, mem, ctxDone, aged, removers, zombies, cache, caching, reload,
                     overtaken, worker>>
  BY DEF InitTaskManager, memVars, cacheVars
<1>2. /\ db' = [t \in Task |-> IF ok /\ db[t].status = "running"
                               THEN [db[t] EXCEPT !.status = "error"] ELSE db[t]]
      /\ lost' = [t \in Task |-> ~ok /\ db[t].status = "running"]
  BY DEF InitTaskManager
<1>3. \A t \in Task :
        /\ db'[t] \in Record
        /\ db'[t] = db[t] \/ (db[t].status = "running" /\ db'[t].status = "error")
  BY <1>2, EndedRecords
<1>4. TypeOK'
  BY <1>1, <1>2, <1>3
<1>5. CopiesInv'
  <2>1. ASSUME NEW t \in Task, caching[t] # Absent
        PROVE  db'[t] \in {caching[t], Absent}
    BY <1>1, <2>1 DEF CopiesInv
  <2>2. QED  BY <1>1, <1>3, <2>1 DEF CopiesInv
<1>5a. ReloadInv'
  BY <1>1 DEF ReloadInv
<1>6. NoOrphanRunningTask'
  <2>1. ASSUME NEW t \in Task, db'[t].status = "running"
        PROVE  lost'[t]
    <3>1. db'[t] = db[t]
      BY <1>3, <2>1
    <3>2. [db[t] EXCEPT !.status = "error"].status = "error"
      BY EndedRecords
    <3>3. ~ok
      BY <1>2, <2>1, <3>1, <3>2
    <3>4. QED  BY <1>2, <2>1, <3>1, <3>3
  <2>2. QED  BY <2>1 DEF NoOrphanRunningTask
<1>7. CacheStaleHasACause'
  <2>1. ASSUME NEW t \in Task, cache'[t] # Absent, cache'[t] # db'[t]
        PROVE  cache'[t].status = "running" /\ ~InMemory(t)' /\ db'[t].status = "error"
    <3>1. cache[t] = db[t] /\ db'[t] # db[t] /\ mem'[t] = Absent
      BY <1>1, <2>1 DEF CopiesInv
    <3>2. QED  BY <1>1, <1>3, <3>1 DEF InMemory
  <2>2. QED  BY <2>1 DEF CacheStaleHasACause
<1>8. QED  BY <1>4, <1>5, <1>5a, <1>6, <1>7

\* A clean-up deletes rows of ended tasks only, whatever is cached or read.
LEMMA ClearInv ==
  ASSUME IInv, NEW old \in SUBSET Task, ClearTaskHistory(old)
  PROVE  IInv'
<1> USE AbsentType DEF IInv, TypeOK
<1>1. /\ proc = "up"
      /\ \A t \in old : db[t].status \in Terminal
      /\ db' = [t \in Task |-> IF t \in old THEN Absent ELSE db[t]]
      /\ UNCHANGED <<proc, crashes, mem, ctxDone, aged, removers, zombies, cache, caching,
                     overtaken, lost, worker>>
  BY DEF ClearTaskHistory, CleanupOldTasks, memVars
<1>2. /\ reload' \in [Reloader -> Reload]
      /\ \A g \in Reloader : /\ reload'[g].rows = reload[g].rows
                             /\ reload'[g].missed = reload[g].missed
                             /\ reload'[g].step = "read" => reload[g].step = "read"
  <2>1. CASE UNCHANGED reload
    BY <2>1
  <2>2. ASSUME NEW h \in Reloader, reload' = [reload EXCEPT ![h].step = "started"]
        PROVE  /\ reload' \in [Reloader -> Reload]
               /\ \A g \in Reloader : /\ reload'[g].rows = reload[g].rows
                                      /\ reload'[g].missed = reload[g].missed
                                      /\ reload'[g].step = "read" => reload[g].step = "read"
    BY <2>2 DEF Reload
  <2>3. QED  BY <2>1, <2>2 DEF ClearTaskHistory, CleanupOldTasks
<1>3. TypeOK'
  BY <1>1, <1>2
<1>4. CopiesInv' /\ ReloadInv'
  BY <1>1, <1>2 DEF CopiesInv, ReloadInv
<1>5. NoOrphanRunningTask' /\ CacheStaleHasACause'
  BY <1>1 DEF NoOrphanRunningTask, CacheStaleHasACause, InMemory
<1>6. QED  BY <1>3, <1>4, <1>5

\* A reload reads, or gives up.
LEMMA ReadInv ==
  ASSUME IInv, NEW g \in Reloader, NEW recent \in SUBSET Task,
         ReadRows(g, recent) \/ ReloadFails(g)
  PROVE  IInv'
<1> USE AbsentType, NoReloadType DEF IInv, TypeOK
<1> DEFINE new == [step |-> "read", rows |-> Rows(recent), missed |-> {}]
<1>1. /\ reload[g].step = "started"
      /\ UNCHANGED <<proc, crashes, mem, ctxDone, aged, removers, zombies, db, cache, caching,
                     overtaken, lost, worker>>
      /\ reload' \in {[reload EXCEPT ![g] = new], [reload EXCEPT ![g] = NoReload]}
  BY DEF ReadRows, ReloadFails, memVars
<1>2. /\ new \in Reload /\ new.step = "read"
      /\ \A t \in Task : new.rows[t] \in {Absent, db[t]}
  BY DEF Rows, Reload
<1>3. TypeOK'
  BY <1>1, <1>2
<1>4. ReloadInv'
  <2> HIDE DEF new
  <2>1. \A t \in Task : worker[t] = "none" => new.rows[t] = Absent
    BY <1>2 DEF CopiesInv
  <2>2. \A h \in Reloader : reload'[h] \in {reload[h], new, NoReload}
    BY <1>1
  <2>3. proc = "up"
    BY <1>1 DEF ReloadInv
  <2>4. QED  BY <1>1, <1>2, <2>1, <2>2, <2>3 DEF ReloadInv
<1>5. CopiesInv' /\ NoOrphanRunningTask' /\ CacheStaleHasACause'
  BY <1>1 DEF CopiesInv, NoOrphanRunningTask, CacheStaleHasACause, InMemory
<1>6. QED  BY <1>3, <1>4, <1>5

\* A reload replaces the cache by rows that may have been written since.
LEMMA LoadAllInv ==
  ASSUME IInv, NEW g \in Reloader, LoadAll(g)
  PROVE  IInv'
<1> USE AbsentType, NoReloadType DEF IInv, TypeOK
<1>1. /\ reload[g].step = "read" /\ cache' = reload[g].rows
      /\ overtaken' = [t \in Task |-> t \in reload[g].missed]
      /\ reload' = [reload EXCEPT ![g] = NoReload]
      /\ UNCHANGED <<proc, crashes, mem, ctxDone, aged, removers, zombies, db, caching, lost,
                     worker>>
  BY DEF LoadAll, memVars
<1>2. cache' \in [Task -> Record] /\ proc = "up"
  BY <1>1 DEF Reload, ReloadInv
<1>3. TypeOK'
  BY <1>1, <1>2
<1>4. CopiesInv'
  BY <1>1, <1>2 DEF CopiesInv, ReloadInv
<1>5. ReloadInv'
  BY <1>1, <1>2 DEF ReloadInv
<1>6. NoOrphanRunningTask'
  BY <1>1 DEF NoOrphanRunningTask
<1>7. CacheStaleHasACause'
  BY <1>1 DEF CacheStaleHasACause, ReloadInv
<1>8. QED  BY <1>3, <1>4, <1>5, <1>6, <1>7

LEMMA NextInv == IInv /\ [Next]_vars => IInv'
<1> SUFFICES ASSUME IInv, [Next]_vars PROVE IInv'
  OBVIOUS
<1>1. \A t \in Task : /\ Completed(t) \in Record /\ Completed(t).status \in Terminal
                      /\ Failed(t) \in Record /\ Failed(t).status \in Terminal
                      /\ Cancelled(mem[t]) \in Record /\ Cancelled(mem[t]).status \in Terminal
  BY EndedRecords DEF Completed, Failed, Cancelled, Terminal, IInv, TypeOK
<1>2. ASSUME NEW t \in Task, NEW ok \in BOOLEAN, CompleteTask(t, ok) \/ FailTask(t, ok)
      PROVE  IInv'
  <2>1. /\ proc = "up" /\ InMemory(t) /\ worker' = [worker EXCEPT ![t] = "ended"]
        /\ UNCHANGED <<proc, crashes, aged, zombies, cache, overtaken>>
    BY <1>2 DEF CompleteTask, FailTask, WorkerEnds
  <2>2. PICK r \in Record : r.status \in Terminal /\ EndTask(t, r, ok)
    BY <1>1, <1>2 DEF CompleteTask, FailTask
  <2>3. QED  BY <2>1, <2>2, EndTaskInv DEF IInv, TypeOK
<1>3. ASSUME NEW t \in Task, NEW ok \in BOOLEAN, CancelTask(t, ok)
      PROVE  IInv'
  <2>1. PICK r \in Record : r.status \in Terminal /\ EndTask(t, r, ok)
    BY <1>1, <1>3 DEF CancelTask
  <2>2. QED  BY <1>3, <2>1, EndTaskInv DEF CancelTask, IInv, TypeOK
<1>4. ASSUME NEW t \in Task, NEW ok \in BOOLEAN, FailZombie(t, ok)
      PROVE  IInv'
  <2>1. CASE InMemory(t)
    <3>1. PICK r \in Record : r.status \in Terminal /\ EndTask(t, r, ok)
      BY <1>1, <1>4, <2>1 DEF FailZombie
    <3>2. QED  BY <1>4, <2>1, <3>1, EndTaskInv DEF FailZombie, IInv, TypeOK
  <2>2. CASE ~InMemory(t)
    <3>1. UNCHANGED <<proc, crashes, mem, ctxDone, aged, removers, db, cacheVars, lost, worker>>
          /\ zombies' \subseteq Task
      BY <1>4, <2>2 DEF FailZombie, IInv, TypeOK, cacheVars
    <3>2. QED  BY <3>1, SameCopiesInv DEF IInv, TypeOK, cacheVars
  <2>3. QED  BY <2>1, <2>2
<1>5. ASSUME NEW t \in Task, WorkerReturns(t) \/ Age(t)
      PROVE  IInv'
  <2>1. /\ UNCHANGED <<proc, crashes, mem, removers, zombies, db, cacheVars, lost>>
        /\ worker' \in {worker, [worker EXCEPT ![t] = "ended"]}
        /\ ctxDone' \in {ctxDone, [ctxDone EXCEPT ![t] = TRUE]}
        /\ aged' \in {aged, [aged EXCEPT ![t] = TRUE]}
    BY <1>5 DEF WorkerReturns, WorkerEnds, Age, memVars
  <2>2. QED  BY <2>1, SameCopiesInv DEF IInv, TypeOK, cacheVars
<1>6. CASE ScanZombies \/ UNCHANGED vars
  <2>1. UNCHANGED <<proc, crashes, mem, ctxDone, aged, removers, db, cacheVars, lost, worker>>
        /\ (zombies' = zombies \/ zombies' \subseteq Task)
    BY <1>6 DEF ScanZombies, vars, memVars
  <2>2. QED  BY <2>1, SameCopiesInv DEF IInv, TypeOK, cacheVars
<1>7. QED
  BY <1>2, <1>3, <1>4, <1>5, <1>6, CreateInv, SetCacheInv, UpdateInv, CancelStoredInv,
     RemoveInv, CrashInv, LoadInv, StartInv, ClearInv, ReadInv, LoadAllInv DEF Next

-----------------------------------------------------------------------------
\* The strengthened invariant holds in every state, after any restarts.
THEOREM Invariance == Spec => []IInv
<1>1. QED  BY InitInv, NextInv, PTL DEF Spec

\* Every copy of a task is a record of a task.
THEOREM TypeCorrect == Spec => []TypeOK
<1>1. IInv => TypeOK
  BY DEF IInv
<1>2. QED  BY <1>1, Invariance, PTL

\* No end, removal or restart leaves a task that runs for ever on the task
\* page, unless the database refused the write of its end.
THEOREM NoOrphan == Spec => []NoOrphanRunningTask
<1>1. IInv => NoOrphanRunningTask
  BY DEF IInv
<1>2. QED  BY <1>1, Invariance, PTL

\* For any number of reloads at once: between two calls of the manager, cache and
\* table differ only for tasks whose row a clean-up deleted, that a restart
\* interrupted, or that a reload cached from before their last write.
THEOREM CacheAgrees == Spec => []CacheStaleHasACause
<1>1. IInv => CacheStaleHasACause
  BY DEF IInv
<1>2. QED  BY <1>1, Invariance, PTL

\* The row of an ended task that has left the memory is touched by nobody but
\* a clean-up.
LEMMA FinalStep ==
  ASSUME IInv, [Next]_vars, NEW t \in Task,
         proc = "up", db[t].status \in Terminal, ~InMemory(t), cache[t].status # "running"
  PROVE  db'[t] \in {db[t], Absent}
<1> USE DEF IInv, TypeOK
<1>1. db[t].status \notin {"absent", "running"} /\ db[t] # Absent
  BY AbsentType DEF Terminal
<1>2. ASSUME NEW u \in Task, u # t \/ InMemory(u), NEW r, NEW ok \in BOOLEAN,
             SyncFinalStatus(u, r, ok)
      PROVE  db'[t] = db[t]
  BY <1>2 DEF SyncFinalStatus
<1>3. ASSUME NEW u \in Task, NEW ok \in BOOLEAN,
             \/ CompleteTask(u, ok) \/ FailTask(u, ok) \/ CancelTask(u, ok)
             \/ FailZombie(u, ok) \/ CancelStoredTask(u, ok)
      PROVE  db'[t] = db[t]
  <2>1. CASE CompleteTask(u, ok)
    BY <1>2, <2>1 DEF CompleteTask, EndTask
  <2>2. CASE FailTask(u, ok)
    BY <1>2, <2>2 DEF FailTask, EndTask
  <2>3. CASE CancelTask(u, ok)
    BY <1>2, <2>3 DEF CancelTask, EndTask
  <2>4. CASE FailZombie(u, ok)
    BY <1>2, <2>4 DEF FailZombie, EndTask
  <2>5. CASE CancelStoredTask(u, ok)
    <3>1. u # t
      BY <1>1, <2>5 DEF CancelStoredTask, GetByID
    <3>2. QED  BY <1>2, <2>5, <3>1 DEF CancelStoredTask
  <2>6. QED  BY <1>3, <2>1, <2>2, <2>3, <2>4, <2>5
<1>4. ASSUME NEW u \in Task, NEW n \in 0 .. MaxTotal, CreateTask(u, n)
      PROVE  db'[t] = db[t]
  <2>1. u # t
    BY <1>1, <1>4 DEF CreateTask, CopiesInv
  <2>2. PICK r : db' = [db EXCEPT ![u] = r]
    BY <1>4 DEF CreateTask
  <2>3. QED  BY <2>1, <2>2
<1>5. ASSUME NEW ok \in BOOLEAN, InitTaskManager(ok)
      PROVE  db'[t] = db[t]
  BY <1>5 DEF InitTaskManager
<1>6. ASSUME NEW S \in SUBSET Task, ClearTaskHistory(S)
      PROVE  db'[t] \in {db[t], Absent}
  BY <1>6 DEF ClearTaskHistory, CleanupOldTasks
<1>7. ASSUME \/ UNCHANGED vars \/ ScanZombies \/ Crash
             \/ \E S \in SUBSET Task : \/ InitTaskCache(S)
                                      \/ \E g \in Reloader : ReadRows(g, S)
             \/ \E g \in Reloader : ReloadFails(g) \/ LoadAll(g)
             \/ \E u \in Task : \/ \E n \in 0 .. MaxTotal : UpdateProgress(u, n) \/ UpdateTotal(u, n)
                                \/ WorkerReturns(u) \/ RemoveTask(u) \/ Age(u) \/ SetCache(u)
      PROVE  db' = db
  BY <1>7 DEF vars, ScanZombies, Crash, InitTaskCache, UpdateProgress, UpdateTotal,
              WorkerReturns, RemoveTask, Age, SetCache, ReadRows, ReloadFails, LoadAll
<1>8. QED  BY <1>3, <1>4, <1>5, <1>6, <1>7 DEF Next

\* The end of a task that has left the memory is final in the table.
THEOREM EndsAreFinal == Spec => FinalOnceRemoved
<1> DEFINE Kept == \A t \in Task :
                     /\ proc = "up"
                     /\ db[t].status \in Terminal
                     /\ ~InMemory(t)
                     /\ cache[t].status # "running"
                     => db'[t] \in {db[t], Absent}
<1>1. IInv /\ [Next]_vars => Kept
  BY FinalStep
<1>2. (Spec => [][Kept]_vars)
  <2> HIDE DEF Kept
  <2>1. QED  BY <1>1, Invariance, PTL DEF Spec
<1>3. QED  BY <1>2 DEF FinalOnceRemoved
=============================================================================
