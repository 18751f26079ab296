----------------------------- MODULE LiveTasks -----------------------------
(***************************************************************************)
(* A tab and the server together: tasks start, make progress and end on    *)
(* the server (TaskManager has the details), their events travel over the  *)
(* stream (SessionStream), and the tab shows what it hears and sends stops *)
(* and restores back (TaskPanel).                                          *)
(*                                                                         *)
(* run is what services/task_manager.go has of a task: "ending" has its    *)
(* final status and is in runningTasks for 500 ms more, "gone" is not,     *)
(* "lost" was running when the process ended.                              *)
(***************************************************************************)
EXTENDS SessionStream, TaskPanel, SequencesExt

CONSTANT MaxEnds  \* bound on the ends of one task

ASSUME EventAssumption ==
  /\ Event = [task : Task, kind : {"active", "ended"}]
  /\ MaxEnds \in Nat \ {0}

VARIABLES
  run,
  ends,     \* final events broadcast
  restores, \* the tasks this tab's form has created; the panel stops others
  missed,   \* history: a final event of the task was dropped on its way here
  cleaned,  \* history: a timer has removed the task's entry
  early     \* history: the form's restore ended here before its answer came

history == <<missed, cleaned, early>>
taskVars == <<run, ends, restores>>
vars == <<sessionVars, panelVars, taskVars, history>>

Active(t) == [task |-> t, kind |-> "active"]
Ended(t) == [task |-> t, kind |-> "ended"]

Over(t) == run[t] \in {"ending", "gone", "lost"}

Init ==
  /\ SessionInit
  /\ PanelEmpty
  /\ run = [t \in Task |-> "none"]
  /\ ends = [t \in Task |-> 0]
  /\ restores = {}
  /\ missed = {}
  /\ cleaned = {}
  /\ early = FALSE

\* The final events under way to the tab.
FinalsIn(queues) == {t \in Task : Ended(t) \in UNION {ToSet(q) : q \in queues}}
Coming == FinalsIn({notifier, wire})

\* A final event that was under way and is not any more was dropped.
NoteDrops(gone) == missed' = missed \cup gone \cup (Coming \ FinalsIn({notifier', wire'}))

SetRun(t, r) == run' = [run EXCEPT ![t] = r]

-----------------------------------------------------------------------------
\* CreateTask, and the progress event that announces it.
CreateTask(t) ==
  /\ run[t] = "none" /\ SetRun(t, "running")
  /\ Broadcast(Active(t))
  /\ UNCHANGED ends

\* A task of the cron scheduler, of another tab, of this tab's other pages.
StartTask(t) ==
  /\ CreateTask(t)
  /\ UNCHANGED <<panelVars, restores, history>>

\* RestoreWebDAVBackup creates the task while the form waits; the answer and
\* the task's first events are then on their way at the same time.
RestoreWebDAVBackup(t) ==
  /\ restores' = restores \cup {t}
  /\ restoreCall = "sent" /\ restoreCall' = "done"
  /\ restoreId' = t
  /\ CreateTask(t)
  /\ early' = FALSE
  /\ UNCHANGED <<entry, stopping, cleanups, stopCall, restoring, awaited, missed, cleaned>>

\* UpdateProgress and UpdateTotal, which look for the entry and not at its
\* status: a cancelled task's goroutine may still report.
UpdateProgress(t) ==
  /\ run[t] \in {"running", "ending"}
  /\ Broadcast(Active(t))
  /\ UNCHANGED <<panelVars, taskVars, history>>

Ends(t) ==
  /\ run[t] \in {"running", "ending"} /\ SetRun(t, "ending")
  /\ ends[t] < MaxEnds /\ ends' = [ends EXCEPT ![t] = @ + 1]
  /\ UNCHANGED restores

\* CompleteTask, FailTask or another client's CancelTask.
EndTask(t) ==
  /\ Ends(t)
  /\ Broadcast(Ended(t))
  /\ UNCHANGED <<panelVars, history>>

RemoveRunning(t) ==
  /\ up
  /\ run[t] = "ending" /\ SetRun(t, "gone")
  /\ UNCHANGED <<sessionVars, panelVars, ends, restores, history>>

\* CancelTask for the tab's request.  A task the process does not have is
\* refused as ended, except after a restart: as long as the cache has it as
\* running it is cancelled again, which no event announces.
CancelTask(t) ==
  /\ stopCall[t] = "sent" /\ stopCall' = [stopCall EXCEPT ![t] = "done"]
  /\ \/ Ends(t) /\ Broadcast(Ended(t))
     \/ run[t] = "lost" /\ up /\ UNCHANGED <<sessionVars, taskVars>>
  /\ UNCHANGED <<entry, stopping, cleanups, restoreVars, history>>

-----------------------------------------------------------------------------
\* The window event task_progress.
Deliver(t, kind) ==
  /\ Receive([task |-> t, kind |-> kind])
  /\ handleProgressEvent(t, kind)
  /\ early' = (early \/ (kind = "ended" /\ restoreId = t))
  /\ UNCHANGED <<taskVars, missed, cleaned>>

\* A click, an answer or a timer of the mounted pages.
PanelActs ==
  /\ booted /\ authed
  /\ PanelStep
  /\ \A t \in restores : stopCall'[t] = "none"
  /\ cleaned' = cleaned \cup {t \in Task : cleanups'[t] < cleanups[t]}
  /\ UNCHANGED <<sessionVars, taskVars, missed, early>>

TabActs ==
  /\ TabStep
  /\ NoteDrops({})
  /\ UNCHANGED <<panelVars, taskVars, cleaned, early>>

\* A new document has heard of nothing: what ended before is missed.
TabLoadsAgain ==
  /\ TabReloads
  /\ PanelReloads
  /\ missed' = {t \in Task : Over(t)}
  /\ cleaned' = {}
  /\ early' = FALSE
  /\ UNCHANGED taskVars

Listen ==
  /\ Forward
  /\ NoteDrops({})
  /\ UNCHANGED <<panelVars, taskVars, cleaned, early>>

ServerCrash ==
  /\ Crash
  /\ run' = [t \in Task |-> IF run[t] = "running" THEN "lost"
                            ELSE IF run[t] = "ending" THEN "gone" ELSE run[t]]
  /\ NoteDrops({t \in Task : run[t] = "running"})
  /\ UNCHANGED <<panelVars, ends, restores, cleaned, early>>

ServerStart ==
  /\ Start
  /\ UNCHANGED <<panelVars, taskVars, history>>

Next ==
  \/ \E t \in Task :
       \/ StartTask(t) \/ RestoreWebDAVBackup(t) \/ UpdateProgress(t)
       \/ EndTask(t) \/ RemoveRunning(t) \/ CancelTask(t)
       \/ \E kind \in {"active", "ended"} : Deliver(t, kind)
  \/ PanelActs \/ TabActs \/ TabLoadsAgain
  \/ Listen \/ ServerCrash \/ ServerStart

Spec == Init /\ [][Next]_vars

\* The browser's timers fire; an idle stream gets a heartbeat every ten
\* seconds, so only a stream whose request the server has lost falls silent
\* for certain; a connection can be refused while the server is down, and a
\* server that runs answers a request that is tried again and again; a
\* supervisor starts the server again; and the broker's loop runs.
FairSpec ==
  /\ Spec
  /\ WF_sessionVars(ReconnectFires)
  /\ WF_sessionVars(~registered /\ HeartbeatExpires)
  /\ WF_sessionVars(~up /\ source = "connecting" /\ OnError)
  /\ SF_sessionVars(StreamSSE) /\ SF_sessionVars(OnOpen) /\ SF_sessionVars(OnAuthError)
  /\ WF_sessionVars(Start) /\ WF_sessionVars(Forward)

-----------------------------------------------------------------------------
TypeOK ==
  /\ SessionTypeOK
  /\ PanelTypeOK
  /\ run \in [Task -> {"none", "running", "ending", "gone", "lost"}]
  /\ ends \in [Task -> 0 .. MaxEnds] /\ restores \subseteq Task
  /\ missed \subseteq Task /\ cleaned \subseteq Task /\ early \in BOOLEAN

\* An entry of the panel that nothing will remove any more (the task is over,
\* no final event is coming, no timer is set) has one of two causes only: the
\* final event was dropped, by a broken connection, a full buffer or a crash,
\* or something reached the tab after the timer: a late progress event, or the
\* answer to a stop.
StaleEntryHasACause ==
  \A t \in Task :
    entry[t] # "absent" /\ Over(t) /\ t \notin Coming /\ cleanups[t] = 0
      => t \in missed \/ t \in cleaned

\* A restore form that waits for the end of a task that is over has missed
\* the event, or had it before the answer that told it which task to wait for.
StuckRestoreHasACause ==
  \A t \in Task :
    restoring /\ awaited = t /\ Over(t) /\ t \notin Coming => t \in missed \/ early
=============================================================================
