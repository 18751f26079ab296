----------------------------- MODULE TaskPanel -----------------------------
(***************************************************************************)
(* What a tab knows of the running tasks (contexts/TaskProgressContext.jsx *)
(* with the stop button of components/TaskProgressPanel.jsx), and the      *)
(* restore form of the backup settings, which waits for the end of the     *)
(* task it has started (views/settings/components/BackupSettings.jsx).     *)
(*                                                                         *)
(* An entry is the status it shows; names, counts and messages are left    *)
(* out.  The two requests are the tab's ends of theirs: the composing      *)
(* module says what the server does with them.                             *)
(***************************************************************************)
EXTENDS Naturals

CONSTANTS
  Task,   \* task ids
  NoTask  \* no id

ASSUME NoTaskAssumption == NoTask \notin Task

VARIABLES
  entry,       \* tasks: the map of the panel
  stopping,    \* stoppingTasks
  cleanups,    \* timers that will call removeTask
  stopCall,    \* stopTask's request: "none", "sent" or "done"
  restoring,   \* BackupSettings' restoring
  awaited,     \* its restoreTaskId
  restoreCall, \* handleRestore's request: "none", "sent" or "done"
  restoreId    \* the id in the answer

restoreVars == <<restoring, awaited, restoreCall, restoreId>>
panelVars == <<entry, stopping, cleanups, stopCall, restoreVars>>

PanelEmpty ==
  /\ entry = [t \in Task |-> "absent"]
  /\ stopping = {}
  /\ cleanups = [t \in Task |-> 0]
  /\ stopCall = [t \in Task |-> "none"]
  /\ restoring = FALSE
  /\ awaited = NoTask
  /\ restoreCall = "none"
  /\ restoreId = NoTask

\* The document is loaded again.
PanelReloads ==
  /\ entry' = [t \in Task |-> "absent"]
  /\ stopping' = {}
  /\ cleanups' = [t \in Task |-> 0]
  /\ stopCall' = [t \in Task |-> "none"]
  /\ restoring' = FALSE
  /\ awaited' = NoTask
  /\ restoreCall' = "none"
  /\ restoreId' = NoTask

-----------------------------------------------------------------------------
updateTask(t, status) == entry' = [entry EXCEPT ![t] = status]

\* The timer of COMPLETED_TASK_CLEANUP_DELAY: removeTask.
removeTask(t) ==
  /\ cleanups[t] > 0
  /\ cleanups' = [cleanups EXCEPT ![t] = @ - 1]
  /\ entry' = [entry EXCEPT ![t] = "absent"]
  /\ stopping' = stopping \ {t}
  /\ UNCHANGED <<stopCall, restoreVars>>

\* A click on the stop button, up to the request.
stopTask(t) ==
  /\ entry[t] = "active" /\ t \notin stopping
  /\ stopping' = stopping \cup {t}
  /\ stopCall' = [stopCall EXCEPT ![t] = "sent"]
  /\ UNCHANGED <<entry, cleanups, restoreVars>>

\* The request has succeeded, perhaps long after the task's last event.
StopAnswered(t) ==
  /\ stopCall[t] = "done"
  /\ stopCall' = [stopCall EXCEPT ![t] = "none"]
  /\ updateTask(t, "cancelling")
  /\ UNCHANGED <<stopping, cleanups, restoreVars>>

\* The request has failed, whatever the server did with it.
StopFailed(t) ==
  /\ stopCall[t] # "none"
  /\ stopCall' = [stopCall EXCEPT ![t] = "none"]
  /\ stopping' = stopping \ {t}
  /\ UNCHANGED <<entry, cleanups, restoreVars>>

\* Mutant of handleComplete: the callback of the first render, without an id,
\* stays registered.
HandleStale(t) == UNCHANGED <<restoring, awaited>>

\* BackupSettings' callback: the end of a task whose id the form does not have
\* yet is not its own.
handleComplete(t) ==
  /\ restoring' = (restoring /\ awaited # t)
  /\ awaited' = IF awaited = t THEN NoTask ELSE awaited

\* Mutant of handleProgressEvent: no timer is set for a task that has ended.
HandleWithoutCleanup(t, kind) ==
  /\ updateTask(t, kind)
  /\ IF kind = "ended" THEN handleComplete(t) ELSE UNCHANGED <<restoring, awaited>>
  /\ UNCHANGED <<stopping, cleanups, stopCall, restoreCall, restoreId>>

handleProgressEvent(t, kind) ==
  /\ updateTask(t, kind)
  /\ IF kind = "ended"
     THEN /\ handleComplete(t)
          /\ cleanups' = [cleanups EXCEPT ![t] = @ + 1]
     ELSE UNCHANGED <<restoring, awaited, cleanups>>
  /\ UNCHANGED <<stopping, stopCall, restoreCall, restoreId>>

-----------------------------------------------------------------------------
handleRestore ==
  /\ ~restoring
  /\ restoring' = TRUE
  /\ restoreCall' = "sent"
  /\ UNCHANGED <<entry, stopping, cleanups, stopCall, awaited, restoreId>>

\* The answer names the task; the next render registers the callback with it.
RestoreAnswered ==
  /\ restoreCall = "done"
  /\ restoreCall' = "none"
  /\ awaited' = restoreId
  /\ restoreId' = NoTask
  /\ UNCHANGED <<entry, stopping, cleanups, stopCall, restoring>>

RestoreFailed ==
  /\ restoreCall # "none"
  /\ restoreCall' = "none"
  /\ restoreId' = NoTask
  /\ restoring' = FALSE
  /\ UNCHANGED <<entry, stopping, cleanups, stopCall, awaited>>

\* The settings page is left and opened again; the old request's answer finds
\* no component any more.
ReopenSettings ==
  /\ restoring' = FALSE
  /\ awaited' = NoTask
  /\ restoreCall' = "none"
  /\ restoreId' = NoTask
  /\ UNCHANGED <<entry, stopping, cleanups, stopCall>>

PanelStep ==
  \/ \E t \in Task : removeTask(t) \/ stopTask(t) \/ StopAnswered(t) \/ StopFailed(t)
  \/ handleRestore \/ RestoreAnswered \/ RestoreFailed \/ ReopenSettings

PanelTypeOK ==
  /\ entry \in [Task -> {"absent", "active", "cancelling", "ended"}]
  /\ stopping \subseteq Task
  /\ cleanups \in [Task -> Nat]
  /\ stopCall \in [Task -> {"none", "sent", "done"}]
  /\ restoring \in BOOLEAN
  /\ {awaited, restoreId} \subseteq Task \cup {NoTask}
  /\ restoreCall \in {"none", "sent", "done"}
=============================================================================
