-------------------------- MODULE WebClientProofs --------------------------
(***************************************************************************)
(* Proofs about the web client: LiveTasks, its session, event stream and   *)
(* task panel, for any tasks, buffers, numbers of ends and of restarts;    *)
(* and WebPages and the pages it mounts, for any filters, groups,          *)
(* templates, edit sessions and numbers of requests under way.             *)
(***************************************************************************)
EXTENDS LiveTasks, WebPages, Integers, SequenceTheorems, TLAPS

\* A final event that is not under way was handled here, so that a timer is
\* set or has fired, or was dropped.
FinalsAccounted ==
  \A t \in Task : Over(t) /\ t \notin Coming => cleanups[t] > 0 \/ t \in missed \/ t \in cleaned

\* The restore form waits for no task before its request is answered, nor
\* once it is done; a request is out only while it waits.
FormInv ==
  /\ restoreCall # "none" => restoring /\ awaited = NoTask
  /\ ~restoring => awaited = NoTask

\* As FinalsAccounted, for the task the form waits for or will wait for.
RestoreAccounted ==
  \A t \in Task :
    /\ restoring
    /\ awaited = t \/ (restoreCall = "done" /\ restoreId = t)
    /\ Over(t) /\ t \notin Coming
    => t \in missed \/ early

LiveInv ==
  /\ TypeOK
  /\ LoggedOutIsQuiet
  /\ FinalsAccounted
  /\ FormInv
  /\ RestoreAccounted

-----------------------------------------------------------------------------
\* What the steps do to the buffers.
LEMMA EventTypes ==
  ASSUME NEW t \in Task
  PROVE  Active(t) \in Event /\ Ended(t) \in Event /\ Active(t) # Ended(t)
BY EventAssumption DEF Active, Ended

\* The final events under way are those in one of the two buffers.
LEMMA ComingIs ==
  /\ \A t \in Task : t \in Coming <=> Ended(t) \in ToSet(notifier) \cup ToSet(wire)
  /\ \A t \in Task : t \in Coming' <=> Ended(t) \in ToSet(notifier') \cup ToSet(wire')
  /\ Coming' = FinalsIn({notifier', wire'})
BY DEF Coming, FinalsIn, Ended

LEMMA AppendKeeps ==
  ASSUME NEW S, NEW s \in Seq(S), NEW e \in S
  PROVE  ToSet(Append(s, e)) = ToSet(s) \cup {e}
<1>1. /\ DOMAIN s = 1 .. Len(s) /\ DOMAIN Append(s, e) = 1 .. Len(s) + 1
      /\ Len(s) \in Nat
      /\ Append(s, e)[Len(s) + 1] = e /\ \A i \in 1 .. Len(s) : Append(s, e)[i] = s[i]
  OBVIOUS
<1>2. 1 .. Len(s) + 1 = (1 .. Len(s)) \cup {Len(s) + 1}
  BY <1>1
<1>3. QED  BY <1>1, <1>2 DEF ToSet

LEMMA TailLeaves ==
  ASSUME NEW S, NEW s \in Seq(S), s # <<>>
  PROVE  ToSet(s) \subseteq ToSet(Tail(s)) \cup {Head(s)}
<1> SUFFICES ASSUME NEW i \in 1 .. Len(s) PROVE s[i] \in ToSet(Tail(s)) \cup {Head(s)}
  BY DEF ToSet
<1>1. CASE i = 1
  BY <1>1
<1>2. CASE i # 1
  <2>1. /\ Len(s) \in Nat /\ Len(Tail(s)) = Len(s) - 1 /\ Tail(s) \in Seq(S)
        /\ \A j \in 1 .. Len(Tail(s)) : Tail(s)[j] = s[j + 1]
    BY HeadTailProperties, LenProperties
  <2>2. i - 1 \in 1 .. Len(Tail(s)) /\ (i - 1) + 1 = i
    BY <1>2, <2>1
  <2>3. Tail(s)[i - 1] = s[i] /\ DOMAIN Tail(s) = 1 .. Len(Tail(s))
    BY <2>1, <2>2
  <2>4. QED  BY <2>2, <2>3 DEF ToSet
<1>3. QED  BY <1>1, <1>2

\* A broadcast puts its event behind the others.
LEMMA BroadcastKeeps ==
  ASSUME SessionTypeOK, NEW e \in Event, Broadcast(e)
  PROVE  /\ SessionTypeOK' /\ UNCHANGED <<wire, authed, source, heartbeat, reconnect>>
         /\ Coming \subseteq Coming'
         /\ \A t \in Task : e = Ended(t) => t \in Coming'
<1>1. /\ notifier \in Seq(Event) /\ Len(notifier) < NotifierCap
      /\ notifier' = Append(notifier, e)
      /\ UNCHANGED <<token, foreign, tabVars, streamVars, up, restarts>>
  BY DEF Broadcast, SessionTypeOK
<1>2. notifier' \in Seq(Event) /\ Len(notifier') <= NotifierCap
  BY <1>1, StreamAssumption
<1>3. SessionTypeOK'
  BY <1>1, <1>2 DEF SessionTypeOK, tabVars, streamVars
<1>4. ToSet(notifier') = ToSet(notifier) \cup {e}
  BY <1>1, AppendKeeps
<1>5. QED  BY <1>1, <1>3, <1>4, ComingIs DEF tabVars, streamVars, Coming, FinalsIn

-----------------------------------------------------------------------------
\* The session's steps, of this tab and of the server.
LEMMA SessionTypes ==
  ASSUME SessionTypeOK,
         TabStep \/ TabReloads \/ Forward \/ Crash \/ Start \/ UNCHANGED sessionVars
  PROVE  SessionTypeOK'
<1> USE DEF SessionTypeOK
<1>0. <<>> \in Seq(Event) /\ Len(<<>>) <= WireCap /\ Len(<<>>) <= NotifierCap
  BY StreamAssumption
<1>1. CASE TabStep
  <2> USE <1>1 DEF TabStep, InitAuth, InitAuthOk, InitAuthFails, performLogin, handleMfaSubmit,
        handleBackToCredentials, LoginAccepted, LoginChallenged, LoginRejected, FinalizeAuth,
        FinalizeAuthFails, Logout, LogoutDone, Expire, OtherTab, StreamSSE, OnOpen, OnError,
        ReconnectFires, HeartbeatExpires, connectSSE, OpenSource, disconnectSSE, CloseSource,
        Unplug, tabVars, streamVars
  <2>1. UNCHANGED serverVars /\ wire' \in {wire, <<>>}
    OBVIOUS
  <2>2. /\ token' \in Token /\ urlToken' \in Token
        /\ {foreign', booted', authed', heartbeat', reconnect', registered'} \subseteq BOOLEAN
    BY DEF Token
  <2>3. source' \in {"none", "connecting", "open"} /\ (registered' => source' # "none")
    OBVIOUS
  <2>4. call' \in {"none", "boot", "login", "challenged", "mfa",
                   "userinfo", "mfa_userinfo", "logout"}
    OBVIOUS
  <2> HIDE DEF TabStep
  <2>5. QED  BY <1>0, <2>1, <2>2, <2>3, <2>4 DEF serverVars
<1>2. CASE TabReloads
  <2>1. UNCHANGED serverVars /\ token' \in {token, "none"} /\ Reload
    BY <1>2 DEF TabReloads, Unauthorized, UserReloads, OnAuthError
  <2>2. QED  BY <1>0, <2>1 DEF Reload, CloseSource, Unplug, Token, serverVars
<1>3. CASE Forward
  <2>1. notifier' \in Seq(Event) /\ Len(notifier') <= NotifierCap
    BY <1>3, StreamAssumption DEF Forward
  <2>2. wire' \in Seq(Event) /\ Len(wire') <= WireCap
    BY <1>3, StreamAssumption DEF Forward, Reaches
  <2>3. QED  BY <1>3, <2>1, <2>2 DEF Forward, tabVars
<1>4. CASE Crash
  <2>1. restarts' \in 0 .. MaxRestarts
    BY <1>4, StreamAssumption DEF Crash
  <2>2. QED  BY <1>0, <1>4, <2>1 DEF Crash, Unplug, tabVars
<1>5. CASE Start
  BY <1>5 DEF Start, tabVars, streamVars
<1>6. CASE UNCHANGED sessionVars
  BY <1>6 DEF sessionVars, tabVars, streamVars, serverVars
<1>7. QED  BY <1>1, <1>2, <1>3, <1>4, <1>5, <1>6

LEMMA SessionQuiet ==
  ASSUME SessionTypeOK, LoggedOutIsQuiet,
         TabStep \/ TabReloads \/ Forward \/ Crash \/ Start \/ UNCHANGED sessionVars
  PROVE  LoggedOutIsQuiet'
<1> USE DEF LoggedOutIsQuiet
<1>1. CASE TabStep
  BY <1>1 DEF TabStep, InitAuth, InitAuthOk, InitAuthFails, performLogin, handleMfaSubmit,
     handleBackToCredentials, LoginAccepted, LoginChallenged, LoginRejected, FinalizeAuth,
     FinalizeAuthFails, Logout, LogoutDone, Expire, OtherTab, StreamSSE, OnOpen, OnError,
     ReconnectFires, HeartbeatExpires, connectSSE, OpenSource, disconnectSSE, CloseSource,
     tabVars, streamVars
<1>2. CASE TabReloads
  BY <1>2 DEF TabReloads, Unauthorized, UserReloads, OnAuthError, Reload, CloseSource
<1>3. CASE Forward \/ Crash \/ Start \/ UNCHANGED sessionVars
  BY <1>3 DEF Forward, Crash, Start, sessionVars, tabVars, streamVars
<1>4. QED  BY <1>1, <1>2, <1>3

-----------------------------------------------------------------------------
\* The steps of the session that change nothing of the panel or the tasks, and
\* record what they drop.
LEMMA SilentInv ==
  ASSUME LiveInv,
         TabStep \/ Forward \/ Crash \/ Start \/ UNCHANGED sessionVars,
         UNCHANGED <<panelVars, cleaned, early>>,
         TypeOK',
         missed \subseteq missed', Coming \ Coming' \subseteq missed',
         \A t \in Task : Over(t)' => Over(t) \/ t \in missed'
  PROVE  LiveInv'
<1> USE DEF LiveInv, TypeOK
<1>1. LoggedOutIsQuiet'
  BY SessionQuiet
<1>2. FinalsAccounted'
  BY DEF FinalsAccounted, panelVars
<1>3. FormInv'
  BY DEF FormInv, panelVars, restoreVars
<1>4. RestoreAccounted'
  BY DEF RestoreAccounted, panelVars, restoreVars
<1>5. QED  BY <1>1, <1>2, <1>3, <1>4

\* The steps of the server's tasks that broadcast.
LEMMA BroadcastInv ==
  ASSUME LiveInv, NEW t \in Task, NEW e \in Event, Broadcast(e),
         UNCHANGED <<entry, stopping, cleanups, restoreVars, missed, cleaned, early>>,
         TypeOK',
         \A u \in Task : Over(u)' => Over(u) \/ e = Ended(u)
  PROVE  LiveInv'
<1> USE DEF LiveInv, TypeOK
<1>1. /\ UNCHANGED <<authed, source, heartbeat, reconnect>> /\ Coming \subseteq Coming'
      /\ \A u \in Task : e = Ended(u) => u \in Coming'
  BY BroadcastKeeps
<1>2. LoggedOutIsQuiet'
  BY <1>1 DEF LoggedOutIsQuiet
<1>3. FinalsAccounted'
  BY <1>1 DEF FinalsAccounted
<1>4. FormInv'
  BY DEF FormInv, restoreVars
<1>5. RestoreAccounted'
  BY <1>1 DEF RestoreAccounted, restoreVars
<1>6. QED  BY <1>2, <1>3, <1>4, <1>5

\* A final event leaves a timer, and ends the form's wait or comes too early
\* for it.
LEMMA DeliverInv ==
  ASSUME LiveInv, NEW t \in Task, NEW kind \in {"active", "ended"}, Deliver(t, kind), TypeOK'
  PROVE  LiveInv'
<1> USE DEF LiveInv, TypeOK
<1>1. /\ wire \in Seq(Event) /\ wire # <<>> /\ Head(wire) = [task |-> t, kind |-> kind]
      /\ wire' = Tail(wire) /\ notifier' = notifier
      /\ UNCHANGED <<source, authed, reconnect, run, missed, cleaned>> /\ source = "open"
      /\ early' = (early \/ (kind = "ended" /\ restoreId = t))
      /\ handleProgressEvent(t, kind)
  BY DEF Deliver, Receive, SessionTypeOK, taskVars, tabVars, serverVars
<1>2. \A u \in Task : u \in Coming => u \in Coming' \/ (u = t /\ kind = "ended")
  <2>1. ToSet(wire) \subseteq ToSet(wire') \cup {Head(wire)}
    BY <1>1, TailLeaves
  <2>2. \A u \in Task : Ended(u) = Head(wire) => u = t /\ kind = "ended"
    BY <1>1 DEF Ended
  <2>3. QED  BY <1>1, <2>1, <2>2, ComingIs
<1>3. UNCHANGED <<restoreCall, restoreId>>
  BY <1>1 DEF handleProgressEvent
<1>4. /\ cleanups \in [Task -> Nat] /\ cleanups' \in [Task -> Nat]
      /\ \A u \in Task : cleanups'[u] >= cleanups[u]
      /\ kind = "ended" => cleanups'[t] > 0
  <2>1. cleanups \in [Task -> Nat] /\ cleanups' \in [Task -> Nat]
    BY DEF PanelTypeOK
  <2>2. CASE kind = "ended"
    <3>1. cleanups' = [cleanups EXCEPT ![t] = cleanups[t] + 1]
      BY <1>1, <2>2 DEF handleProgressEvent
    <3>2. \A u \in Task : cleanups[u] \in Nat /\ cleanups'[u] = IF u = t THEN cleanups[t] + 1 ELSE cleanups[u]
      BY <2>1, <3>1
    <3>3. QED  BY <2>1, <3>2
  <2>3. CASE kind # "ended"
    <3>1. cleanups' = cleanups
      BY <1>1, <2>3 DEF handleProgressEvent
    <3>2. \A u \in Task : cleanups[u] \in Nat
      BY <2>1
    <3>3. QED  BY <2>1, <2>3, <3>1, <3>2
  <2>4. QED  BY <2>2, <2>3
<1>5. CASE kind = "ended" /\ awaited = t
  <2>1. restoring' = FALSE /\ awaited' = NoTask
    BY <1>1, <1>5 DEF handleProgressEvent, handleComplete
  <2>2. FormInv' /\ RestoreAccounted'
    BY <1>3, <1>5, <2>1, NoTaskAssumption DEF FormInv, RestoreAccounted
  <2>3. LoggedOutIsQuiet' /\ FinalsAccounted'
    BY <1>1, <1>2, <1>4 DEF LoggedOutIsQuiet, FinalsAccounted, Over
  <2>4. QED  BY <2>2, <2>3
<1>6. CASE ~(kind = "ended" /\ awaited = t)
  <2>1. restoring' = restoring /\ awaited' = awaited
    BY <1>1, <1>6 DEF handleProgressEvent, handleComplete, PanelTypeOK
  <2>2. FormInv'
    BY <1>3, <2>1 DEF FormInv
  <2>3. RestoreAccounted'
    BY <1>1, <1>2, <1>3, <1>6, <2>1 DEF RestoreAccounted, Over
  <2>4. LoggedOutIsQuiet' /\ FinalsAccounted'
    BY <1>1, <1>2, <1>4 DEF LoggedOutIsQuiet, FinalsAccounted, Over
  <2>5. QED  BY <2>2, <2>3, <2>4
<1>7. QED  BY <1>5, <1>6

\* A timer that fires is recorded; the form never waits for a task without
\* having asked for it.
LEMMA PanelInv ==
  ASSUME LiveInv, PanelActs, TypeOK'
  PROVE  LiveInv'
<1> USE DEF LiveInv, TypeOK
<1>1. UNCHANGED <<sessionVars, run, missed, early>> /\ Coming' = Coming
  BY DEF PanelActs, taskVars, sessionVars, serverVars, streamVars, Coming, FinalsIn
<1>2. LoggedOutIsQuiet'
  BY <1>1 DEF LoggedOutIsQuiet, sessionVars, tabVars, streamVars
<1>3. FinalsAccounted'
  <2>1. \A t \in Task : cleanups'[t] > 0 \/ cleanups[t] = 0 \/ t \in cleaned'
    BY DEF PanelActs, PanelTypeOK
  <2>2. QED  BY <1>1, <2>1 DEF FinalsAccounted, Over, PanelActs
<1>4. FormInv' /\ RestoreAccounted'
  <2>1. CASE UNCHANGED <<restoring, awaited, restoreCall, restoreId>>
    BY <1>1, <2>1 DEF FormInv, RestoreAccounted, Over
  <2>2. CASE handleRestore \/ RestoreAnswered \/ RestoreFailed \/ ReopenSettings
    <3>1. FormInv'
      BY <2>2 DEF FormInv, handleRestore, RestoreAnswered, RestoreFailed, ReopenSettings
    <3>2. CASE handleRestore
      BY <1>1, <3>1, <3>2, NoTaskAssumption DEF handleRestore, FormInv, RestoreAccounted
    <3>3. CASE RestoreAnswered
      BY <1>1, <3>1, <3>3 DEF RestoreAnswered, RestoreAccounted, Over
    <3>4. CASE RestoreFailed \/ ReopenSettings
      BY <3>1, <3>4 DEF RestoreFailed, ReopenSettings, RestoreAccounted
    <3>5. QED  BY <2>2, <3>2, <3>3, <3>4
  <2>3. QED
    BY <2>1, <2>2 DEF PanelActs, PanelStep, removeTask, stopTask, StopAnswered, StopFailed, restoreVars
<1>5. QED  BY <1>2, <1>3, <1>4

LEMMA RestoreInv ==
  ASSUME LiveInv, NEW t \in Task, RestoreWebDAVBackup(t), TypeOK'
  PROVE  LiveInv'
<1> USE DEF LiveInv, TypeOK
<1>1. /\ Broadcast(Active(t)) /\ run[t] = "none" /\ run' = [run EXCEPT ![t] = "running"]
      /\ restoreCall = "sent" /\ restoreCall' = "done" /\ restoreId' = t
      /\ UNCHANGED <<cleanups, restoring, awaited, missed, cleaned>>
  BY DEF RestoreWebDAVBackup, CreateTask, SetRun
<1>2. /\ UNCHANGED <<authed, source, heartbeat, reconnect>> /\ Coming \subseteq Coming'
  BY <1>1, BroadcastKeeps, EventTypes
<1>3. LoggedOutIsQuiet'
  BY <1>2 DEF LoggedOutIsQuiet
<1>4. FinalsAccounted'
  BY <1>1, <1>2 DEF FinalsAccounted, Over
<1>5. awaited = NoTask /\ FormInv'
  BY <1>1 DEF FormInv
<1>6. RestoreAccounted'
  BY <1>1, <1>5, NoTaskAssumption DEF RestoreAccounted, Over
<1>7. QED  BY <1>3, <1>4, <1>5, <1>6

LEMMA ReloadInv ==
  ASSUME LiveInv, TabLoadsAgain, TypeOK'
  PROVE  LiveInv'
<1> USE DEF LiveInv, TypeOK
<1>1. LoggedOutIsQuiet'
  BY SessionQuiet DEF TabLoadsAgain
<1>2. FinalsAccounted' /\ FormInv' /\ RestoreAccounted'
  BY DEF TabLoadsAgain, PanelReloads, FinalsAccounted, FormInv, RestoreAccounted, Over, taskVars
<1>3. QED  BY <1>1, <1>2

-----------------------------------------------------------------------------
LEMMA PanelTypes ==
  ASSUME PanelTypeOK, PanelStep
  PROVE  PanelTypeOK'
<1> USE DEF PanelTypeOK
<1>1. ASSUME NEW t \in Task, removeTask(t) PROVE PanelTypeOK'
  <2>1. cleanups' \in [Task -> Nat]
    BY <1>1 DEF removeTask
  <2>2. QED  BY <1>1, <2>1 DEF removeTask, restoreVars
<1>2. ASSUME NEW t \in Task, stopTask(t) \/ StopAnswered(t) \/ StopFailed(t) PROVE PanelTypeOK'
  BY <1>2 DEF stopTask, StopAnswered, StopFailed, updateTask, restoreVars
<1>3. CASE handleRestore \/ RestoreAnswered \/ RestoreFailed \/ ReopenSettings
  BY <1>3 DEF handleRestore, RestoreAnswered, RestoreFailed, ReopenSettings
<1>4. QED  BY <1>1, <1>2, <1>3 DEF PanelStep

LEMMA EventPanelTypes ==
  ASSUME PanelTypeOK, NEW t \in Task, NEW kind \in {"active", "ended"}, handleProgressEvent(t, kind)
  PROVE  PanelTypeOK'
<1> USE DEF PanelTypeOK, handleProgressEvent
<1>1. entry' \in [Task -> {"absent", "active", "cancelling", "ended"}]
  BY DEF updateTask
<1>2. restoring' \in BOOLEAN /\ awaited' \in Task \cup {NoTask}
  BY DEF handleComplete
<1>3. cleanups' \in [Task -> Nat]
  BY DEF handleComplete
<1>4. QED  BY <1>1, <1>2, <1>3

LEMMA ReloadPanelTypes ==
  ASSUME PanelReloads
  PROVE  PanelTypeOK'
BY DEF PanelTypeOK, PanelReloads

\* The server's own variables.
TasksTypeOK ==
  /\ run \in [Task -> {"none", "running", "ending", "gone", "lost"}]
  /\ ends \in [Task -> 0 .. MaxEnds] /\ restores \subseteq Task

LEMMA EndsTypes ==
  ASSUME TasksTypeOK, NEW t \in Task, Ends(t)
  PROVE  TasksTypeOK'
BY EventAssumption DEF TasksTypeOK, Ends, SetRun

LEMMA NextInv == LiveInv /\ [Next]_vars => LiveInv'
<1> SUFFICES ASSUME LiveInv, [Next]_vars PROVE LiveInv'
  OBVIOUS
<1>1. SessionTypeOK /\ PanelTypeOK /\ TasksTypeOK
  BY DEF LiveInv, TypeOK, TasksTypeOK
<1>2. ASSUME NEW t \in Task, StartTask(t) PROVE LiveInv'
  <2>1. SessionTypeOK' /\ UNCHANGED <<panelVars, missed, cleaned, early>>
    BY <1>1, <1>2, BroadcastKeeps, EventTypes DEF StartTask, CreateTask, history
  <2>2. TypeOK'
    BY <1>1, <1>2, <2>1 DEF TypeOK, LiveInv, StartTask, CreateTask, SetRun, TasksTypeOK, PanelTypeOK,
       panelVars, restoreVars
  <2>3. QED
    BY <1>1, <1>2, <2>1, <2>2, BroadcastInv, EventTypes
       DEF StartTask, CreateTask, SetRun, TasksTypeOK, Over, panelVars
<1>3. ASSUME NEW t \in Task, RestoreWebDAVBackup(t) PROVE LiveInv'
  <2>1. SessionTypeOK'
    BY <1>1, <1>3, BroadcastKeeps, EventTypes DEF RestoreWebDAVBackup, CreateTask
  <2>2. PanelTypeOK'
    BY <1>1, <1>3 DEF RestoreWebDAVBackup, PanelTypeOK
  <2>3. TypeOK'
    BY <1>1, <1>3, <2>1, <2>2 DEF TypeOK, LiveInv, RestoreWebDAVBackup, CreateTask, SetRun, TasksTypeOK
  <2>4. QED  BY <1>3, <2>3, RestoreInv
<1>4. ASSUME NEW t \in Task, UpdateProgress(t) PROVE LiveInv'
  <2>1. SessionTypeOK' /\ UNCHANGED <<panelVars, taskVars, missed, cleaned, early>>
    BY <1>1, <1>4, BroadcastKeeps, EventTypes DEF UpdateProgress, history
  <2>2. TypeOK'
    BY <1>1, <2>1 DEF TypeOK, LiveInv, TasksTypeOK, PanelTypeOK, panelVars, restoreVars, taskVars
  <2>3. QED
    BY <1>4, <2>1, <2>2, BroadcastInv, EventTypes DEF UpdateProgress, Over, panelVars, taskVars
<1>5. ASSUME NEW t \in Task, EndTask(t) PROVE LiveInv'
  <2>1. SessionTypeOK' /\ UNCHANGED <<panelVars, missed, cleaned, early>> /\ TasksTypeOK'
    BY <1>1, <1>5, BroadcastKeeps, EventTypes, EndsTypes DEF EndTask, history
  <2>2. TypeOK'
    BY <1>1, <2>1 DEF TypeOK, LiveInv, TasksTypeOK, PanelTypeOK, panelVars, restoreVars
  <2>3. QED
    BY <1>1, <1>5, <2>1, <2>2, BroadcastInv, EventTypes
       DEF EndTask, Ends, SetRun, TasksTypeOK, Over, panelVars
<1>6. ASSUME NEW t \in Task, CancelTask(t) PROVE LiveInv'
  <2>1. PanelTypeOK' /\ UNCHANGED <<entry, stopping, cleanups, restoreVars, missed, cleaned, early>>
    BY <1>1, <1>6 DEF CancelTask, PanelTypeOK, restoreVars, history
  <2>2. CASE Ends(t) /\ Broadcast(Ended(t))
    <3>1. SessionTypeOK' /\ TasksTypeOK'
      BY <1>1, <2>2, BroadcastKeeps, EventTypes, EndsTypes
    <3>2. TypeOK'
      BY <2>1, <3>1 DEF TypeOK, LiveInv, TasksTypeOK
    <3>3. QED
      BY <1>1, <2>1, <2>2, <3>2, BroadcastInv, EventTypes DEF Ends, SetRun, TasksTypeOK, Over
  <2>3. CASE UNCHANGED <<sessionVars, taskVars>>
    <3>1. SessionTypeOK' /\ LoggedOutIsQuiet' /\ Coming' = Coming /\ UNCHANGED <<run, ends, restores>>
      BY <1>1, <2>3, SessionTypes, SessionQuiet
         DEF LiveInv, sessionVars, serverVars, streamVars, taskVars, Coming, FinalsIn
    <3>2. TypeOK'
      BY <1>1, <2>1, <3>1 DEF TypeOK, LiveInv, TasksTypeOK
    <3>3. QED
      BY <2>1, <3>1, <3>2
         DEF LiveInv, FinalsAccounted, FormInv, RestoreAccounted, Over, restoreVars
  <2>4. QED  BY <1>6, <2>2, <2>3 DEF CancelTask
<1>7. ASSUME NEW t \in Task, NEW kind \in {"active", "ended"}, Deliver(t, kind) PROVE LiveInv'
  <2>1. SessionTypeOK'
    <3>1. wire \in Seq(Event) /\ wire # <<>> /\ Len(wire) <= WireCap /\ wire' = Tail(wire)
      BY <1>1, <1>7 DEF Deliver, Receive, SessionTypeOK
    <3>2. wire' \in Seq(Event) /\ Len(wire') <= WireCap
      BY <3>1, HeadTailProperties, LenProperties, StreamAssumption
    <3>3. QED  BY <1>1, <1>7, <3>2 DEF Deliver, Receive, SessionTypeOK, tabVars, serverVars
  <2>2. PanelTypeOK'
    BY <1>1, <1>7, EventPanelTypes DEF Deliver
  <2>3. TypeOK'
    BY <1>7, <2>1, <2>2 DEF TypeOK, LiveInv, Deliver, taskVars
  <2>4. QED  BY <1>7, <2>3, DeliverInv
<1>8. CASE PanelActs
  <2>1. SessionTypeOK' /\ PanelTypeOK'
    BY <1>1, <1>8, SessionTypes, PanelTypes DEF PanelActs
  <2>2. TypeOK'
    BY <1>8, <2>1 DEF TypeOK, LiveInv, PanelActs, taskVars
  <2>3. QED  BY <1>8, <2>2, PanelInv
<1>9. CASE TabLoadsAgain
  <2>1. SessionTypeOK' /\ PanelTypeOK'
    BY <1>1, <1>9, SessionTypes, ReloadPanelTypes DEF TabLoadsAgain
  <2>2. TypeOK'
    BY <1>9, <2>1 DEF TypeOK, LiveInv, TabLoadsAgain, taskVars
  <2>3. QED  BY <1>9, <2>2, ReloadInv
<1>10. CASE TabActs \/ Listen \/ ServerCrash \/ ServerStart \/ UNCHANGED vars
  <2>1. /\ TabStep \/ Forward \/ Crash \/ Start \/ UNCHANGED sessionVars
        /\ UNCHANGED <<panelVars, ends, restores, cleaned, early>>
    BY <1>10 DEF TabActs, Listen, ServerCrash, ServerStart, vars, taskVars, history
  <2>2. SessionTypeOK' /\ PanelTypeOK'
    BY <1>1, <2>1, SessionTypes DEF PanelTypeOK, panelVars, restoreVars
  <2>3. /\ \A t \in Task : Over(t)' => Over(t) \/ t \in missed'
        /\ missed \subseteq missed' /\ missed' \subseteq Task /\ TasksTypeOK'
    <3>1. CASE ServerCrash
      BY <1>1, <3>1 DEF ServerCrash, NoteDrops, Over, TasksTypeOK, LiveInv, TypeOK, Coming, FinalsIn
    <3>2. CASE TabActs \/ Listen
      BY <1>1, <3>2 DEF TabActs, Listen, taskVars, NoteDrops, Over, TasksTypeOK, LiveInv, TypeOK, Coming,
         FinalsIn
    <3>3. CASE ServerStart \/ UNCHANGED vars
      BY <1>1, <3>3 DEF ServerStart, vars, taskVars, history, Over, TasksTypeOK, LiveInv, TypeOK
    <3>4. QED  BY <1>10, <3>1, <3>2, <3>3
  <2>4. Coming \ Coming' \subseteq missed'
    <3>1. CASE TabActs \/ Listen \/ ServerCrash
      BY <3>1, ComingIs DEF TabActs, Listen, ServerCrash, NoteDrops
    <3>2. CASE ServerStart \/ UNCHANGED vars
      <4>1. UNCHANGED <<notifier, wire>>
        BY <3>2 DEF ServerStart, Start, vars, sessionVars, serverVars, streamVars
      <4>2. QED  BY <4>1 DEF Coming, FinalsIn
    <3>3. QED  BY <1>10, <3>1, <3>2
  <2>5. TypeOK'
    BY <2>1, <2>2, <2>3 DEF TypeOK, LiveInv, TasksTypeOK
  <2>6. QED  BY <2>1, <2>3, <2>4, <2>5, SilentInv
<1>11. ASSUME NEW t \in Task, RemoveRunning(t) PROVE LiveInv'
  <2>1. /\ UNCHANGED <<sessionVars, panelVars, ends, restores, missed, cleaned, early>>
        /\ run[t] = "ending" /\ run' = [run EXCEPT ![t] = "gone"]
    BY <1>11 DEF RemoveRunning, SetRun, history
  <2>2. SessionTypeOK' /\ PanelTypeOK' /\ TasksTypeOK'
    BY <1>1, <2>1, SessionTypes DEF PanelTypeOK, panelVars, restoreVars, TasksTypeOK
  <2>3. TypeOK'
    BY <2>1, <2>2 DEF TypeOK, LiveInv, TasksTypeOK
  <2>4. Coming' = Coming /\ \A u \in Task : Over(u)' => Over(u)
    BY <1>1, <2>1 DEF Coming, FinalsIn, sessionVars, serverVars, streamVars, Over, TasksTypeOK
  <2>5. QED  BY <2>1, <2>3, <2>4, SilentInv
<1>12. QED
  BY <1>2, <1>3, <1>4, <1>5, <1>6, <1>7, <1>8, <1>9, <1>10, <1>11 DEF Next

LEMMA InitInv == Init => LiveInv
<1> SUFFICES ASSUME Init PROVE LiveInv
  OBVIOUS
<1>1. SessionTypeOK
  <2>1. <<>> \in Seq(Event) /\ Len(<<>>) = 0 /\ 0 \in 0 .. MaxRestarts
    BY StreamAssumption
  <2>2. /\ notifier \in Seq(Event) /\ Len(notifier) <= NotifierCap
        /\ wire \in Seq(Event) /\ Len(wire) <= WireCap
    BY <2>1, StreamAssumption DEF Init, SessionInit
  <2>3. QED  BY <2>1, <2>2 DEF Init, SessionInit, SessionTypeOK, Token
<1>2. PanelTypeOK
  BY DEF Init, PanelEmpty, PanelTypeOK
<1>3. TypeOK
  <2>1. ends \in [Task -> 0 .. MaxEnds]
    BY EventAssumption DEF Init
  <2>2. run \in [Task -> {"none", "running", "ending", "gone", "lost"}]
    BY DEF Init
  <2>3. QED  BY <1>1, <1>2, <2>1, <2>2 DEF Init, TypeOK
<1>4. LoggedOutIsQuiet /\ FinalsAccounted /\ FormInv /\ RestoreAccounted
  BY DEF Init, SessionInit, PanelEmpty, LoggedOutIsQuiet, FinalsAccounted, FormInv,
     RestoreAccounted, Over
<1>5. QED  BY <1>3, <1>4 DEF LiveInv

-----------------------------------------------------------------------------
\* The strengthened invariant holds in every state, after any restarts,
\* reconnections and reloads.
THEOREM LiveInvariance == Spec => []LiveInv
<1>1. QED  BY InitInv, NextInv, PTL DEF Spec

\* Every variable of tab, panel, broker and tasks has its type: no buffer holds
\* more than its room.
THEOREM LiveTypeCorrect == Spec => []TypeOK
<1>1. LiveInv => TypeOK
  BY DEF LiveInv
<1>2. QED  BY <1>1, LiveInvariance, PTL

\* No order of logouts, refused tokens, challenges, errors and timers leaves a
\* stream or a timer behind in a tab nobody is signed in to.
THEOREM QuietAfterLogout == Spec => []LoggedOutIsQuiet
<1>1. LiveInv => LoggedOutIsQuiet
  BY DEF LiveInv
<1>2. QED  BY <1>1, LiveInvariance, PTL

\* An entry of the panel is left behind only by a dropped final event or by
\* something that comes after the timer.
THEOREM StaleEntries == Spec => []StaleEntryHasACause
<1>1. LiveInv => StaleEntryHasACause
  BY DEF LiveInv, FinalsAccounted, StaleEntryHasACause
<1>2. QED  BY <1>1, LiveInvariance, PTL

\* The restore form waits for ever only for an event that was dropped or that
\* came before the answer.
THEOREM StuckRestores == Spec => []StuckRestoreHasACause
<1>1. LiveInv => StuckRestoreHasACause
  BY DEF LiveInv, RestoreAccounted, StuckRestoreHasACause
<1>2. QED  BY <1>1, LiveInvariance, PTL

-----------------------------------------------------------------------------
\* The node list.  At most one request is current; its answer is no older than
\* what is shown, what it asks for is what the controls say unless a timer will
\* ask again, and with none under way the same holds of what is shown.
NodesInv ==
  /\ NodesTypeOK
  /\ heard <= version /\ shown.version <= version
  /\ \A i \in Current :
       /\ \A j \in Current : i = j
       /\ requests[i].answer = 0 \/ requests[i].answer - 1 \in shown.version .. version
       /\ ~reloadTimer => requests[i].answer = 0 \/ requests[i].answer - 1 >= heard
       /\ ~debounce /\ ~stale => requests[i].query = getCurrentFilters
  /\ Current = {} /\ ~failed /\ shown.query # NoQuery =>
       /\ ~reloadTimer => shown.version >= heard
       /\ ~debounce /\ ~stale => shown.query = getCurrentFilters
  /\ Current = {} /\ ~failed /\ shown.query = NoQuery => pageNo = 0

-----------------------------------------------------------------------------
LEMMA RequestFacts ==
  /\ \A r \in Request : r.state \in {"current", "outdated"} /\ r # Free
                        /\ r.query \in Query /\ r.answer \in 0 .. MaxVersion + 1
  /\ \A r \in Request : [r EXCEPT !.state = "outdated"] \in Request
                        /\ [r EXCEPT !.state = "outdated"].state = "outdated"
  /\ \A q \in Query, n \in 0 .. MaxVersion + 1 :
       [state |-> "current", query |-> q, answer |-> n] \in Request
  /\ Free.state = "free" /\ Free \notin Request
  /\ NoQuery \notin Query
  /\ \A f \in Filter, p \in {0, 1} : <<f, p>> \in Query
BY DEF Request, Free, Query, NoQuery

\* A fetch leaves one current request, which has no answer yet.
LEMMA FetchOne ==
  ASSUME NodesTypeOK, NEW q \in Query, fetchNodes(q)
  PROVE  /\ requests' \in [Slot -> Request \cup {Free}]
         /\ \E i \in Slot : /\ Current' = {i}
                            /\ requests'[i].query = q /\ requests'[i].answer = 0
<1> DEFINE new == [state |-> "current", query |-> q, answer |-> 0]
<1>1. new \in Request /\ new.state = "current" /\ new.query = q /\ new.answer = 0
  BY RequestFacts, NodesAssumption
<1>2. PICK i \in Slot :
        requests' = [j \in Slot |->
           IF j = i THEN new
           ELSE IF j \in Current THEN [requests[j] EXCEPT !.state = "outdated"]
           ELSE requests[j]]
  BY DEF fetchNodes
<1> HIDE DEF new
<1>3. \A j \in Slot : requests[j] \in Request \/ requests[j] = Free
  BY DEF NodesTypeOK
<1>4. \A j \in Current : requests[j] \in Request
  BY <1>3, RequestFacts DEF Current
<1>5. requests' \in [Slot -> Request \cup {Free}]
  BY <1>1, <1>2, <1>3, <1>4, RequestFacts
<1>6. \A j \in Slot : requests'[j].state = "current" <=> j = i
  BY <1>1, <1>2, <1>4, RequestFacts DEF Current
<1>7. Current' = {i}
  BY <1>6 DEF Current
<1>8. QED  BY <1>1, <1>2, <1>5, <1>7

\* The steps that ask for the list as the controls will say.
LEMMA AskInv ==
  ASSUME NodesInv, NEW q \in Query, fetchNodes(q), NotAsked,
         version' \in {version, version + 1} \cap 0 .. MaxVersion,
         filter' \in Filter, pageNo' \in {0, 1}, debounce' \in BOOLEAN, reloadTimer' \in BOOLEAN,
         batch' \in Query \cup {NoQuery}, stale' \in BOOLEAN,
         stale' \/ debounce' \/ q = getCurrentFilters'
  PROVE  NodesInv'
<1>1. requests' \in [Slot -> Request \cup {Free}]
  BY FetchOne DEF NodesInv
<1>2. PICK i \in Slot : /\ Current' = {i}
                        /\ requests'[i].query = q /\ requests'[i].answer = 0
  BY FetchOne DEF NodesInv
<1>3. UNCHANGED <<shown, failed, heard>> /\ version' >= version /\ version' \in 0 .. MaxVersion
  BY NodesAssumption DEF NodesInv, NodesTypeOK, NotAsked
<1>4. NodesTypeOK'
  BY <1>1, <1>3 DEF NodesInv, NodesTypeOK
<1>5. heard' <= version' /\ shown'.version <= version'
  BY <1>3, NodesAssumption DEF NodesInv, NodesTypeOK
<1>6. QED  BY <1>2, <1>4, <1>5 DEF NodesInv

\* The steps that ask for nothing and show nothing.
LEMMA IdleInv ==
  ASSUME NodesInv, UNCHANGED <<requests, pageNo, shown, failed>>,
         version' \in 0 .. MaxVersion, version' >= version,
         heard' \in 0 .. MaxVersion, heard' <= version',
         (heard' = heard /\ reloadTimer' = reloadTimer) \/ reloadTimer' = TRUE,
         (filter' = filter /\ debounce' = debounce) \/ (filter' \in Filter /\ debounce' = TRUE),
         stale' = stale, batch' \in Query \cup {NoQuery}
  PROVE  NodesInv'
<1> USE DEF NodesInv
<1>1. NodesTypeOK'
  BY DEF NodesTypeOK
<1>2. Current' = Current
  BY DEF Current
<1>3. heard' <= version' /\ shown'.version <= version'
  BY NodesAssumption DEF NodesTypeOK
<1>4. ASSUME NEW i \in Current'
      PROVE  /\ requests'[i].answer = 0 \/ requests'[i].answer - 1 \in shown'.version .. version'
             /\ ~reloadTimer' => requests'[i].answer = 0 \/ requests'[i].answer - 1 >= heard'
             /\ ~debounce' /\ ~stale' => requests'[i].query = getCurrentFilters'
  <2>1. requests[i] \in Request /\ requests[i].answer \in Int
    BY <1>2, <1>4, RequestFacts, NodesAssumption DEF NodesTypeOK, Current
  <2>2. QED  BY <1>2, <1>4, <2>1, NodesAssumption DEF NodesTypeOK, getCurrentFilters
<1>5. QED  BY <1>1, <1>2, <1>3, <1>4 DEF getCurrentFilters

\* An answer or a failure frees its slot.
LEMMA FreeSlot ==
  ASSUME NodesTypeOK, NEW i \in Slot, requests[i] # Free,
         requests' = [requests EXCEPT ![i] = Free]
  PROVE  /\ requests' \in [Slot -> Request \cup {Free}]
         /\ Current' = Current \ {i}
         /\ \A j \in Current' : requests'[j] = requests[j]
         /\ requests[i] \in Request /\ requests[i].query \in Query
         /\ requests[i].answer \in 0 .. MaxVersion + 1
BY RequestFacts DEF NodesTypeOK, Current

LEMMA NodesStep ==
  ASSUME NodesInv, NodesNext
  PROVE  NodesInv'
<1> USE DEF NodesInv
<1>1. filter \in Filter /\ pageNo \in {0, 1} /\ version \in 0 .. MaxVersion /\ heard \in 0 .. MaxVersion
      /\ {debounce, failed, reloadTimer, stale} \subseteq BOOLEAN
      /\ batch \in Query \cup {NoQuery} /\ shown.version \in 0 .. MaxVersion
  BY DEF NodesTypeOK
<1>2. getCurrentFilters \in Query /\ \A p \in {0, 1} : <<filter, p>> \in Query
  BY <1>1, RequestFacts DEF getCurrentFilters
<1>3. version \in {version, version + 1} \cap 0 .. MaxVersion
  BY <1>1
<1>4. CASE InitialLoad
  BY <1>1, <1>2, <1>3, <1>4, AskInv DEF InitialLoad, getCurrentFilters
<1>5. CASE DebounceFires
  BY <1>1, <1>2, <1>3, <1>5, AskInv DEF DebounceFires, getCurrentFilters
<1>6. CASE handleRefresh
  BY <1>1, <1>2, <1>3, <1>6, AskInv DEF handleRefresh, getCurrentFilters
<1>7. CASE RefreshFires
  BY <1>1, <1>2, <1>3, <1>7, AskInv DEF RefreshFires, getCurrentFilters
<1>8. CASE BatchDone
  BY <1>1, <1>2, <1>8, AskInv DEF BatchDone
<1>9. ASSUME NEW p \in {0, 1}, onPageChange(p) PROVE NodesInv'
  BY <1>1, <1>2, <1>3, <1>9, AskInv DEF onPageChange, getCurrentFilters
<1>10. CASE TaskWrites
  <2>1. version' \in 0 .. MaxVersion /\ version' >= version /\ heard <= version'
    BY <1>1, <1>10, NodesAssumption DEF TaskWrites
  <2>2. QED  BY <1>1, <1>10, <2>1, IdleInv DEF TaskWrites, NotAsked
<1>11. CASE onTaskComplete
  <2>1. heard' \in 0 .. MaxVersion /\ heard' <= version' /\ version' \in 0 .. MaxVersion
        /\ version' >= version /\ reloadTimer' = TRUE
    BY <1>1, <1>11, NodesAssumption DEF onTaskComplete
  <2>2. QED  BY <1>1, <1>11, <2>1, IdleInv DEF onTaskComplete
<1>12. CASE SubmitBatch \/ BatchFails
  <2>1. /\ UNCHANGED <<version, filter, pageNo, debounce, requests, shown, failed, reloadTimer, heard, stale>>
        /\ batch' \in Query \cup {NoQuery}
    BY <1>1, <1>2, <1>12 DEF SubmitBatch, BatchFails, NotAsked
  <2>2. version' >= version /\ heard' <= version'
    BY <1>1, <2>1
  <2>3. QED  BY <1>1, <2>1, <2>2, IdleInv
<1>13. ASSUME NEW f \in Filter, ChangeFilter(f) PROVE NodesInv'
  BY <1>1, <1>13, IdleInv DEF ChangeFilter, NotAsked
<1>14. ASSUME NEW i \in Slot, GetNodes(i) PROVE NodesInv'
  <2>1. /\ requests[i] \in Request /\ requests[i].answer = 0
        /\ requests' = [requests EXCEPT ![i].answer = version + 1]
        /\ UNCHANGED <<version, filter, pageNo, debounce, shown, failed, reloadTimer, heard, batch, stale>>
    BY <1>14 DEF GetNodes, NodesTypeOK, NotAsked
  <2>2. /\ [requests[i] EXCEPT !.answer = version + 1] \in Request
        /\ [requests[i] EXCEPT !.answer = version + 1].state = requests[i].state
        /\ [requests[i] EXCEPT !.answer = version + 1].query = requests[i].query
        /\ [requests[i] EXCEPT !.answer = version + 1].answer = version + 1
    BY <1>1, <2>1, NodesAssumption DEF Request
  <2>3. NodesTypeOK'
    BY <2>1, <2>2 DEF NodesTypeOK
  <2>4. /\ \A j \in Slot : requests'[j].state = requests[j].state /\ requests'[j].query = requests[j].query
        /\ \A j \in Slot : requests'[j].answer = IF j = i THEN version + 1 ELSE requests[j].answer
    BY <2>1, <2>2 DEF NodesTypeOK
  <2>5. Current' = Current
    BY <2>4 DEF Current
  <2>6. ASSUME NEW j \in Current
        PROVE  /\ requests'[j].answer = 0 \/ requests'[j].answer - 1 \in shown.version .. version
               /\ ~reloadTimer => requests'[j].answer = 0 \/ requests'[j].answer - 1 >= heard
               /\ ~debounce /\ ~stale => requests'[j].query = getCurrentFilters
    <3>1. j \in Slot
      BY DEF Current
    <3>2. QED  BY <1>1, <2>4, <3>1, NodesAssumption
  <2>7. QED  BY <2>1, <2>3, <2>5, <2>6 DEF getCurrentFilters
<1>15. ASSUME NEW i \in Slot, FetchAnswered(i) PROVE NodesInv'
  <2>1. /\ requests[i] # Free /\ requests[i].answer > 0 /\ requests' = [requests EXCEPT ![i] = Free]
        /\ UNCHANGED <<version, filter, pageNo, debounce, reloadTimer, heard, batch, stale>>
    BY <1>15 DEF FetchAnswered
  <2>0. /\ requests' \in [Slot -> Request \cup {Free}] /\ Current' = Current \ {i}
        /\ \A j \in Current' : requests'[j] = requests[j]
        /\ requests[i].query \in Query /\ requests[i].answer \in 0 .. MaxVersion + 1
    BY <2>1, FreeSlot
  <2>2. CASE i \in Current
    <3>1. shown' = [query |-> requests[i].query, version |-> requests[i].answer - 1] /\ failed' = FALSE
      BY <1>15, <2>2 DEF FetchAnswered
    <3>2. requests[i].query \in Query /\ requests[i].answer - 1 \in 0 .. MaxVersion
      BY <2>0, <2>1, NodesAssumption
    <3>3. Current' = {} /\ requests' \in [Slot -> Request \cup {Free}]
      BY <2>0, <2>2
    <3>4. NodesTypeOK'
      BY <2>1, <3>1, <3>2, <3>3 DEF NodesTypeOK
    <3>5. /\ shown'.version = requests[i].answer - 1 /\ shown'.query = requests[i].query
          /\ shown'.query # NoQuery
      BY <3>1, <3>2, RequestFacts
    <3>6. shown'.version <= version' /\ (~reloadTimer => shown'.version >= heard)
      <4>1. /\ requests[i].answer - 1 \in shown.version .. version
            /\ ~reloadTimer => requests[i].answer - 1 >= heard
        BY <2>1, <2>2
      <4>2. QED  BY <1>1, <2>1, <3>5, <4>1
    <3>7. ~debounce /\ ~stale => shown'.query = getCurrentFilters
      BY <2>2, <3>5
    <3>8. QED
      BY <2>1, <3>3, <3>4, <3>5, <3>6, <3>7 DEF getCurrentFilters
  <2>3. CASE i \notin Current
    <3>1. UNCHANGED <<shown, failed>>
      BY <1>15, <2>3 DEF FetchAnswered
    <3>2. Current' = Current /\ \A j \in Current : requests'[j] = requests[j]
      BY <2>0, <2>3
    <3>3. NodesTypeOK'
      BY <2>0, <2>1, <3>1 DEF NodesTypeOK
    <3>4. getCurrentFilters' = getCurrentFilters
      BY <2>1 DEF getCurrentFilters
    <3>5. \A j \in Current' : /\ j \in Current /\ requests'[j].answer = requests[j].answer
                               /\ requests'[j].query = requests[j].query
      BY <3>2
    <3>6. QED  BY <1>1, <2>1, <3>1, <3>2, <3>3, <3>4, <3>5
  <2>4. QED  BY <2>2, <2>3
<1>16. ASSUME NEW i \in Slot, FetchFails(i) PROVE NodesInv'
  <2>1. /\ requests[i] # Free /\ requests' = [requests EXCEPT ![i] = Free]
        /\ failed' = (failed \/ i \in Current)
        /\ UNCHANGED <<version, filter, pageNo, debounce, shown, reloadTimer, heard, batch, stale>>
    BY <1>16 DEF FetchFails
  <2>2. Current' = Current \ {i} /\ \A j \in Current' : requests'[j] = requests[j]
    BY <2>1, FreeSlot
  <2>3. NodesTypeOK'
    BY <2>1, FreeSlot DEF NodesTypeOK
  <2>4. QED  BY <2>1, <2>2, <2>3 DEF getCurrentFilters
<1>17. QED
  BY <1>4, <1>5, <1>6, <1>7, <1>8, <1>9, <1>10, <1>11, <1>12, <1>13, <1>14, <1>15, <1>16 DEF NodesNext

LEMMA NodesStart == NodesInit => NodesInv
<1> SUFFICES ASSUME NodesInit PROVE NodesInv
  OBVIOUS
<1>1. Current = {}
  BY RequestFacts DEF NodesInit, Current
<1>2. NodesTypeOK
  <2>1. requests \in [Slot -> Request \cup {Free}]
    BY DEF NodesInit
  <2>2. shown \in [query : Query \cup {NoQuery}, version : 0 .. MaxVersion]
    BY NodesAssumption DEF NodesInit
  <2>3. QED  BY <2>1, <2>2, NodesAssumption DEF NodesInit, NodesTypeOK
<1>3. QED  BY <1>1, <1>2 DEF NodesInit, NodesInv

-----------------------------------------------------------------------------
\* The jobs' list: nothing but its types.
LEMMA CheckStep ==
  ASSUME CheckTypeOK, CheckNext
  PROVE  CheckTypeOK'
<1> USE CheckPageAssumption DEF CheckTypeOK
<1>1. CASE RunStarted
  <2>1. loads' \in [LoadSlot -> {"free", "sent", "idle", "running"}] /\ reload' \in 0 .. MaxLoads
    BY <1>1 DEF RunStarted, StartLoad, LoadSlot
  <2>2. runs' \in 0 .. MaxRuns
    BY <1>1 DEF RunStarted
  <2>3. QED  BY <1>1, <2>1, <2>2 DEF RunStarted, StartLoad
<1>2. CASE Refresh \/ RunJob \/ RunRefused \/ PollFires
  BY <1>2 DEF Refresh, RunJob, RunRefused, PollFires, load, StartLoad
<1>3. CASE JobStarts
  <2>1. runs' \in 0 .. MaxRuns
    BY <1>3 DEF JobStarts
  <2>2. QED  BY <1>3, <2>1 DEF JobStarts
<1>4. CASE JobEnds
  BY <1>4 DEF JobEnds, load, StartLoad
<1>5. ASSUME NEW i \in LoadSlot, GetNodeCheckJobs(i) \/ LoadAnswered(i) \/ LoadFails(i)
      PROVE  CheckTypeOK'
  <2>1. busy' \in BOOLEAN /\ reload' \in 0 .. MaxLoads
    <3>1. (busy' = FALSE /\ reload' = 0) \/ UNCHANGED <<busy, reload>>
      BY <1>5 DEF GetNodeCheckJobs, LoadAnswered, LoadFails, ActionWaits
    <3>2. busy \in BOOLEAN /\ FALSE \in BOOLEAN
      OBVIOUS
    <3>3. 0 \in 0 .. MaxLoads
      OBVIOUS
    <3>4. busy' \in BOOLEAN
      BY <3>1, <3>2
    <3>5. QED  BY <3>1, <3>3, <3>4
  <2>2. loads' \in [LoadSlot -> {"free", "sent", "idle", "running"}]
    BY <1>5 DEF GetNodeCheckJobs, LoadAnswered, LoadFails
  <2>3. QED  BY <1>5, <2>1, <2>2 DEF GetNodeCheckJobs, LoadAnswered, LoadFails
<1>6. QED  BY <1>1, <1>2, <1>3, <1>4, <1>5 DEF CheckNext

LEMMA CheckStart == CheckInit => CheckTypeOK
<1> SUFFICES ASSUME CheckInit PROVE CheckTypeOK
  OBVIOUS
<1>1. loads \in [LoadSlot -> {"free", "sent", "idle", "running"}]
  BY DEF CheckInit
<1>2. runs \in 0 .. MaxRuns /\ reload \in 0 .. MaxLoads
  BY CheckPageAssumption DEF CheckInit
<1>3. {poll, loadError, busy} \subseteq BOOLEAN
  BY DEF CheckInit
<1>4. QED  BY <1>1, <1>2, <1>3 DEF CheckInit, CheckTypeOK

-----------------------------------------------------------------------------
\* The smart groups: a request whose answer will be shown is for the group of
\* the open dialog, and so are the members that are shown.
GroupsInv ==
  /\ GroupsTypeOK
  /\ \A i \in MemberSlot :
       memberReqs[i] # NoMembers /\ ~memberReqs[i].outdated =>
         view # NoGroup /\ memberReqs[i].group = view
  /\ view # NoGroup => members \in {NoGroup, view}

MemberReq == [state : {"free", "sent", "read"}, group : Group \cup {NoGroup},
              outdated : BOOLEAN, runs : BOOLEAN]

LEMMA OutdatedFacts ==
  ASSUME GroupsTypeOK
  PROVE  /\ Outdated \in [MemberSlot -> MemberReq]
         /\ \A i \in MemberSlot : Outdated[i] = NoMembers \/ Outdated[i].outdated
<1>1. \A i \in MemberSlot : memberReqs[i] \in MemberReq
  BY DEF GroupsTypeOK, MemberReq
<1>2. \A r \in MemberReq, b \in BOOLEAN : [r EXCEPT !.outdated = b] \in MemberReq
                                          /\ [r EXCEPT !.outdated = b].outdated = b
  BY DEF MemberReq
<1>3. [NoMembers EXCEPT !.outdated = FALSE] = NoMembers
  <2> DEFINE r == [NoMembers EXCEPT !.outdated = FALSE]
  <2>1. /\ r.state = "free" /\ r.group = NoGroup /\ r.outdated = FALSE /\ r.runs = FALSE
        /\ r \in MemberReq /\ NoMembers \in MemberReq
    BY DEF NoMembers, MemberReq
  <2>2. \A a, b \in MemberReq : a.state = b.state /\ a.group = b.group /\ a.outdated = b.outdated
                                /\ a.runs = b.runs => a = b
    BY DEF MemberReq
  <2>3. /\ NoMembers.state = "free" /\ NoMembers.group = NoGroup /\ NoMembers.outdated = FALSE
        /\ NoMembers.runs = FALSE
    BY DEF NoMembers
  <2> HIDE DEF r
  <2>4. r = NoMembers
    BY <2>1, <2>2, <2>3
  <2>5. QED  BY <2>4 DEF r
<1>4. QED  BY <1>1, <1>2, <1>3 DEF Outdated

\* A new request outdates the others.
LEMMA RequestOne ==
  ASSUME GroupsTypeOK, NEW g \in Group, requestMembers(g)
  PROVE  /\ memberReqs' \in [MemberSlot -> MemberReq]
         /\ \A i \in MemberSlot :
              memberReqs'[i] # NoMembers /\ ~memberReqs'[i].outdated => memberReqs'[i].group = g
<1> DEFINE new == [NoMembers EXCEPT !.state = "sent", !.group = g]
<1>1. new \in MemberReq /\ new.group = g
  BY DEF NoMembers, MemberReq
<1>2. PICK i \in MemberSlot : memberReqs' = [Outdated EXCEPT ![i] = new]
  BY DEF requestMembers
<1> HIDE DEF new
<1>3. QED  BY <1>1, <1>2, OutdatedFacts

\* What the steps of the dialog leave alone.
LEMMA GroupsSame ==
  ASSUME GroupsInv, GroupsTypeOK', UNCHANGED <<view, members, memberReqs>>
  PROVE  GroupsInv'
BY DEF GroupsInv

LEMMA ListFacts ==
  ASSUME GroupsTypeOK
  PROVE  /\ \A i \in ListSlot : lists[i].answer \in SUBSET Group
         /\ NoList \in [state : {"free", "sent", "read"}, answer : SUBSET Group]
         /\ refresh => lists' \in [ListSlot -> [state : {"free", "sent", "read"}, answer : SUBSET Group]]
BY DEF GroupsTypeOK, NoList, refresh

LEMMA GroupsStep ==
  ASSUME GroupsInv, GroupsNext
  PROVE  GroupsInv' /\ (/\ view # NoGroup => view' \in {view, NoGroup}
                        /\ view = NoGroup /\ view' # NoGroup => members' = NoGroup)
<1> USE GroupsAssumption DEF GroupsInv
<1>0. /\ {checking, listed} \subseteq SUBSET Group /\ checks \in 0 .. MaxChecks
      /\ {automatic, viewRuns} \subseteq BOOLEAN
      /\ lists \in [ListSlot -> [state : {"free", "sent", "read"}, answer : SUBSET Group]]
      /\ {view, members, checkCall} \subseteq Group \cup {NoGroup}
      /\ memberReqs \in [MemberSlot -> MemberReq]
  BY DEF GroupsTypeOK, MemberReq
<1>1. ASSUME NEW g \in Group, OpenMembers(g) PROVE GroupsInv' /\ members' = NoGroup /\ view = NoGroup
  <2>1. /\ view = NoGroup /\ view' = g /\ members' = NoGroup /\ viewRuns' \in BOOLEAN
        /\ requestMembers(g) /\ UNCHANGED <<checking, checks, automatic, listed, lists, checkCall>>
    BY <1>1 DEF OpenMembers
  <2>2. GroupsTypeOK'
    BY <1>0, <2>1, RequestOne DEF GroupsTypeOK, MemberReq
  <2>3. QED  BY <2>1, <2>2, RequestOne
<1>2. CASE TurnPage \/ IntervalFires
  <2>1. /\ \/ view \in Group /\ requestMembers(view)
           \/ UNCHANGED memberReqs
        /\ lists' = lists \/ refresh
        /\ UNCHANGED <<checking, checks, automatic, listed, view, viewRuns, members, checkCall>>
    BY <1>0, <1>2 DEF TurnPage, IntervalFires, ReloadBoth
  <2>2. memberReqs' \in [MemberSlot -> MemberReq]
    BY <1>0, <2>1, RequestOne
  <2>3. GroupsTypeOK'
    BY <1>0, <2>1, <2>2, ListFacts DEF GroupsTypeOK, MemberReq
  <2>4. QED  BY <2>1, <2>3, RequestOne
<1>3. CASE closeMembers
  <2>1. /\ view' = NoGroup /\ viewRuns' = FALSE /\ memberReqs' = Outdated
        /\ UNCHANGED <<checking, checks, automatic, listed, lists, members, checkCall>>
    BY <1>3 DEF closeMembers
  <2>2. GroupsTypeOK'
    BY <1>0, <2>1, OutdatedFacts DEF GroupsTypeOK, MemberReq
  <2>3. QED  BY <2>1, <2>2, OutdatedFacts
<1>4. CASE runCheck \/ CheckRefused
  <2>1. /\ UNCHANGED <<checking, checks, automatic, listed, lists, view, viewRuns, members, memberReqs>>
        /\ checkCall' \in {view, NoGroup}
    BY <1>4 DEF runCheck, CheckRefused
  <2>2. GroupsTypeOK'
    BY <1>0, <2>1 DEF GroupsTypeOK, MemberReq
  <2>3. QED  BY <2>1, <2>2, GroupsSame
<1>5. CASE CheckStarted
  <2>1. /\ checkCall' = NoGroup /\ checking' \subseteq Group /\ checks' \in 0 .. MaxChecks
        /\ viewRuns' \in BOOLEAN /\ refresh
        /\ UNCHANGED <<automatic, listed, view, members, memberReqs>>
    BY <1>0, <1>5 DEF CheckStarted
  <2>2. GroupsTypeOK'
    BY <1>0, <2>1, ListFacts DEF GroupsTypeOK, MemberReq
  <2>3. QED  BY <2>1, <2>2, GroupsSame
<1>6. ASSUME NEW g \in Group, CheckStarts(g)
      PROVE  GroupsInv' /\ view' = view
  <2>1. /\ checking' \subseteq Group /\ checks' \in 0 .. MaxChecks
        /\ UNCHANGED <<automatic, listed, lists, view, viewRuns, members, memberReqs, checkCall>>
    BY <1>0, <1>6 DEF CheckStarts
  <2>2. GroupsTypeOK'
    BY <1>0, <2>1 DEF GroupsTypeOK, MemberReq
  <2>3. QED  BY <2>1, <2>2, GroupsSame
<1>7. ASSUME NEW g \in Group, CheckEnds(g)
      PROVE  GroupsInv' /\ view' = view
  <2>1. /\ \/ view \in Group /\ requestMembers(view)
           \/ UNCHANGED memberReqs
        /\ lists' = lists \/ refresh
        /\ checking' \subseteq Group
        /\ UNCHANGED <<checks, automatic, listed, view, viewRuns, members, checkCall>>
    BY <1>0, <1>7 DEF CheckEnds, ReloadBoth
  <2>2. memberReqs' \in [MemberSlot -> MemberReq]
    BY <1>0, <2>1, RequestOne
  <2>3. GroupsTypeOK'
    BY <1>0, <2>1, <2>2, ListFacts DEF GroupsTypeOK, MemberReq
  <2>4. QED  BY <2>1, <2>3, RequestOne
<1>8. ASSUME NEW i \in ListSlot, GetSmartGroups(i) \/ ListAnswered(i) \/ ListFails(i)
      PROVE  GroupsInv' /\ view' = view
  <2>1. /\ UNCHANGED <<checking, checks, automatic, view, viewRuns, members, memberReqs, checkCall>>
        /\ listed' \in {listed, lists[i].answer}
        /\ lists' \in [ListSlot -> [state : {"free", "sent", "read"}, answer : SUBSET Group]]
    BY <1>0, <1>8, ListFacts DEF GetSmartGroups, ListAnswered, ListFails
  <2>2. GroupsTypeOK'
    BY <1>0, <2>1, ListFacts DEF GroupsTypeOK, MemberReq
  <2>3. QED  BY <2>1, <2>2, GroupsSame
<1>9. ASSUME NEW i \in MemberSlot,
             GetSmartGroupMembers(i) \/ MembersAnswered(i) \/ MembersFail(i)
      PROVE  GroupsInv' /\ view' = view
  <2>1. memberReqs[i] \in MemberReq /\ NoMembers \in MemberReq /\ NoMembers.state = "free"
    BY <1>0 DEF MemberReq, NoMembers
  <2>2. CASE GetSmartGroupMembers(i)
    <3> DEFINE q == [memberReqs[i] EXCEPT !.state = "read", !.runs = memberReqs[i].group \in checking]
    <3>0. q \in MemberReq /\ q.group = memberReqs[i].group /\ q.outdated = memberReqs[i].outdated
      <4>1. \A m \in MemberReq, b \in BOOLEAN :
              /\ [m EXCEPT !.state = "read", !.runs = b] \in MemberReq
              /\ [m EXCEPT !.state = "read", !.runs = b].group = m.group
              /\ [m EXCEPT !.state = "read", !.runs = b].outdated = m.outdated
        BY DEF MemberReq
      <4>2. (memberReqs[i].group \in checking) \in BOOLEAN
        OBVIOUS
      <4>3. QED  BY <2>1, <4>1, <4>2
    <3>1. PICK r \in MemberReq : /\ r.group = memberReqs[i].group
                                 /\ r.outdated = memberReqs[i].outdated
                                 /\ memberReqs' = [memberReqs EXCEPT ![i] = r]
      BY <1>0, <2>2, <3>0 DEF GetSmartGroupMembers
    <3>2. /\ memberReqs[i] # NoMembers
          /\ UNCHANGED <<checking, checks, automatic, listed, lists, view, viewRuns, members, checkCall>>
      BY <2>1, <2>2 DEF GetSmartGroupMembers
    <3>3. GroupsTypeOK'
      BY <1>0, <3>1, <3>2 DEF GroupsTypeOK, MemberReq
    <3>4. QED  BY <1>0, <3>1, <3>2, <3>3
  <2>3. CASE MembersAnswered(i) \/ MembersFail(i)
    <3>1. /\ memberReqs[i] # NoMembers /\ memberReqs' = [memberReqs EXCEPT ![i] = NoMembers]
          /\ UNCHANGED <<checking, checks, automatic, listed, lists, checkCall>>
      BY <2>1, <2>3 DEF MembersAnswered, MembersFail
    <3>2. /\ view' = view /\ members' \in {members, view} /\ viewRuns' \in BOOLEAN
          /\ members' = members \/ view # NoGroup
      BY <1>0, <2>1, <2>3, <3>1 DEF MembersAnswered, MembersFail, MemberReq
    <3>3. GroupsTypeOK'
      BY <1>0, <2>1, <3>1, <3>2 DEF GroupsTypeOK, MemberReq
    <3>4. QED  BY <1>0, <3>1, <3>2, <3>3
  <2>4. QED  BY <1>9, <2>2, <2>3
<1>10. view' = view \/ closeMembers \/ \E g \in Group : OpenMembers(g)
  BY <1>6, <1>7, <1>8, <1>9
     DEF GroupsNext, TurnPage, runCheck, CheckStarted, CheckRefused, IntervalFires
<1>11. GroupsInv'
  BY <1>1, <1>2, <1>3, <1>4, <1>5, <1>6, <1>7, <1>8, <1>9 DEF GroupsNext
<1>12. QED  BY <1>1, <1>10, <1>11 DEF closeMembers

LEMMA GroupsStart == GroupsInit => GroupsInv
<1> SUFFICES ASSUME GroupsInit PROVE GroupsInv
  OBVIOUS
<1>1. GroupsTypeOK
  <2>1. memberReqs \in [MemberSlot -> MemberReq]
    BY DEF GroupsInit, NoMembers, MemberReq
  <2>2. [NoList EXCEPT !.state = "sent"] \in [state : {"free", "sent", "read"}, answer : SUBSET Group]
        /\ NoList \in [state : {"free", "sent", "read"}, answer : SUBSET Group]
    BY DEF NoList
  <2>3. lists \in [ListSlot -> [state : {"free", "sent", "read"}, answer : SUBSET Group]]
    BY <2>2 DEF GroupsInit
  <2>4. checks \in 0 .. MaxChecks
    BY GroupsAssumption DEF GroupsInit
  <2>5. {automatic, viewRuns} \subseteq BOOLEAN
    BY DEF GroupsInit
  <2>6. QED  BY <2>1, <2>3, <2>4, <2>5 DEF GroupsInit, GroupsTypeOK, MemberReq
<1>2. QED  BY <1>1 DEF GroupsInit, GroupsInv

-----------------------------------------------------------------------------
\* The sessions: an end is left only by the expiry.
SessionKept(s) == status[s] \in Final => status'[s] \in {status[s], "gone"}

LEMMA UpdateFacts ==
  ASSUME SessionsTypeOK, NEW s \in Session, NEW to \in Status, UpdateForOwner(s, to)
  PROVE  status' \in [Session -> Status \cup {"none", "gone"}] /\ \A x \in Session : SessionKept(x)
BY DEF SessionsTypeOK, UpdateForOwner, CanUpdate, isTransitionAllowed, SessionKept, Final

\* The sessions' steps, by whatever the editor does.
SessionsMove ==
  \/ UNCHANGED editSessionVars
  \/ \E s \in Session : \/ Create(s) \/ StreamAdvances(s) \/ StreamFails(s) \/ ExpireEdit(s)
                        \/ AcceptUpdates(s) \/ DiscardUpdates(s)

LEMMA SessionsStep ==
  ASSUME SessionsTypeOK, SessionsMove
  PROVE  SessionsTypeOK' /\ \A x \in Session : SessionKept(x)
<1> DEFINE Next4 == {"streaming", "operations_ready", "validating", "preview_ready", "over"}
<1>1. ASSUME NEW s \in Session, Create(s) PROVE SessionsTypeOK' /\ \A x \in Session : SessionKept(x)
  BY <1>1 DEF Create, SessionsTypeOK, SessionKept, Final, Status
<1>2. ASSUME NEW s \in Session, StreamAdvances(s)
      PROVE  SessionsTypeOK' /\ \A x \in Session : SessionKept(x)
  <2>1. stream[s] \in Status /\ stream[s] \in Next4
    BY <1>2 DEF StreamAdvances, SessionsTypeOK, Status
  <2>2. stream[s] \notin {"preview_ready", "over"} => Following[stream[s]] \in Next4
    BY <2>1 DEF Following
  <2>3. PICK n \in Next4 : stream' = [stream EXCEPT ![s] = n]
    BY <1>2, <2>2 DEF StreamAdvances
  <2>4. QED  BY <1>2, <2>1, <2>3, UpdateFacts DEF StreamAdvances, SessionsTypeOK
<1>3. ASSUME NEW s \in Session, StreamFails(s)
      PROVE  SessionsTypeOK' /\ \A x \in Session : SessionKept(x)
  BY <1>3, UpdateFacts DEF StreamFails, SessionsTypeOK, Status, Final
<1>4. ASSUME NEW s \in Session, ExpireEdit(s)
      PROVE  SessionsTypeOK' /\ \A x \in Session : SessionKept(x)
  BY <1>4 DEF ExpireEdit, SessionsTypeOK, SessionKept
<1>5. ASSUME NEW s \in Session, AcceptUpdates(s) \/ DiscardUpdates(s)
      PROVE  SessionsTypeOK' /\ \A x \in Session : SessionKept(x)
  BY <1>5, UpdateFacts DEF AcceptUpdates, DiscardUpdates, SessionsTypeOK, Status, Final
<1>6. CASE UNCHANGED editSessionVars
  BY <1>6 DEF editSessionVars, SessionsTypeOK, SessionKept
<1>7. QED  BY <1>1, <1>2, <1>3, <1>4, <1>5, <1>6 DEF SessionsMove

-----------------------------------------------------------------------------
\* The editor: an open dialog has a form, and an accept is sent with the form
\* its session was started with.
EditorInv ==
  /\ EditorTypeOK
  /\ open # NoTemplate => form \in Form
  /\ accept # NoAccept => base[accept.session] = accept.sent

LEMMA FormFacts ==
  /\ NoForm \notin Form
  /\ \A f \in Form, x \in Text : [f EXCEPT !.text = x] \in Form
  /\ \A f \in Form : f.text \in Text /\ f.name \in Template
  /\ \A t \in Template, x \in Text : [name |-> t, text |-> x] \in Form
  /\ NoAccept.session = NoSession
  /\ \A t \in Template : t # NoTemplate
  /\ \A t \in Session : t # NoSession /\ t \in Text
  /\ Template \subseteq Text /\ Typed \subseteq Text
BY EditorAssumption DEF Form, NoForm, NoAccept, Text

\* What a step may do to the editor, one variable after the other.
LEMMA EditorFrame ==
  ASSUME EditorInv, SessionsTypeOK',
         saved' \in [Template -> Text],
         diff' \in BOOLEAN, generating' \in BOOLEAN, discarding' \in BOOLEAN,
         open' \in Template \cup {NoTemplate},
         form' \in Form \cup {NoForm}, open' # NoTemplate => form' \in Form,
         converting' \in Form \cup {NoForm},
         assistant' \in [session : Session \cup {NoSession}, candidate : BOOLEAN, accepted : BOOLEAN],
         base' \in [Session -> Form \cup {NoForm}],
         accept' \in [session : Session, sent : Form] \cup {NoAccept},
         accept' # NoAccept => base'[accept'.session] = accept'.sent,
         save' \in [old : Template, form : Form] \cup {NoSave},
         handlers' \subseteq Handler
  PROVE  EditorInv'
BY DEF EditorInv, EditorTypeOK

\* Every step of the editor is one of the sessions, or none of them moves.
LEMMA EditorSessions ==
  ASSUME EditorInv, EditorNext
  PROVE  SessionsMove
<1> USE DEF SessionsMove
<1>1. CASE SessionStep
  BY <1>1 DEF SessionStep
<1>2. CASE handleGenerateWithAI
  BY <1>2 DEF handleGenerateWithAI
<1>3. ASSUME NEW h \in handlers,
             AcceptChecks(h) \/ AcceptAnswered(h) \/ AcceptHandled(h) \/ DiscardHandled(h)
      PROVE  SessionsMove
  <2>1. h.session \in Session
    BY DEF EditorInv, EditorTypeOK, Handler
  <2>2. QED  BY <1>3, <2>1 DEF AcceptChecks, AcceptAnswered, AcceptHandled, DiscardHandled
<1>4. CASE \/ handleCloseDialog \/ SwitchMode \/ GenerationAnswered \/ GenerationFails
           \/ handleAcceptAIPreview \/ AcceptFails \/ handleDiscardAIPreview \/ DiscardAnswered
           \/ handleConvertTemplate \/ ConvertFails
           \/ handleSubmit \/ UpdateTemp \/ SaveAnswered \/ SaveFails
           \/ \E t \in Template : handleEdit(t)
           \/ \E text \in Typed : Type(text) \/ ConvertAnswered(text)
  BY <1>4 DEF Server, handleCloseDialog, SwitchMode, GenerationAnswered, GenerationFails,
     handleAcceptAIPreview, AcceptFails, handleDiscardAIPreview, DiscardAnswered,
     handleConvertTemplate, ConvertFails, handleSubmit, UpdateTemp, SaveAnswered, SaveFails,
     handleEdit, Type, ConvertAnswered
<1>5. QED  BY <1>1, <1>2, <1>3, <1>4 DEF EditorNext

LEMMA EditorStep ==
  ASSUME EditorInv, EditorNext
  PROVE  EditorInv'
<1> USE DEF EditorInv
<1>0. SessionsTypeOK'
  BY EditorSessions, SessionsStep DEF EditorTypeOK
<1>1. /\ saved \in [Template -> Text]
      /\ diff \in BOOLEAN /\ generating \in BOOLEAN /\ discarding \in BOOLEAN
      /\ open \in Template \cup {NoTemplate}
      /\ form \in Form \cup {NoForm} /\ (open # NoTemplate => form \in Form)
      /\ converting \in Form \cup {NoForm}
      /\ assistant \in [session : Session \cup {NoSession}, candidate : BOOLEAN, accepted : BOOLEAN]
      /\ base \in [Session -> Form \cup {NoForm}]
      /\ accept \in [session : Session, sent : Form] \cup {NoAccept}
      /\ save \in [old : Template, form : Form] \cup {NoSave}
      /\ handlers \subseteq Handler
  BY DEF EditorTypeOK
<1>2. NoAssistant \in [session : Session \cup {NoSession}, candidate : BOOLEAN, accepted : BOOLEAN]
  BY DEF NoAssistant
<1> HIDE DEF EditorInv
<1> USE DEF Files, Assistance, Server, Waiting
<1> DEFINE SameAccept == accept' = accept /\ base' = base
<1>3. SameAccept => /\ accept' \in [session : Session, sent : Form] \cup {NoAccept}
                    /\ accept' # NoAccept => base'[accept'.session] = accept'.sent
                    /\ base' \in [Session -> Form \cup {NoForm}]
  BY <1>1 DEF EditorInv
<1>4. ASSUME NEW t \in Template, handleEdit(t) PROVE EditorInv'
  <2>1. form' \in Form
    BY <1>1, <1>4, FormFacts DEF handleEdit
  <2>2. QED
    BY <1>0, <1>1, <1>2, <1>3, <1>4, <2>1, EditorFrame DEF handleEdit, resetTemplateAIAssistant
<1>5. CASE handleCloseDialog
  BY <1>0, <1>1, <1>2, <1>3, <1>5, EditorFrame DEF handleCloseDialog, resetTemplateAIAssistant
<1>6. ASSUME NEW text \in Typed, Type(text) PROVE EditorInv'
  <2>1. form' \in Form
    BY <1>1, <1>6, FormFacts DEF Type
  <2>2. QED  BY <1>0, <1>1, <1>3, <1>6, <2>1, EditorFrame DEF Type
<1>7. CASE SwitchMode
  BY <1>0, <1>1, <1>3, <1>7, EditorFrame DEF SwitchMode
<1>8. CASE handleGenerateWithAI
  <2>1. /\ accept = NoAccept /\ UNCHANGED <<open, form, handlers, saved, save, accept, discarding, converting>>
        /\ diff' = FALSE /\ generating' \in BOOLEAN
    BY <1>1, <1>8 DEF handleGenerateWithAI, aiPreviewBusy
  <2>2. base' \in [Session -> Form \cup {NoForm}]
    BY <1>1, <1>8 DEF handleGenerateWithAI
  <2>3. assistant' \in [session : Session \cup {NoSession}, candidate : BOOLEAN, accepted : BOOLEAN]
    BY <1>2, <1>8 DEF handleGenerateWithAI, NoAssistant
  <2>4. QED  BY <1>0, <1>1, <2>1, <2>2, <2>3, EditorFrame
<1>9. CASE GenerationAnswered \/ GenerationFails
  <2>1. assistant' \in [session : Session \cup {NoSession}, candidate : BOOLEAN, accepted : BOOLEAN]
    BY <1>1, <1>9 DEF GenerationAnswered, GenerationFails
  <2>2. generating' \in BOOLEAN /\ diff' \in BOOLEAN
    BY <1>1, <1>9 DEF GenerationAnswered, GenerationFails
  <2>3. QED
    BY <1>0, <1>1, <1>3, <1>9, <2>1, <2>2, EditorFrame DEF GenerationAnswered, GenerationFails
<1>10. CASE handleAcceptAIPreview
  <2>1. /\ open # NoTemplate /\ assistant.session \in Session /\ base[assistant.session] = form
        /\ accept' = [session |-> assistant.session, sent |-> form]
        /\ handlers' = handlers \cup
              {[call |-> "accept", session |-> assistant.session, text |-> form.text]}
        /\ UNCHANGED <<open, form, discarding, converting, base, saved, save, assistant, generating, diff>>
    BY <1>1, <1>10 DEF handleAcceptAIPreview, canAcceptAIPreview, Reviewable
  <2>2. [call |-> "accept", session |-> assistant.session, text |-> form.text] \in Handler
    BY <1>1, <2>1, FormFacts DEF Handler
  <2>3. accept' \in [session : Session, sent : Form] /\ base'[accept'.session] = accept'.sent
    BY <1>1, <2>1
  <2>4. QED  BY <1>0, <1>1, <2>1, <2>2, <2>3, EditorFrame
<1>11. CASE AcceptFails
  BY <1>0, <1>1, <1>11, EditorFrame DEF AcceptFails
<1>12. CASE handleDiscardAIPreview
  <2>1. [call |-> "discard", session |-> assistant.session, text |-> form.text] \in Handler
    BY <1>1, <1>12, FormFacts DEF Handler, handleDiscardAIPreview
  <2>2. QED
    BY <1>0, <1>1, <1>3, <1>12, <2>1, EditorFrame DEF handleDiscardAIPreview
<1>13. CASE DiscardAnswered
  BY <1>0, <1>1, <1>2, <1>3, <1>13, EditorFrame DEF DiscardAnswered
<1>14. CASE handleConvertTemplate \/ ConvertFails
  BY <1>0, <1>1, <1>3, <1>14, EditorFrame DEF handleConvertTemplate, ConvertFails
<1>15. ASSUME NEW text \in Typed, ConvertAnswered(text) PROVE EditorInv'
  <2>1. form' \in Form \cup {NoForm} /\ (open # NoTemplate => form' \in Form)
    BY <1>1, <1>15, FormFacts DEF ConvertAnswered, Shown
  <2>2. QED  BY <1>0, <1>1, <1>3, <1>15, <2>1, EditorFrame DEF ConvertAnswered
<1>16. CASE handleSubmit
  BY <1>0, <1>1, <1>3, <1>16, EditorFrame DEF handleSubmit
<1>17. CASE UpdateTemp
  <2>1. saved' \in [Template -> Text]
    BY <1>1, <1>17, FormFacts DEF UpdateTemp
  <2>2. QED  BY <1>0, <1>1, <1>3, <1>17, <2>1, EditorFrame DEF UpdateTemp
<1>18. CASE SaveAnswered \/ SaveFails
  BY <1>0, <1>1, <1>2, <1>3, <1>18, EditorFrame DEF SaveAnswered, SaveFails, resetTemplateAIAssistant
<1>19. CASE SessionStep
  BY <1>0, <1>1, <1>3, <1>19, EditorFrame DEF SessionStep
<1>20. ASSUME NEW h \in handlers, AcceptChecks(h) PROVE EditorInv'
  <2>1. h \in Handler /\ [h EXCEPT !.call = "accept_checked"] \in Handler
    BY <1>1 DEF Handler
  <2>2. handlers' \subseteq Handler
    BY <1>1, <1>20, <2>1 DEF AcceptChecks
  <2>3. QED  BY <1>0, <1>1, <1>3, <1>20, <2>2, EditorFrame DEF AcceptChecks
<1>21. ASSUME NEW h \in handlers, AcceptAnswered(h) PROVE EditorInv'
  <2>1. h.session \in Session
    BY <1>1 DEF Handler
  <2>2. form' \in Form \cup {NoForm} /\ (open # NoTemplate => form' \in Form)
    BY <1>1, <1>21, <2>1, FormFacts DEF AcceptAnswered, Shown
  <2>3. assistant' \in [session : Session \cup {NoSession}, candidate : BOOLEAN, accepted : BOOLEAN]
    BY <1>1, <1>21 DEF AcceptAnswered
  <2>4. QED  BY <1>0, <1>1, <1>21, <2>2, <2>3, EditorFrame DEF AcceptAnswered
<1>22. ASSUME NEW h \in handlers, AcceptHandled(h) \/ DiscardHandled(h) PROVE EditorInv'
  BY <1>0, <1>1, <1>3, <1>22, EditorFrame DEF AcceptHandled, DiscardHandled
<1>23. QED
  BY <1>4, <1>5, <1>6, <1>7, <1>8, <1>9, <1>10, <1>11, <1>12, <1>13, <1>14, <1>15, <1>16, <1>17,
     <1>18, <1>19, <1>20, <1>21, <1>22 DEF EditorNext

LEMMA EditorStart == EditorInit => EditorInv
<1> SUFFICES ASSUME EditorInit PROVE EditorInv
  OBVIOUS
<1>1. SessionsTypeOK
  BY DEF EditorInit, SessionsInit, SessionsTypeOK
<1>2. saved \in [Template -> Text] /\ base \in [Session -> Form \cup {NoForm}] /\ handlers \subseteq Handler
  BY DEF EditorInit, Text
<1>3. assistant \in [session : Session \cup {NoSession}, candidate : BOOLEAN, accepted : BOOLEAN]
  BY DEF EditorInit, NoAssistant
<1>4. QED  BY <1>1, <1>2, <1>3 DEF EditorInit, EditorInv, EditorTypeOK

-----------------------------------------------------------------------------
\* The pages together.
WebInv == NodesInv /\ CheckTypeOK /\ GroupsInv /\ EditorInv

LEMMA NodesStays == NodesInv /\ UNCHANGED nodesVars => NodesInv'
<1> SUFFICES ASSUME NodesInv, UNCHANGED nodesVars PROVE NodesInv'
  OBVIOUS
<1>1. UNCHANGED <<version, filter, pageNo, debounce, requests, shown, failed,
                  reloadTimer, heard, batch, stale>>
  BY DEF nodesVars
<1>2. Current' = Current /\ getCurrentFilters' = getCurrentFilters /\ (NodesTypeOK' <=> NodesTypeOK)
  BY <1>1 DEF Current, getCurrentFilters, NodesTypeOK
<1>3. QED  BY <1>1, <1>2 DEF NodesInv

LEMMA CheckStays == CheckTypeOK /\ UNCHANGED checkVars => CheckTypeOK'
BY DEF CheckTypeOK, checkVars

LEMMA GroupsStays == GroupsInv /\ UNCHANGED groupsVars => GroupsInv'
BY DEF GroupsInv, GroupsTypeOK, groupsVars

LEMMA EditorStays == EditorInv /\ UNCHANGED editorVars => EditorInv'
BY DEF EditorInv, EditorTypeOK, SessionsTypeOK, editorVars, editSessionVars

LEMMA WebInvStart == WebInit => WebInv
BY NodesStart, CheckStart, GroupsStart, EditorStart DEF WebInit, WebInv

LEMMA WebInvStep == WebInv /\ [WebNext]_pageVars => WebInv'
<1> SUFFICES ASSUME WebInv, [WebNext]_pageVars PROVE WebInv'
  OBVIOUS
<1>1. NodesInv'
  BY NodesStep, NodesStays DEF WebInv, WebNext, pageVars
<1>2. CheckTypeOK'
  BY CheckStep, CheckStays DEF WebInv, WebNext, pageVars
<1>3. GroupsInv'
  BY GroupsStep, GroupsStays DEF WebInv, WebNext, pageVars
<1>4. EditorInv'
  BY EditorStep, EditorStays DEF WebInv, WebNext, pageVars
<1>5. QED  BY <1>1, <1>2, <1>3, <1>4 DEF WebInv

\* The strengthened invariants hold on every page.
THEOREM PagesInvariance == WebSpec => []WebInv
<1>1. QED  BY WebInvStart, WebInvStep, PTL DEF WebSpec

\* Every variable of every page has its type.
THEOREM PagesTypeCorrect ==
  WebSpec => [](NodesTypeOK /\ CheckTypeOK /\ GroupsTypeOK /\ EditorTypeOK)
<1>1. WebInv => NodesTypeOK /\ CheckTypeOK /\ GroupsTypeOK /\ EditorTypeOK
  BY DEF WebInv, NodesInv, GroupsInv, EditorInv
<1>2. QED  BY <1>1, PagesInvariance, PTL

\* A node list with nothing under way shows what its controls say, as new as
\* the last completion heard, in whatever order the answers came.
THEOREM ListSettles == WebSpec => []NodesListSettles
<1>1. WebInv => NodesListSettles
  BY DEF WebInv, NodesInv, NodesTypeOK, NodesListSettles, NodesQuiet
<1>2. QED  BY <1>1, PagesInvariance, PTL

\* Rows that have been shown are never replaced by older ones.
THEOREM NeverBack == WebSpec => NodesListNeverGoesBack
<1> DEFINE Newer == shown.query # NoQuery => shown'.version >= shown.version
<1>1. ASSUME NodesInv, NodesNext
      PROVE  shown'.version >= shown.version
  <2>1. shown.version \in Nat
    BY <1>1, NodesAssumption DEF NodesInv, NodesTypeOK
  <2>2. CASE UNCHANGED shown
    BY <2>1, <2>2
  <2>3. ASSUME NEW i \in Slot, FetchAnswered(i), i \in Current
        PROVE  shown'.version >= shown.version
    <3>1. requests[i].answer - 1 \in shown.version .. version /\ shown'.version = requests[i].answer - 1
      BY <1>1, <2>3 DEF NodesInv, FetchAnswered
    <3>2. version \in Nat
      BY <1>1, NodesAssumption DEF NodesInv, NodesTypeOK
    <3>3. QED  BY <2>1, <3>1, <3>2
  <2>4. UNCHANGED shown \/ \E i \in Slot : FetchAnswered(i) /\ i \in Current
    BY <1>1 DEF NodesNext, InitialLoad, DebounceFires, handleRefresh, TaskWrites, onTaskComplete,
       RefreshFires, SubmitBatch, BatchDone, BatchFails, ChangeFilter, onPageChange, GetNodes,
       FetchAnswered, FetchFails, NotAsked
  <2>5. QED  BY <2>2, <2>3, <2>4
<1>2. WebInv /\ [WebNext]_pageVars => [Newer]_nodesVars
  BY <1>1 DEF WebInv, WebNext, pageVars
<1>3. WebSpec => [][Newer]_nodesVars
  <2> HIDE DEF Newer
  <2>1. QED  BY <1>2, PagesInvariance, PTL DEF WebSpec
<1>4. QED  BY <1>3 DEF NodesListNeverGoesBack

\* An answer for a group whose dialog is closed, or for another group, is
\* never shown.
THEOREM MembersBelong == WebSpec => MembersOfOpenGroup
<1> DEFINE Belong == /\ view' # NoGroup /\ members' # NoGroup => members' = view'
                     /\ view # NoGroup => view' \in {view, NoGroup}
                     /\ view = NoGroup /\ view' # NoGroup => members' = NoGroup
<1>1. WebInv /\ [WebNext]_pageVars => [Belong]_groupsVars
  BY GroupsStep DEF WebInv, WebNext, pageVars, GroupsInv
<1>2. WebSpec => [][Belong]_groupsVars
  <2> HIDE DEF Belong
  <2>1. QED  BY <1>1, PagesInvariance, PTL DEF WebSpec
<1>3. QED  BY <1>2 DEF MembersOfOpenGroup

\* A candidate replaces only the text it was generated from, unless the editor
\* changed while the accept was on its way.
THEOREM CandidateFits == WebSpec => CandidateReplacesItsBase
<1> DEFINE Fits == accept # NoAccept /\ accept' = NoAccept /\ form' # form =>
                     form = base[accept.session] \/ form # accept.sent
<1>1. WebInv => Fits
  BY DEF WebInv, EditorInv
<1>2. WebSpec => [][Fits]_editorVars
  <2> HIDE DEF Fits
  <2>1. QED  BY <1>1, PagesInvariance, PTL DEF WebSpec
<1>3. QED  BY <1>2 DEF CandidateReplacesItsBase

\* An accepted, discarded or failed session only ever expires.
THEOREM EndsStay == WebSpec => SessionEndIsFinal
<1> DEFINE StaysFinal == \A s \in Session : status[s] \in Final => status'[s] \in {status[s], "gone"}
<1>1. WebInv /\ [WebNext]_pageVars => [StaysFinal]_editSessionVars
  <2> SUFFICES ASSUME WebInv, [WebNext]_pageVars PROVE StaysFinal
    OBVIOUS
  <2>1. CASE EditorNext
    BY <2>1, EditorSessions, SessionsStep DEF WebInv, EditorInv, EditorTypeOK, SessionKept
  <2>2. CASE UNCHANGED editorVars
    BY <2>2 DEF editorVars, editSessionVars
  <2>3. QED  BY <2>1, <2>2 DEF WebNext, pageVars
<1>2. WebSpec => [][StaysFinal]_editSessionVars
  <2> HIDE DEF StaysFinal
  <2>1. QED  BY <1>1, PagesInvariance, PTL DEF WebSpec
<1>3. QED  BY <1>2 DEF SessionEndIsFinal
=============================================================================
