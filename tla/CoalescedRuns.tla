--------------------------- MODULE CoalescedRuns ---------------------------
(***************************************************************************)
(* What both event-driven checks of the scheduler promise: the runs of one *)
(* target never overlap, and an event that arrives while its target runs   *)
(* is owed to the target until a run that began later covers it, or the    *)
(* target is reconfigured not to take it.  NodeCheckJobs implements it for *)
(* the automatic check jobs, SmartGroupChecks for the smart groups.        *)
(***************************************************************************)
CONSTANTS Target, Event, Runner

VARIABLES
  takes,    \* the events each target is configured to take
  runners,  \* who runs each target
  owed      \* accepted events no later run has covered

runVars == <<takes, runners, owed>>

TypeOK ==
  /\ takes \in [Target -> SUBSET Event]
  /\ runners \in [Target -> SUBSET Runner]
  /\ owed \in [Target -> SUBSET Event]

Init ==
  /\ takes \in [Target -> SUBSET Event]
  /\ runners = [t \in Target |-> {}]
  /\ owed = [t \in Target |-> {}]

\* Events E arrive at target t, which takes them.
Accept(t, E) ==
  /\ E \subseteq takes[t]
  /\ owed' = [owed EXCEPT ![t] = @ \cup E]
  /\ UNCHANGED <<takes, runners>>

\* A target nobody runs begins to run, for the events E.
Begin(r, t, E) ==
  /\ runners[t] = {}
  /\ runners' = [runners EXCEPT ![t] = {r}]
  /\ owed' = [owed EXCEPT ![t] = @ \ E]
  /\ UNCHANGED takes

\* The runs of the targets T end, all of them r's.
End(r, T) ==
  /\ \A t \in T : runners[t] = {r}
  /\ runners' = [t \in Target |-> IF t \in T THEN {} ELSE runners[t]]
  /\ UNCHANGED <<takes, owed>>

Reconfigure(t, E) ==
  /\ takes' = [takes EXCEPT ![t] = E]
  /\ owed' = [owed EXCEPT ![t] = @ \cap E]
  /\ UNCHANGED runners

Next ==
  \/ \E t \in Target, E \in SUBSET Event :
       Accept(t, E) \/ Reconfigure(t, E) \/ \E r \in Runner : Begin(r, t, E)
  \/ \E r \in Runner, T \in SUBSET Target : End(r, T)

Spec == Init /\ [][Next]_runVars
=============================================================================
