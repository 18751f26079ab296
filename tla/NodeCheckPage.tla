--------------------------- MODULE NodeCheckPage ---------------------------
(***************************************************************************)
(* The jobs of the check centre as a tab shows them                        *)
(* (views/node-check/index.jsx): a list that is loaded once, after every   *)
(* action and finished task, and every five seconds while it shows a job   *)
(* that runs.  One job; plans, options and dialogs are left out, and what  *)
(* a run does on the server is NodeCheckJobs.                              *)
(***************************************************************************)
EXTENDS Naturals

CONSTANTS
  MaxLoads,  \* bound on the loads under way
  MaxRuns    \* bound on the runs of the job

ASSUME CheckPageAssumption == MaxLoads \in Nat \ {0} /\ MaxRuns \in Nat

VARIABLES
  running,   \* the job runs on the server
  runs,
  jobs,      \* the job as shown: "unknown", "idle" or "running"
  poll,      \* the timer of the polling effect is armed
  loads,     \* slots of loads under way: "free", "sent", or what was read
  loadError,
  busy,      \* action's buttons are disabled
  reload     \* the load action waits for, 0 while it waits for its operation

checkVars == <<running, runs, jobs, poll, loads, loadError, busy, reload>>

LoadSlot == 1 .. MaxLoads

CheckInit ==
  /\ running \in BOOLEAN
  /\ runs = 0
  /\ jobs = "unknown"
  /\ poll = FALSE
  /\ loads = [i \in LoadSlot |-> IF i = 1 THEN "sent" ELSE "free"]
  /\ loadError = FALSE
  /\ busy = FALSE
  /\ reload = 0

\* load, up to its requests.
StartLoad(i) ==
  /\ loads[i] = "free" /\ \A j \in LoadSlot : j < i => loads[j] # "free"
  /\ loads' = [loads EXCEPT ![i] = "sent"]
  /\ loadError' = FALSE

load == \E i \in LoadSlot : StartLoad(i)

\* action waits for the load it has started.
ActionWaits(i) == IF busy /\ reload = i THEN busy' = FALSE /\ reload' = 0
                  ELSE UNCHANGED <<busy, reload>>

-----------------------------------------------------------------------------
\* The refresh button; that the first load disables it is left out.
Refresh ==
  /\ ~busy
  /\ load
  /\ UNCHANGED <<running, runs, jobs, poll, busy, reload>>

\* The run button, shown for a job that does not run.
RunJob ==
  /\ jobs = "idle" /\ ~busy
  /\ busy' = TRUE
  /\ UNCHANGED <<running, runs, jobs, poll, loads, loadError, reload>>

\* The server has started the job, and the list is loaded again.
RunStarted ==
  /\ busy /\ reload = 0
  /\ ~running /\ runs < MaxRuns
  /\ running' = TRUE /\ runs' = runs + 1
  /\ \E i \in LoadSlot : StartLoad(i) /\ reload' = i
  /\ UNCHANGED <<jobs, poll, busy>>

\* It runs already, or the request has failed.
RunRefused ==
  /\ busy /\ reload = 0
  /\ busy' = FALSE
  /\ UNCHANGED <<running, runs, jobs, poll, loads, loadError, reload>>

\* The schedule or an airport's update starts the job.
JobStarts ==
  /\ ~running /\ runs < MaxRuns
  /\ running' = TRUE /\ runs' = runs + 1
  /\ UNCHANGED <<jobs, poll, loads, loadError, busy, reload>>

\* The job ends; its tasks' completion may be heard.
JobEnds ==
  /\ running /\ running' = FALSE
  /\ load \/ UNCHANGED <<loads, loadError>>
  /\ UNCHANGED <<runs, jobs, poll, busy, reload>>

\* The five seconds are over.
PollFires ==
  /\ poll /\ poll' = FALSE
  /\ load
  /\ UNCHANGED <<running, runs, jobs, busy, reload>>

GetNodeCheckJobs(i) ==
  /\ loads[i] = "sent"
  /\ loads' = [loads EXCEPT ![i] = IF running THEN "running" ELSE "idle"]
  /\ UNCHANGED <<running, runs, jobs, poll, loadError, busy, reload>>

\* Mutant of LoadAnswered: the effect depends on whether any job runs and not
\* on the list, and is not run again as long as that stays the same.
LoadAnsweredOnce(i) ==
  /\ loads[i] \in {"running", "idle"}
  /\ loads' = [loads EXCEPT ![i] = "free"]
  /\ jobs' = loads[i]
  /\ poll' = IF jobs = jobs' THEN poll ELSE jobs' = "running"
  /\ ActionWaits(i)
  /\ UNCHANGED <<running, runs, loadError>>

\* An answer is shown, whatever was asked after it, and the effect re-arms
\* its timer for the new list.
LoadAnswered(i) ==
  /\ loads[i] \in {"running", "idle"}
  /\ loads' = [loads EXCEPT ![i] = "free"]
  /\ jobs' = loads[i]
  /\ poll' = (jobs' = "running")
  /\ ActionWaits(i)
  /\ UNCHANGED <<running, runs, loadError>>

\* The list stays, and nothing arms the timer.
LoadFails(i) ==
  /\ loads[i] # "free"
  /\ loads' = [loads EXCEPT ![i] = "free"]
  /\ loadError' = TRUE
  /\ ActionWaits(i)
  /\ UNCHANGED <<running, runs, jobs, poll>>

CheckNext ==
  \/ Refresh \/ RunJob \/ RunStarted \/ RunRefused
  \/ JobStarts \/ JobEnds \/ PollFires
  \/ \E i \in LoadSlot : GetNodeCheckJobs(i) \/ LoadAnswered(i) \/ LoadFails(i)

\* Timers fire and requests come back, one way or the other.
CheckFairness ==
  /\ WF_checkVars(PollFires)
  /\ \A i \in LoadSlot : WF_checkVars(GetNodeCheckJobs(i)) /\ WF_checkVars(LoadAnswered(i))

-----------------------------------------------------------------------------
CheckTypeOK ==
  /\ running \in BOOLEAN /\ runs \in 0 .. MaxRuns
  /\ jobs \in {"unknown", "idle", "running"}
  /\ {poll, loadError, busy} \subseteq BOOLEAN
  /\ loads \in [LoadSlot -> {"free", "sent", "idle", "running"}]
  /\ reload \in 0 .. MaxLoads

\* A job that is shown running although its run has ended is not shown so for
\* ever, even if the completion was not heard and an older answer came last:
\* the list is loaded again until it says so, the job has started again, or a
\* load has failed, which stops the polling and shows an error.
ShownRunEnds ==
  (jobs = "running" /\ ~running) ~> (jobs # "running" \/ running \/ loadError)
=============================================================================
