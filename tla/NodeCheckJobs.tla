--------------------------- MODULE NodeCheckJobs ---------------------------
(***************************************************************************)
(* The automatic node-check jobs (services/scheduler/node_check_jobs.go):  *)
(* StartNodeCheckJob reserves a job's slot or refuses; the goroutine that  *)
(* owns the slot re-reads the job before every run, and runs again for the *)
(* airport updates that arrived meanwhile.                                 *)
(*                                                                         *)
(* The checks of StartNodeCheckJob and the reservation under the mutex are *)
(* two steps, so are the owner's return and its deferred release.  A run   *)
(* is one step from its beginning to RecordRun, whatever its outcome.      *)
(***************************************************************************)
EXTENDS Integers, FiniteSets

CONSTANTS
  Job, Airport,
  Loop,       \* goroutines of runNodeCheckJobLoop, that is, owners of slots
  None,
  MaxCalls,   \* bound on the calls of StartNodeCheckJob that pass its checks
  MaxEdits,   \* bound on the edits and deletions of jobs
  MaxPanics   \* bound on the panics of runs

ASSUME NoneAssumption == None \notin Loop
ASSUME BoundAssumption == MaxCalls \in Nat /\ MaxEdits \in Nat /\ MaxPanics \in Nat

Trigger == {"manual", "scheduled", "airport_update"}

VARIABLES
  trigger,   \* the stored job's Trigger
  enabled,   \* the stored job's Enabled
  stored,    \* the job exists
  deleting,  \* a deletion is past its look at the slot
  starting,  \* calls past the checks of StartNodeCheckJob, before the mutex
  slot,      \* checkJobRuns.jobs
  pc,        \* where each owner stands
  job,       \* its job
  cause,     \* its trigger
  events,    \* its airportEvents; {} stands for the whole scope of the job
  pending,   \* nodeCheckJobRun.pending
  owed,      \* accepted airport updates no later run has covered
  calls, edits, panics

jobVars == <<trigger, enabled, stored, deleting>>
loopVars == <<pc, job, cause, events>>
boundVars == <<calls, edits, panics>>
vars == <<jobVars, starting, slot, loopVars, pending, owed, boundVars>>

Init ==
  /\ trigger \in [Job -> {"scheduled", "airport_update"}]
  /\ enabled \in [Job -> BOOLEAN]
  /\ stored = [j \in Job |-> TRUE]
  /\ deleting = {}
  /\ starting = {}
  /\ slot = [j \in Job |-> None]
  /\ pc = [l \in Loop |-> "free"]
  /\ job = [l \in Loop |-> None]
  /\ cause = [l \in Loop |-> None]
  /\ events = [l \in Loop |-> {}]
  /\ pending = [l \in Loop |-> {}]
  /\ owed = [j \in Job |-> {}]
  /\ calls = 0
  /\ edits = 0
  /\ panics = 0

-----------------------------------------------------------------------------
\* The job as stored accepts a run for trigger tr.
Accepts(j, tr) ==
  /\ stored[j]
  /\ tr # "manual" => enabled[j] /\ trigger[j] = tr

\* StartNodeCheckJob up to the mutex; airports come with updates only.
PassChecks(j, tr, a) ==
  /\ calls < MaxCalls
  /\ Accepts(j, tr)
  /\ (a = None) <=> (tr # "airport_update")
  /\ calls' = calls + 1
  /\ starting' = starting \cup {<<j, tr, a>>}
  /\ UNCHANGED <<jobVars, slot, loopVars, pending, owed, edits, panics>>

Updates(a) == IF a = None THEN {} ELSE {a}

\* The update is owed a run, unless the job stopped to take updates since the
\* checks.
Owe(j, a) ==
  owed' = [owed EXCEPT ![j] =
             IF Accepts(j, "airport_update") THEN @ \cup Updates(a) ELSE @]

\* Mutant of Reserve: the slot is taken over without a look at it.
ReserveTaken(j, tr, a, l) ==
  /\ <<j, tr, a>> \in starting
  /\ starting' = starting \ {<<j, tr, a>>}
  /\ pc[l] = "free"
  /\ slot' = [slot EXCEPT ![j] = l]
  /\ pc' = [pc EXCEPT ![l] = "read"]
  /\ job' = [job EXCEPT ![l] = j]
  /\ cause' = [cause EXCEPT ![l] = tr]
  /\ events' = [events EXCEPT ![l] = Updates(a)]
  /\ Owe(j, a)
  /\ UNCHANGED <<jobVars, pending, boundVars>>

\* StartNodeCheckJob: the slot is free, and l becomes its owner.
Reserve(j, tr, a, l) ==
  /\ <<j, tr, a>> \in starting
  /\ starting' = starting \ {<<j, tr, a>>}
  /\ slot[j] = None
  /\ pc[l] = "free"
  /\ slot' = [slot EXCEPT ![j] = l]
  /\ pc' = [pc EXCEPT ![l] = "read"]
  /\ job' = [job EXCEPT ![l] = j]
  /\ cause' = [cause EXCEPT ![l] = tr]
  /\ events' = [events EXCEPT ![l] = Updates(a)]
  /\ pending' = [pending EXCEPT ![l] = {}]
  /\ Owe(j, a)
  /\ UNCHANGED <<jobVars, boundVars>>

\* StartNodeCheckJob: the slot is taken; an update waits, others are refused.
MergeOrRefuse(j, tr, a) ==
  /\ <<j, tr, a>> \in starting
  /\ starting' = starting \ {<<j, tr, a>>}
  /\ slot[j] # None
  /\ pending' = [pending EXCEPT ![slot[j]] = @ \cup Updates(a)]
  /\ Owe(j, a)
  /\ UNCHANGED <<jobVars, slot, loopVars, boundVars>>

\* The owner re-reads its job and begins the run, or gives up.
ReadJob(l) ==
  /\ pc[l] = "read"
  /\ LET j == job[l]
         ok == Accepts(j, cause[l])
     IN  /\ pc' = [pc EXCEPT ![l] = IF ok THEN "run" ELSE "exit"]
         /\ owed' = [owed EXCEPT ![j] =
                       IF ~ok THEN @
                       ELSE IF events[l] = {} THEN {} ELSE @ \ events[l]]
  /\ UNCHANGED <<jobVars, starting, slot, job, cause, events, pending, boundVars>>

\* The run ends, its outcome is recorded.
EndRun(l) ==
  /\ pc[l] = "run"
  /\ pc' = [pc EXCEPT ![l] = "drain"]
  /\ UNCHANGED <<jobVars, starting, slot, job, cause, events, pending, owed, boundVars>>

\* Mutant of Panic: nothing is deferred.
PanicKeepsSlot(l) ==
  /\ pc[l] = "run"
  /\ panics < MaxPanics
  /\ panics' = panics + 1
  /\ pc' = [pc EXCEPT ![l] = "free"]
  /\ UNCHANGED <<jobVars, starting, slot, job, cause, events, pending, owed, calls, edits>>

\* The run panics; the deferred function recovers.
Panic(l) ==
  /\ pc[l] = "run"
  /\ panics < MaxPanics
  /\ panics' = panics + 1
  /\ pc' = [pc EXCEPT ![l] = "exit"]
  /\ UNCHANGED <<jobVars, starting, slot, job, cause, events, pending, owed, calls, edits>>

\* Mutant of Drain: the slot is freed whatever is pending.
DrainDrops(l) ==
  /\ pc[l] = "drain"
  /\ slot' = [slot EXCEPT ![job[l]] = None]
  /\ pc' = [pc EXCEPT ![l] = "exit"]
  /\ UNCHANGED <<jobVars, starting, job, cause, events, pending, owed, boundVars>>

\* Under the mutex: free the slot, or take what is pending for another run.
Drain(l) ==
  /\ pc[l] = "drain"
  /\ IF pending[l] = {}
     THEN /\ slot' = [slot EXCEPT ![job[l]] = None]
          /\ pc' = [pc EXCEPT ![l] = "exit"]
          /\ UNCHANGED <<cause, events, pending>>
     ELSE /\ events' = [events EXCEPT ![l] = pending[l]]
          /\ pending' = [pending EXCEPT ![l] = {}]
          /\ cause' = [cause EXCEPT ![l] = "airport_update"]
          /\ pc' = [pc EXCEPT ![l] = "read"]
          /\ UNCHANGED slot
  /\ UNCHANGED <<jobVars, starting, job, owed, boundVars>>

\* Mutant of Exit: the slot is released whoever owns it now.
ExitAny(l) ==
  /\ pc[l] = "exit"
  /\ slot' = [slot EXCEPT ![job[l]] = None]
  /\ pc' = [pc EXCEPT ![l] = "free"]
  /\ job' = [job EXCEPT ![l] = None]
  /\ cause' = [cause EXCEPT ![l] = None]
  /\ events' = [events EXCEPT ![l] = {}]
  /\ pending' = [pending EXCEPT ![l] = {}]
  /\ UNCHANGED <<jobVars, starting, owed, boundVars>>

\* The deferred function: release the slot if it is still this owner's.
Exit(l) ==
  /\ pc[l] = "exit"
  /\ slot' = [slot EXCEPT ![job[l]] = IF @ = l THEN None ELSE @]
  /\ pc' = [pc EXCEPT ![l] = "free"]
  /\ job' = [job EXCEPT ![l] = None]
  /\ cause' = [cause EXCEPT ![l] = None]
  /\ events' = [events EXCEPT ![l] = {}]
  /\ pending' = [pending EXCEPT ![l] = {}]
  /\ UNCHANGED <<jobVars, starting, owed, boundVars>>

\* SaveNodeCheckJob, under smartGroupConfigMu; updates accepted before are
\* void unless the job still takes them.
SaveJob(j, en, tr) ==
  /\ edits < MaxEdits
  /\ stored[j]
  /\ deleting = {}
  /\ <<en, tr>> # <<enabled[j], trigger[j]>>
  /\ enabled' = [enabled EXCEPT ![j] = en]
  /\ trigger' = [trigger EXCEPT ![j] = tr]
  /\ owed' = [owed EXCEPT ![j] = IF en /\ tr = "airport_update" THEN @ ELSE {}]
  /\ edits' = edits + 1
  /\ UNCHANGED <<stored, deleting, starting, slot, loopVars, pending, calls, panics>>

\* DeleteNodeCheckJob, under the same mutex: it refuses a running job ...
BeginDelete(j) ==
  /\ edits < MaxEdits
  /\ stored[j]
  /\ deleting = {}
  /\ slot[j] = None
  /\ deleting' = {j}
  /\ edits' = edits + 1
  /\ UNCHANGED <<trigger, enabled, stored, starting, slot, loopVars, pending, owed, calls, panics>>

\* ... and deletes the job some time after that look.
DeleteJob(j) ==
  /\ j \in deleting
  /\ deleting' = {}
  /\ stored' = [stored EXCEPT ![j] = FALSE]
  /\ owed' = [owed EXCEPT ![j] = {}]
  /\ UNCHANGED <<trigger, enabled, starting, slot, loopVars, pending, boundVars>>

StartCall(j, tr, a) == MergeOrRefuse(j, tr, a) \/ \E l \in Loop : Reserve(j, tr, a, l)

OwnerStep(l) == ReadJob(l) \/ EndRun(l) \/ Panic(l) \/ Drain(l) \/ Exit(l)

Next ==
  \/ \E j \in Job, tr \in Trigger, a \in Airport \cup {None} :
       PassChecks(j, tr, a) \/ StartCall(j, tr, a)
  \/ \E l \in Loop : OwnerStep(l)
  \/ \E j \in Job :
       \/ \E en \in BOOLEAN, tr \in {"scheduled", "airport_update"} : SaveJob(j, en, tr)
       \/ BeginDelete(j) \/ DeleteJob(j)

Spec == Init /\ [][Next]_vars

\* A call past its checks gets the mutex, and an owner goes on.  That its run
\* ends is assumed: by SpeedTest's EndsOrOversleeps a run does unless the
\* dispatcher of an adaptive phase misses the last wake-up.
Fairness ==
  /\ \A j \in Job, tr \in Trigger, a \in Airport \cup {None} : WF_vars(StartCall(j, tr, a))
  /\ \A l \in Loop : WF_vars(OwnerStep(l))

FairSpec == Spec /\ Fairness

-----------------------------------------------------------------------------
TypeOK ==
  /\ trigger \in [Job -> {"scheduled", "airport_update"}]
  /\ enabled \in [Job -> BOOLEAN]
  /\ stored \in [Job -> BOOLEAN]
  /\ deleting \subseteq Job
  /\ starting \subseteq Job \X Trigger \X (Airport \cup {None})
  /\ slot \in [Job -> Loop \cup {None}]
  /\ pc \in [Loop -> {"free", "read", "run", "drain", "exit"}]
  /\ job \in [Loop -> Job \cup {None}]
  /\ cause \in [Loop -> Trigger \cup {None}]
  /\ events \in [Loop -> SUBSET Airport]
  /\ pending \in [Loop -> SUBSET Airport]
  /\ owed \in [Job -> SUBSET Airport]
  /\ calls \in 0 .. MaxCalls /\ edits \in 0 .. MaxEdits /\ panics \in 0 .. MaxPanics

\* An owner keeps its slot from the reservation to the end of its last run,
\* and a slot always has an owner that will release it.
OwnerHoldsSlot ==
  /\ \A l \in Loop : pc[l] \in {"read", "run", "drain"} => slot[job[l]] = l
  /\ \A j \in Job : slot[j] # None => job[slot[j]] = j /\ pc[slot[j]] # "free"

\* The runs of one job never overlap, and accepted updates are kept for a run
\* that begins later, unless the job is edited not to take them:
\* CoalescedRuns.
Runs == INSTANCE CoalescedRuns WITH
  Target <- Job, Event <- Airport, Runner <- Loop,
  takes <- [j \in Job |-> IF Accepts(j, "airport_update") THEN Airport ELSE {}],
  runners <- [j \in Job |-> {l \in Loop : pc[l] = "run" /\ job[l] = j}]

ImplementsRuns == Runs!Spec

\* The slot is always released in the end, also after a panic or an edit, so
\* that the job can be started again.
SlotReleased == \A j \in Job : slot[j] # None ~> slot[j] = None

\* "Airport events during a run are merged and run afterwards"
\* (node_check_jobs.go:103): an accepted update of a job that still takes
\* updates is covered by a run.
AcceptedUpdateIsChecked ==
  \A j \in Job, a \in Airport : a \in owed[j] ~> a \notin owed[j]

\* The same for a job that nobody edits and whose runs do not panic, whatever
\* calls meet each other and the end of a run.
UndisturbedUpdateIsChecked ==
  \A j \in Job, a \in Airport :
    a \in owed[j] ~> a \notin owed[j] \/ edits > 0 \/ panics > 0
=============================================================================
