-------------------------- MODULE SmartGroupChecks --------------------------
(***************************************************************************)
(* The checks of smart groups (services/scheduler/smart_group_task.go):    *)
(* after an airport update a goroutine reserves every group that has nodes *)
(* of the airport, groups of one profile are checked as one batch, and     *)
(* updates that meet a reserved group wait in its pending set, for which   *)
(* the end of the batch starts a follow-up goroutine.  Users and cron      *)
(* check one group at a time through StartSmartGroupCheck.                 *)
(*                                                                         *)
(* smartGroupCheckMu makes each reservation and each release atomic.  The  *)
(* run of a batch is a step to its beginning and a step to its end, which  *)
(* a panic of the executor reaches as well.                                *)
(***************************************************************************)
EXTENDS Integers

CONSTANTS
  Group, Airport,
  Profiles,   \* the ways to give every group a profile
  Worker,     \* names for the goroutines that live at one time
  MaxStarts,  \* bound on the airport updates and manual or scheduled starts
  MaxEdits,   \* bound on the edits of groups
  MaxErrors   \* bound on the failed reads of the database

ASSUME ProfilesAssumption == Profiles \subseteq [Group -> Nat]
ASSUME BoundAssumption == MaxStarts \in Nat /\ MaxEdits \in Nat /\ MaxErrors \in Nat

VARIABLES
  accepts,   \* the stored group's CheckAfterAirportUpdate
  covers,    \* airports with candidates of the stored group
  profile,   \* its CheckProfileID
  reserved,  \* the keys of smartGroupChecks ...
  pending,   \* ... and their values
  pc,        \* where each goroutine stands
  want,      \* per group the airports it was started for (pendingGroups, or
             \* the updated airport for every group)
  goal,      \* per group the airports with target nodes, as read by the goroutine
  todo,      \* groups its loop has not reached
  held,      \* groups it has reserved and not released
  running,   \* the batch it executes
  owed,      \* accepted updates no check reserved since has covered
  starts, edits, errors

groupVars == <<accepts, covers, profile>>
mapVars == <<reserved, pending>>
workVars == <<pc, want, goal, todo, held, running>>
boundVars == <<starts, edits, errors>>
vars == <<groupVars, mapVars, workVars, owed, boundVars>>

Nothing == [g \in Group |-> {}]

Init ==
  /\ accepts = [g \in Group |-> TRUE]
  /\ covers = [g \in Group |-> Airport]
  /\ profile \in Profiles
  /\ reserved = {}
  /\ pending = Nothing
  /\ pc = [w \in Worker |-> "free"]
  /\ want = [w \in Worker |-> Nothing]
  /\ goal = [w \in Worker |-> Nothing]
  /\ todo = [w \in Worker |-> {}]
  /\ held = [w \in Worker |-> {}]
  /\ running = [w \in Worker |-> {}]
  /\ owed = Nothing
  /\ starts = 0
  /\ edits = 0
  /\ errors = 0

-----------------------------------------------------------------------------
\* The name a new goroutine gets, which does not matter.
Fresh(at) == CHOOSE w \in Worker : at[w] = "free"

\* Another goroutine may be started from outside.
MayStart == starts < MaxStarts /\ \E w \in Worker : pc[w] = "free"

\* RunSmartGroupChecksAfterAirportUpdate.
AirportUpdated(a) ==
  /\ MayStart
  /\ starts' = starts + 1
  /\ pc' = [pc EXCEPT ![Fresh(pc)] = "load"]
  /\ want' = [want EXCEPT ![Fresh(pc)] = [g \in Group |-> {a}]]
  /\ UNCHANGED <<groupVars, mapVars, goal, todo, held, running, owed, edits, errors>>

\* Mutant of StartSmartGroupCheck: it does not ask whether the group is free.
StartBusyGroup(g) ==
  /\ MayStart
  /\ starts' = starts + 1
  /\ reserved' = reserved \cup {g}
  /\ held' = [held EXCEPT ![Fresh(pc)] = {g}]
  /\ pc' = [pc EXCEPT ![Fresh(pc)] = "reserve"]
  /\ UNCHANGED <<groupVars, pending, want, goal, todo, running, owed, edits, errors>>

\* StartSmartGroupCheck that finds the group free; one that does not changes
\* nothing.  It may check a single node, so it covers no update.
StartSmartGroupCheck(g) ==
  /\ MayStart
  /\ g \notin reserved
  /\ starts' = starts + 1
  /\ reserved' = reserved \cup {g}
  /\ pending' = [pending EXCEPT ![g] = {}]
  /\ held' = [held EXCEPT ![Fresh(pc)] = {g}]
  /\ pc' = [pc EXCEPT ![Fresh(pc)] = "reserve"]
  /\ UNCHANGED <<groupVars, want, goal, todo, running, owed, edits, errors>>

\* The goroutine goes on with groups T to visit and groups H to check, or
\* returns.
GoOn(w, T, H) ==
  /\ todo' = [todo EXCEPT ![w] = T]
  /\ held' = [held EXCEPT ![w] = H]
  /\ pc' = [pc EXCEPT ![w] = IF T = {} /\ H = {} THEN "free" ELSE "reserve"]
  /\ want' = [want EXCEPT ![w] = IF T = {} THEN Nothing ELSE @]

\* The goroutine reads the groups that take updates, with their conditions.
LoadGroups(w) ==
  /\ pc[w] = "load"
  /\ LET targets == [g \in Group |-> IF accepts[g] THEN want[w][g] \cap covers[g] ELSE {}]
     IN  /\ goal' = [goal EXCEPT ![w] = targets]
         /\ GoOn(w, {g \in Group : targets[g] # {}}, {})
  /\ UNCHANGED <<groupVars, mapVars, running, owed, boundVars>>

\* The read fails and everything the goroutine was started for is dropped.
LoadFails(w) ==
  /\ pc[w] = "load"
  /\ errors < MaxErrors
  /\ errors' = errors + 1
  /\ GoOn(w, {}, {})
  /\ UNCHANGED <<groupVars, mapVars, goal, running, owed, starts, edits>>

\* The loop leaves group g behind.
Visited(w, g, H) ==
  /\ GoOn(w, todo[w] \ {g}, H)
  /\ goal' = [goal EXCEPT ![w][g] = {}]

\* The profile or the candidates of one group cannot be read.
SkipGroup(w, g) ==
  /\ g \in todo[w]
  /\ errors < MaxErrors
  /\ errors' = errors + 1
  /\ Visited(w, g, held[w])
  /\ UNCHANGED <<groupVars, mapVars, running, owed, starts, edits>>

\* Mutant of Reserve: a group in use is reserved again.
ReserveTaken(w, g) ==
  /\ g \in todo[w]
  /\ reserved' = reserved \cup {g}
  /\ owed' = [owed EXCEPT ![g] = @ \ goal[w][g]]
  /\ Visited(w, g, held[w] \cup {g})
  /\ UNCHANGED <<groupVars, pending, running, boundVars>>

\* reserveSmartGroupCheck succeeds: the group waits for its batch.
Reserve(w, g) ==
  /\ g \in todo[w]
  /\ g \notin reserved
  /\ reserved' = reserved \cup {g}
  /\ pending' = [pending EXCEPT ![g] = {}]
  /\ owed' = [owed EXCEPT ![g] = @ \ goal[w][g]]
  /\ Visited(w, g, held[w] \cup {g})
  /\ UNCHANGED <<groupVars, running, boundVars>>

\* reserveSmartGroupCheck fails: the updates wait for the end of the batch.
Merge(w, g) ==
  /\ g \in todo[w]
  /\ g \in reserved
  /\ pending' = [pending EXCEPT ![g] = @ \cup want[w][g]]
  /\ owed' = [owed EXCEPT ![g] =
                IF accepts[g] THEN @ \cup (goal[w][g] \cap covers[g]) ELSE @]
  /\ Visited(w, g, held[w])
  /\ UNCHANGED <<groupVars, reserved, running, boundVars>>

\* The batch of the lowest profile left begins; the groups of the other
\* profiles stay reserved until their turn.
BeginBatch(w) ==
  /\ pc[w] = "reserve"
  /\ todo[w] = {}
  /\ pc' = [pc EXCEPT ![w] = "run"]
  /\ running' = [running EXCEPT ![w] =
                   {g \in held[w] : \A h \in held[w] : profile[g] <= profile[h]}]
  /\ UNCHANGED <<groupVars, mapVars, want, goal, todo, held, owed, boundVars>>

\* Mutant of Release: a group with updates waiting stays reserved.
ReleaseQuiet(R) ==
  /\ reserved' = reserved \ {g \in R : pending[g] = {}}
  /\ pending' = [g \in Group |-> IF g \in R THEN {} ELSE pending[g]]

\* finishSmartGroupChecks: the groups R leave smartGroupChecks ...
Release(R) ==
  /\ reserved' = reserved \ R
  /\ pending' = [g \in Group |-> IF g \in R THEN {} ELSE pending[g]]

\* Mutant of Waited: nothing is taken over.
WaitedNothing(R) == Nothing

\* ... and the updates that waited for them are taken over.
Waited(R) == [g \in Group |-> IF g \in R THEN pending[g] ELSE {}]

\* The batch, however it ended, releases all its groups at once and starts a
\* follow-up for the updates that waited.
FinishBatch(w) ==
  /\ pc[w] = "run"
  /\ Release(running[w])
  /\ held' = [held EXCEPT ![w] = @ \ running[w]]
  /\ running' = [running EXCEPT ![w] = {}]
  /\ LET waited == Waited(running[w])
         left == [pc EXCEPT ![w] = IF held'[w] = {} THEN "free" ELSE "reserve"]
     IN  \/ /\ waited = Nothing
            /\ pc' = left
            /\ UNCHANGED want
         \/ /\ waited # Nothing
            /\ \E v \in Worker : left[v] = "free"
            /\ pc' = [left EXCEPT ![Fresh(left)] = "load"]
            /\ want' = [want EXCEPT ![Fresh(left)] = waited]
  /\ UNCHANGED <<groupVars, goal, todo, owed, boundVars>>

\* The user edits the group; updates it does not take any more are void.  A
\* new profile would only change with whom the group shares its next batch.
EditGroup(g, acc, cov) ==
  /\ edits < MaxEdits
  /\ <<acc, cov>> # <<accepts[g], covers[g]>>
  /\ edits' = edits + 1
  /\ accepts' = [accepts EXCEPT ![g] = acc]
  /\ covers' = [covers EXCEPT ![g] = cov]
  /\ owed' = [owed EXCEPT ![g] = IF acc THEN @ \cap cov ELSE {}]
  /\ UNCHANGED <<profile, mapVars, workVars, starts, errors>>

Step(w) ==
  \/ LoadGroups(w) \/ LoadFails(w)
  \/ \E g \in Group : SkipGroup(w, g) \/ Reserve(w, g) \/ Merge(w, g)
  \/ BeginBatch(w) \/ FinishBatch(w)

Next ==
  \/ \E a \in Airport : AirportUpdated(a)
  \/ \E g \in Group : StartSmartGroupCheck(g)
  \/ \E w \in Worker : Step(w)
  \/ \E g \in Group, acc \in BOOLEAN, cov \in SUBSET Airport : EditGroup(g, acc, cov)

Spec == Init /\ [][Next]_vars

\* A started goroutine goes on.  That a batch ends is assumed, as it is in
\* NodeCheckJobs: SpeedTest's EndsOrOversleeps has the one exception.
FairSpec == Spec /\ \A w \in Worker : WF_vars(Step(w))

-----------------------------------------------------------------------------
\* Types; a batch consists of groups its goroutine has reserved.
TypeOK ==
  /\ accepts \in [Group -> BOOLEAN]
  /\ covers \in [Group -> SUBSET Airport]
  /\ profile \in [Group -> Nat]
  /\ reserved \subseteq Group
  /\ pending \in [Group -> SUBSET Airport]
  /\ pc \in [Worker -> {"free", "load", "reserve", "run"}]
  /\ want \in [Worker -> [Group -> SUBSET Airport]]
  /\ goal \in [Worker -> [Group -> SUBSET Airport]]
  /\ todo \in [Worker -> SUBSET Group]
  /\ held \in [Worker -> SUBSET Group]
  /\ running \in [Worker -> SUBSET Group]
  /\ \A w \in Worker : running[w] \subseteq held[w]
  /\ owed \in [Group -> SUBSET Airport]
  /\ starts \in 0 .. MaxStarts /\ edits \in 0 .. MaxEdits /\ errors \in 0 .. MaxErrors

\* Every reserved group has exactly one goroutine that will release it, and no
\* goroutine works on a group that somebody else may reserve, though a
\* goroutine releases its batches one by one while later ones wait.
ReservedHasOneHolder ==
  /\ reserved = UNION {held[w] : w \in Worker}
  /\ \A v, w \in Worker : v # w => held[v] \cap held[w] = {}

\* The checks of one group never overlap and the updates that meet a check
\* are kept for one that begins later: CoalescedRuns.
Runs == INSTANCE CoalescedRuns WITH
  Target <- Group, Event <- Airport, Runner <- Worker,
  takes <- [g \in Group |-> IF accepts[g] THEN covers[g] ELSE {}],
  runners <- [g \in Group |-> {w \in Worker : g \in held[w]}]

ImplementsRuns == Runs!Spec

\* Every group is released in the end, so that it can be checked again.
GroupReleased == \A g \in Group : g \in reserved ~> g \notin reserved

\* An update that met a check in progress is covered by a later one, although
\* the group is free for others between the check and the follow-up, and
\* whether or not the user edits the group meanwhile.  A database error may
\* lose it: the follow-up returns when it cannot load the groups (line 171).
AcceptedUpdateIsChecked ==
  \A g \in Group, a \in Airport :
    a \in owed[g] ~> a \notin owed[g] \/ errors > 0
=============================================================================
