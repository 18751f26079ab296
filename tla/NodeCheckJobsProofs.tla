------------------------ MODULE NodeCheckJobsProofs ------------------------
(***************************************************************************)
(* Proofs about NodeCheckJobs, for any jobs, airports and goroutines, and  *)
(* any number of calls, edits and panics.                                  *)
(***************************************************************************)
EXTENDS NodeCheckJobs, TLAPS

\* OwnerHoldsSlot becomes inductive with the types and the owners' jobs: what
\* an owner does to slot[job[l]] is then known to concern a job.
IInv ==
  /\ TypeOK
  /\ OwnerHoldsSlot
  /\ \A l \in Loop : pc[l] # "free" => job[l] \in Job

-----------------------------------------------------------------------------
LEMMA InitInv == Init => IInv
BY BoundAssumption DEF Init, IInv, TypeOK, OwnerHoldsSlot

LEMMA OweType ==
  ASSUME TypeOK, NEW j \in Job, NEW a \in Airport \cup {None}, Owe(j, a)
  PROVE  owed' \in [Job -> SUBSET Airport]
BY DEF TypeOK, Owe, Updates

LEMMA ReserveInv ==
  ASSUME IInv, NEW j \in Job, NEW tr \in Trigger, NEW a \in Airport \cup {None},
         NEW l \in Loop, Reserve(j, tr, a, l)
  PROVE  IInv'
<1> USE DEF IInv, TypeOK
<1>1. owed' \in [Job -> SUBSET Airport]
  BY OweType DEF Reserve
<1>2. Updates(a) \subseteq Airport
  BY DEF Updates
<1>3. TypeOK'
  BY <1>1, <1>2 DEF Reserve, jobVars, boundVars
<1>4. /\ slot' = [slot EXCEPT ![j] = l] /\ slot[j] = None
      /\ pc' = [pc EXCEPT ![l] = "read"] /\ pc[l] = "free"
      /\ job' = [job EXCEPT ![l] = j]
  BY DEF Reserve
<1>5. OwnerHoldsSlot'
  <2>1. ASSUME NEW m \in Loop, pc'[m] \in {"read", "run", "drain"}
        PROVE  slot'[job'[m]] = m
    <3>1. CASE m = l
      BY <1>4, <3>1
    <3>2. CASE m # l
      <4>1. slot[job[m]] = m /\ job[m] \in Job
        BY <1>4, <2>1, <3>2 DEF OwnerHoldsSlot
      <4>2. job[m] # j
        BY <1>4, <4>1, NoneAssumption
      <4>3. QED  BY <1>4, <3>2, <4>1, <4>2
    <3>3. QED  BY <3>1, <3>2
  <2>2. ASSUME NEW k \in Job, slot'[k] # None
        PROVE  job'[slot'[k]] = k /\ pc'[slot'[k]] # "free"
    BY <1>4, <2>2 DEF OwnerHoldsSlot
  <2>3. QED  BY <2>1, <2>2 DEF OwnerHoldsSlot
<1>6. \A m \in Loop : pc'[m] # "free" => job'[m] \in Job
  BY <1>4
<1>7. QED  BY <1>3, <1>5, <1>6

\* The steps that leave the slots alone, and in which no owner starts to need
\* or stops to hold one.
LEMMA SameSlotsInv ==
  ASSUME IInv, TypeOK', slot' = slot, job' = job,
         \A l \in Loop : /\ pc'[l] = "free" <=> pc[l] = "free"
                         /\ pc'[l] \in {"read", "run", "drain"}
                              => pc[l] \in {"read", "run", "drain"}
  PROVE  IInv'
BY DEF IInv, TypeOK, OwnerHoldsSlot

LEMMA OwnerInv ==
  ASSUME IInv, NEW l \in Loop, OwnerStep(l)
  PROVE  IInv'
<1> USE DEF IInv, TypeOK
<1>1. CASE ReadJob(l)
  <2>1. job[l] \in Job
    BY <1>1 DEF ReadJob
  <2>2. owed' \in [Job -> SUBSET Airport]
    BY <1>1, <2>1 DEF ReadJob
  <2>3. /\ pc[l] = "read" /\ pc' \in {[pc EXCEPT ![l] = "run"], [pc EXCEPT ![l] = "exit"]}
        /\ slot' = slot /\ job' = job
    BY <1>1 DEF ReadJob
  <2>4. TypeOK'
    BY <1>1, <2>2, <2>3 DEF ReadJob, jobVars, boundVars
  <2>5. QED  BY <2>3, <2>4, SameSlotsInv
<1>2. CASE EndRun(l)
  <2>1. TypeOK'
    BY <1>2 DEF EndRun, jobVars, boundVars
  <2>2. QED  BY <1>2, <2>1, SameSlotsInv DEF EndRun
<1>3. CASE Panic(l)
  <2>1. TypeOK'
    BY <1>3, BoundAssumption DEF Panic, jobVars
  <2>2. QED  BY <1>3, <2>1, SameSlotsInv DEF Panic
<1>4. CASE Drain(l)
  <2>1. pc[l] = "drain" /\ job[l] \in Job /\ slot[job[l]] = l
    BY <1>4 DEF Drain, OwnerHoldsSlot
  <2>2. CASE pending[l] = {}
    <3>1. slot' = [slot EXCEPT ![job[l]] = None] /\ pc' = [pc EXCEPT ![l] = "exit"] /\ job' = job
      BY <1>4, <2>2 DEF Drain
    <3>2. TypeOK'
      BY <1>4, <2>1, <2>2, <3>1 DEF Drain, jobVars, boundVars
    <3>3. OwnerHoldsSlot'
      BY <2>1, <3>1 DEF OwnerHoldsSlot
    <3>4. QED  BY <3>1, <3>2, <3>3
  <2>3. CASE pending[l] # {}
    <3>1. slot' = slot /\ pc' = [pc EXCEPT ![l] = "read"] /\ job' = job
      BY <1>4, <2>3 DEF Drain
    <3>2. TypeOK'
      BY <1>4, <2>1, <2>3, <3>1 DEF Drain, jobVars, boundVars, Trigger
    <3>3. QED  BY <2>1, <3>1, <3>2, SameSlotsInv
  <2>4. QED  BY <2>2, <2>3
<1>5. CASE Exit(l)
  <2>1. /\ pc[l] = "exit" /\ job[l] \in Job
        /\ pc' = [pc EXCEPT ![l] = "free"] /\ job' = [job EXCEPT ![l] = None]
        /\ slot' = [slot EXCEPT ![job[l]] = IF @ = l THEN None ELSE @]
    BY <1>5 DEF Exit
  <2>2. TypeOK'
    BY <1>5, <2>1 DEF Exit, jobVars, boundVars
  <2>3. ASSUME NEW m \in Loop, pc'[m] \in {"read", "run", "drain"}
        PROVE  slot'[job'[m]] = m
    <3>1. m # l /\ slot[job[m]] = m /\ job[m] \in Job /\ job'[m] = job[m]
      BY <2>1, <2>3 DEF OwnerHoldsSlot
    <3>2. QED  BY <2>1, <3>1
  <2>4. ASSUME NEW k \in Job, slot'[k] # None
        PROVE  job'[slot'[k]] = k /\ pc'[slot'[k]] # "free"
    <3>1. slot'[k] = slot[k] /\ slot[k] # l
      BY <2>1, <2>4 DEF OwnerHoldsSlot
    <3>2. QED  BY <2>1, <2>4, <3>1 DEF OwnerHoldsSlot
  <2>5. QED  BY <2>1, <2>2, <2>3, <2>4 DEF OwnerHoldsSlot
<1>6. QED  BY <1>1, <1>2, <1>3, <1>4, <1>5 DEF OwnerStep

LEMMA NextInv == IInv /\ [Next]_vars => IInv'
<1> SUFFICES ASSUME IInv, [Next]_vars PROVE IInv'
  OBVIOUS
<1>1. ASSUME NEW j \in Job, NEW tr \in Trigger, NEW a \in Airport \cup {None},
             PassChecks(j, tr, a)
      PROVE  IInv'
  <2>1. TypeOK'
    BY <1>1, BoundAssumption DEF IInv, TypeOK, PassChecks, jobVars, loopVars
  <2>2. QED  BY <1>1, <2>1, SameSlotsInv DEF PassChecks, loopVars
<1>2. ASSUME NEW j \in Job, NEW tr \in Trigger, NEW a \in Airport \cup {None},
             MergeOrRefuse(j, tr, a)
      PROVE  IInv'
  <2>1. owed' \in [Job -> SUBSET Airport]
    BY <1>2, OweType DEF MergeOrRefuse, IInv
  <2>2. Updates(a) \subseteq Airport
    BY DEF Updates
  <2>3. TypeOK'
    BY <1>2, <2>1, <2>2 DEF IInv, TypeOK, MergeOrRefuse, jobVars, loopVars, boundVars
  <2>4. QED  BY <1>2, <2>3, SameSlotsInv DEF MergeOrRefuse, loopVars
<1>3. ASSUME NEW j \in Job, NEW en \in BOOLEAN, NEW tr \in {"scheduled", "airport_update"},
             SaveJob(j, en, tr)
      PROVE  IInv'
  <2>1. TypeOK'
    BY <1>3, BoundAssumption DEF IInv, TypeOK, SaveJob, loopVars
  <2>2. QED  BY <1>3, <2>1, SameSlotsInv DEF SaveJob, loopVars
<1>4. ASSUME NEW j \in Job, BeginDelete(j) \/ DeleteJob(j)
      PROVE  IInv'
  <2>1. TypeOK'
    <3>1. CASE BeginDelete(j)
      BY <3>1, BoundAssumption DEF IInv, TypeOK, BeginDelete, loopVars
    <3>2. CASE DeleteJob(j)
      BY <3>2 DEF IInv, TypeOK, DeleteJob, loopVars, boundVars
    <3>3. QED  BY <1>4, <3>1, <3>2
  <2>2. QED  BY <1>4, <2>1, SameSlotsInv DEF BeginDelete, DeleteJob, loopVars
<1>5. CASE UNCHANGED vars
  BY <1>5 DEF IInv, TypeOK, OwnerHoldsSlot, vars, jobVars, loopVars, boundVars
<1>6. QED
  BY <1>1, <1>2, <1>3, <1>4, <1>5, ReserveInv, OwnerInv DEF Next, StartCall

-----------------------------------------------------------------------------
\* The strengthened invariant holds in every state.
THEOREM Invariance == Spec => []IInv
<1>1. QED  BY InitInv, NextInv, PTL DEF Spec

\* Slots, goroutines and waiting events are what the other theorems take them
\* to be.
THEOREM TypeCorrect == Spec => []TypeOK
<1>1. IInv => TypeOK
  BY DEF IInv
<1>2. QED  BY <1>1, Invariance, PTL

\* A job's slot belongs to one goroutine from the reservation to the end of its
\* last run, and every slot taken has a goroutine that will release it.
THEOREM OneOwner == Spec => []OwnerHoldsSlot
<1>1. IInv => OwnerHoldsSlot
  BY DEF IInv
<1>2. QED  BY <1>1, Invariance, PTL

-----------------------------------------------------------------------------
\* The refinement mapping, named for the proof.
Taken == [j \in Job |-> IF Accepts(j, "airport_update") THEN Airport ELSE {}]

Running == [j \in Job |-> {l \in Loop : pc[l] = "run" /\ job[l] = j}]

\* A job has no runner but the owner of its slot.
LEMMA OneRunner ==
  ASSUME IInv, NEW l \in Loop, pc[l] \in {"read", "run", "drain"}
  PROVE  \A m \in Loop : pc[m] = "run" /\ job[m] = job[l] => m = l
BY DEF IInv, OwnerHoldsSlot

\* StartNodeCheckJob: the update is accepted if the job still takes updates.
LEMMA AcceptRefines ==
  ASSUME NEW j \in Job, NEW a \in Airport \cup {None}, Owe(j, a), Taken' = Taken,
         Running' = Running
  PROVE  Runs!Next
<1> DEFINE E == IF Accepts(j, "airport_update") THEN Updates(a) ELSE {}
<1>1. E \subseteq Taken[j] /\ E \in SUBSET Airport
  BY DEF Taken, Updates
<1>2. owed' = [owed EXCEPT ![j] = @ \cup E]
  BY DEF Owe
<1>3. Runs!Accept(j, E)
  BY <1>1, <1>2 DEF Runs!Accept, Taken, Running
<1>4. QED  BY <1>1, <1>3 DEF Runs!Next

\* What the administration does to a job that nobody's run depends on.
LEMMA ReconfigureRefines ==
  ASSUME IInv, NEW j \in Job, Running' = Running,
         \A k \in Job : k # j => Taken'[k] = Taken[k],
         owed' = [owed EXCEPT ![j] = IF Taken'[j] = {} THEN {} ELSE @]
  PROVE  Runs!Next
<1>1. Taken'[j] \in {{}, Airport} /\ Taken'[j] \in SUBSET Airport
  BY DEF Taken
<1>2. Taken' = [Taken EXCEPT ![j] = Taken'[j]]
  BY DEF Taken
<1>3. owed' = [owed EXCEPT ![j] = @ \cap Taken'[j]]
  BY <1>1 DEF IInv, TypeOK
<1>4. Runs!Reconfigure(j, Taken'[j])
  BY <1>2, <1>3 DEF Runs!Reconfigure, Taken, Running
<1>5. QED  BY <1>1, <1>4 DEF Runs!Next

\* Neither the jobs as configured nor the runs change.
LEMMA QuietStep ==
  ASSUME UNCHANGED <<stored, enabled, trigger>>
  PROVE  Taken' = Taken
BY DEF Taken, Accepts

LEMMA OwnerRefines ==
  ASSUME IInv, NEW l \in Loop, OwnerStep(l)
  PROVE  Runs!Next \/ UNCHANGED Runs!runVars
<1>1. Taken' = Taken
  BY QuietStep DEF OwnerStep, ReadJob, EndRun, Panic, Drain, Exit, jobVars
<1>2. TypeOK /\ (pc[l] # "free" => job[l] \in Job)
  BY DEF IInv
<1>3. CASE ReadJob(l)
  <2>1. /\ pc[l] = "read" /\ job' = job
        /\ pc' = [pc EXCEPT ![l] = IF Accepts(job[l], cause[l]) THEN "run" ELSE "exit"]
    BY <1>3 DEF ReadJob
  <2>2. CASE Accepts(job[l], cause[l])
    <3>1. PICK j \in Job, E \in SUBSET Airport :
            j = job[l] /\ E = (IF events[l] = {} THEN Airport ELSE events[l])
      BY <1>2, <2>1 DEF TypeOK
    <3>2. owed' = [owed EXCEPT ![j] = @ \ E]
      BY <1>2, <1>3, <2>1, <2>2, <3>1 DEF ReadJob, TypeOK
    <3>3. \A m \in Loop : ~(pc[m] = "run" /\ job[m] = j)
      <4>1. pc[l] \in {"read", "run", "drain"} /\ pc[l] # "run"
        BY <2>1
      <4>2. QED  BY <3>1, <4>1, OneRunner
    <3>4. Running[j] = {} /\ Running' = [Running EXCEPT ![j] = {l}]
      <4>1. \A k \in Job : Running'[k] = IF k = j THEN {l} ELSE Running[k]
        BY <1>2, <2>1, <2>2, <3>1, <3>3 DEF Running, TypeOK
      <4>2. QED  BY <3>3, <4>1 DEF Running
    <3>5. Runs!Begin(l, j, E)
      BY <1>1, <3>2, <3>4 DEF Runs!Begin, Taken, Running
    <3>6. QED  BY <3>5 DEF Runs!Next
  <2>3. CASE ~Accepts(job[l], cause[l])
    <3>1. owed' = owed
      BY <1>2, <1>3, <2>1, <2>3 DEF ReadJob, TypeOK
    <3>2. Running' = Running
      BY <1>2, <2>1, <2>3 DEF Running, TypeOK
    <3>3. QED  BY <1>1, <3>1, <3>2 DEF Runs!runVars, Taken, Running
  <2>4. QED  BY <2>2, <2>3
<1>4. CASE EndRun(l) \/ Panic(l)
  <2>1. /\ pc[l] = "run" /\ job' = job /\ owed' = owed
        /\ \A m \in Loop : pc'[m] = "run" <=> pc[m] = "run" /\ m # l
    BY <1>2, <1>4 DEF EndRun, Panic, TypeOK
  <2>2. PICK j \in Job : j = job[l]
    BY <1>2, <2>1
  <2>3. \A m \in Loop : pc[m] = "run" /\ job[m] = j <=> m = l
    <3>1. pc[l] \in {"read", "run", "drain"}
      BY <2>1
    <3>2. QED  BY <2>1, <2>2, <3>1, OneRunner
  <2>4. Running[j] = {l} /\ Running' = [k \in Job |-> IF k \in {j} THEN {} ELSE Running[k]]
    <3>1. \A k \in Job : Running'[k] = IF k \in {j} THEN {} ELSE Running[k]
      BY <2>1, <2>2, <2>3 DEF Running
    <3>2. QED  BY <2>3, <3>1 DEF Running
  <2>5. Runs!End(l, {j})
    BY <1>1, <2>1, <2>4 DEF Runs!End, Taken, Running
  <2>6. QED  BY <2>5 DEF Runs!Next
<1>5. CASE Drain(l) \/ Exit(l)
  <2>1. /\ owed' = owed
        /\ \A m \in Loop : /\ pc'[m] = "run" <=> pc[m] = "run"
                           /\ pc[m] = "run" => job'[m] = job[m]
    BY <1>2, <1>5 DEF Drain, Exit, TypeOK
  <2>2. Running' = Running
    BY <2>1 DEF Running
  <2>3. QED  BY <1>1, <2>1, <2>2 DEF Runs!runVars, Taken, Running
<1>6. QED  BY <1>3, <1>4, <1>5 DEF OwnerStep

LEMMA NextRefines == IInv /\ [Next]_vars => [Runs!Next]_Runs!runVars
<1> SUFFICES ASSUME IInv, [Next]_vars
             PROVE  Runs!Next \/ UNCHANGED Runs!runVars
  OBVIOUS
<1>1. TypeOK
  BY DEF IInv
<1>2. ASSUME NEW j \in Job, NEW tr \in Trigger, NEW a \in Airport \cup {None},
             PassChecks(j, tr, a)
      PROVE  UNCHANGED Runs!runVars
  <2>1. Taken' = Taken /\ Running' = Running /\ owed' = owed
    BY <1>2, QuietStep DEF PassChecks, jobVars, loopVars, Running
  <2>2. QED  BY <2>1 DEF Runs!runVars, Taken, Running
<1>3. ASSUME NEW j \in Job, NEW tr \in Trigger, NEW a \in Airport \cup {None},
             StartCall(j, tr, a)
      PROVE  Runs!Next
  <2>1. Owe(j, a) /\ Taken' = Taken
    BY <1>3, QuietStep DEF StartCall, MergeOrRefuse, Reserve, jobVars
  <2>2. \A m \in Loop : /\ pc'[m] = "run" <=> pc[m] = "run"
                        /\ pc[m] = "run" => job'[m] = job[m]
    BY <1>1, <1>3 DEF StartCall, MergeOrRefuse, Reserve, TypeOK, loopVars
  <2>3. Running' = Running
    BY <2>2 DEF Running
  <2>4. QED  BY <2>1, <2>3, AcceptRefines
<1>4. ASSUME NEW j \in Job, NEW en \in BOOLEAN, NEW tr \in {"scheduled", "airport_update"},
             SaveJob(j, en, tr)
      PROVE  Runs!Next
  <2>1. Running' = Running
    BY <1>4 DEF SaveJob, loopVars, Running
  <2>2. /\ \A k \in Job : k # j => Taken'[k] = Taken[k]
        /\ Taken'[j] = IF en /\ tr = "airport_update" THEN Airport ELSE {}
    BY <1>1, <1>4 DEF SaveJob, Taken, Accepts, TypeOK
  <2>3. owed[j] \subseteq Airport
    BY <1>1 DEF TypeOK
  <2>4. owed' = [owed EXCEPT ![j] = IF Taken'[j] = {} THEN {} ELSE @]
    BY <1>4, <2>2, <2>3 DEF SaveJob
  <2>5. QED  BY <2>1, <2>2, <2>4, ReconfigureRefines
<1>5. ASSUME NEW j \in Job, BeginDelete(j)
      PROVE  UNCHANGED Runs!runVars
  <2>1. Taken' = Taken /\ Running' = Running /\ owed' = owed
    BY <1>5, QuietStep DEF BeginDelete, loopVars, Running
  <2>2. QED  BY <2>1 DEF Runs!runVars, Taken, Running
<1>6. ASSUME NEW j \in Job, DeleteJob(j)
      PROVE  Runs!Next
  <2>1. Running' = Running
    BY <1>6 DEF DeleteJob, loopVars, Running
  <2>2. /\ \A k \in Job : k # j => Taken'[k] = Taken[k]
        /\ Taken'[j] = {}
    BY <1>1, <1>6 DEF DeleteJob, Taken, Accepts, TypeOK
  <2>3. owed' = [owed EXCEPT ![j] = IF Taken'[j] = {} THEN {} ELSE @]
    BY <1>6, <2>2 DEF DeleteJob
  <2>4. QED  BY <2>1, <2>2, <2>3, ReconfigureRefines
<1>7. ASSUME UNCHANGED vars
      PROVE  UNCHANGED Runs!runVars
  <2>1. Taken' = Taken /\ Running' = Running /\ owed' = owed
    BY <1>7, QuietStep DEF vars, jobVars, loopVars, Running
  <2>2. QED  BY <2>1 DEF Runs!runVars, Taken, Running
<1>8. QED
  BY <1>2, <1>3, <1>4, <1>5, <1>6, <1>7, OwnerRefines DEF Next

LEMMA InitRefines == Init => Runs!Init
BY DEF Init, Runs!Init

\* The automatic check jobs implement CoalescedRuns: the runs of one job never
\* overlap, and an accepted update is owed until a run that begins later covers
\* it or the job is edited not to take it, however calls, ends of runs, panics
\* and edits interleave.
THEOREM Refinement == Spec => ImplementsRuns
<1>1. QED  BY InitRefines, NextRefines, Invariance, PTL DEF Spec, ImplementsRuns, Runs!Spec
=============================================================================
