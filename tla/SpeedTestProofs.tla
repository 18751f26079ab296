-------------------------- MODULE SpeedTestProofs --------------------------
(***************************************************************************)
(* Proofs about SpeedTest, for any number of nodes and any limit.          *)
(***************************************************************************)
EXTENDS SpeedTest, FiniteSetTheorems, TLAPS

Busy == {n \in Node : test[n] \in {"started", "testing", "leaving"}}
Recorded == {n \in Node : results[n] = 1}

\* The phase whose tests fill speedTestResults.
Recording == mode = "tcp" \/ phase = "speed"

\* The run may still be saved, or has been.
Savable == ~ctxDone \/ pc = "saving" \/ saved

\* The loop and the goroutines it has started.
LoopInv ==
  /\ cancelled => ctxDone
  /\ pc \in {"acquire", "adding", "parked"} => next <= N
  /\ \A n \in Node : n >= next => test[n] = "none"
  /\ pc = "wait" => cancelled \/ next = N + 1
  /\ pc \in {"final", "saving", "completing", "ended"} => AllTestsOver
  /\ pc = "final" => Recording /\ (cancelled \/ next = N + 1)
  /\ pc = "saving" \/ saved => Recording /\ next = N + 1
  /\ pc = "completing" => saved
  /\ saved => pc \in {"completing", "ended"}

\* A node is recorded at most once, and, unless a cancellation keeps the run
\* from being saved, as soon as the loop and its test have passed it.
ResultsInv ==
  /\ \A n \in Node :
       /\ results[n] \in {0, 1}
       /\ n >= next \/ test[n] \in {"started", "testing"} \/ ~Recording => results[n] = 0
       /\ /\ Savable /\ Recording
          /\ n < next /\ test[n] \notin {"started", "testing"}
          => results[n] = 1

IInv ==
  /\ TypeOK
  /\ LoopInv
  /\ ResultsInv
  /\ active = Cardinality(Busy) /\ active <= MaxLimit
  /\ succ + fail = Cardinality(Recorded)

-----------------------------------------------------------------------------
LEMMA Finite ==
  /\ IsFiniteSet(Node) /\ Cardinality(Node) = N
  /\ \A S \in SUBSET Node : IsFiniteSet(S) /\ Cardinality(S) \in Nat
<1>1. IsFiniteSet(Node) /\ Cardinality(Node) = N
  BY NAssumption, FS_Interval DEF Node
<1>2. QED  BY <1>1, FS_Subset, FS_CardinalityType

LEMMA OneMore ==
  ASSUME NEW S \in SUBSET Node, NEW n \in Node, n \notin S
  PROVE  Cardinality(S \cup {n}) = Cardinality(S) + 1
BY Finite, FS_AddElement

LEMMA OneLess ==
  ASSUME NEW S \in SUBSET Node, NEW n \in S
  PROVE  Cardinality(S \ {n}) = Cardinality(S) - 1
BY Finite, FS_RemoveElement

LEMMA InitInv == Init => IInv
<1> SUFFICES ASSUME Init PROVE IInv
  OBVIOUS
<1>1. TypeOK
  <2>1. next \in 1 .. N + 1 /\ limit \in 1 .. MaxLimit /\ {progress, total, active} \subseteq Nat
    BY NAssumption DEF Init
  <2>2. /\ test \in [Node -> {"none", "started", "testing", "leaving", "waking", "over"}]
        /\ delay \in [Node -> {"none", "ok", "err"}]
        /\ results \in [Node -> Nat]
    BY DEF Init
  <2>3. QED  BY <2>1, <2>2 DEF Init, TypeOK
<1>1a. LoopInv
  BY NAssumption DEF Init, LoopInv
<1>1b. ResultsInv
  BY NAssumption DEF Init, ResultsInv, Node
<1>2. Busy = {} /\ Recorded = {}
  BY DEF Init, Busy, Recorded
<1>3. Cardinality(Busy) = 0 /\ Cardinality(Recorded) = 0
  BY <1>2, FS_EmptySet
<1>4. QED  BY <1>1, <1>1a, <1>1b, <1>3, LimitAssumption DEF Init, IInv

-----------------------------------------------------------------------------
\* The steps of the run's own goroutine, without the counts.
LEMMA DispatchControl ==
  ASSUME IInv, Dispatch
  PROVE  TypeOK' /\ LoopInv' /\ ResultsInv'
<1> USE NAssumption, LimitAssumption
    DEF IInv, TypeOK, LoopInv, ResultsInv, Node, Recording, Savable, AllTestsOver,
        taskVars, countVars, slotVars, Stopped, Report
<1>1. CASE SeeCancelled
  BY <1>1 DEF SeeCancelled
<1>2. CASE WantSlot
  BY <1>2 DEF WantSlot
<1>3. CASE SkipFailed
  BY <1>3 DEF SkipFailed
<1>4. CASE StartTest
  BY <1>4 DEF StartTest
<1>5. CASE LoopEnds
  BY <1>5 DEF LoopEnds
<1>6. CASE LatencyPhaseEnds
  <2>1. CASE Stopped
    BY <1>6, <2>1 DEF LatencyPhaseEnds
  <2>2. CASE ~Stopped /\ mode = "mihomo"
    BY <1>6, <2>2 DEF LatencyPhaseEnds
  <2>3. CASE ~Stopped /\ mode = "tcp"
    BY <1>6, <2>3 DEF LatencyPhaseEnds
  <2>4. QED  BY <2>1, <2>2, <2>3
<1>7. CASE SpeedPhaseEnds
  BY <1>7 DEF SpeedPhaseEnds
<1>8. CASE FinalCheck
  BY <1>8 DEF FinalCheck
<1>9. ASSUME NEW ok \in BOOLEAN, SaveResults(ok)
      PROVE  TypeOK' /\ LoopInv' /\ ResultsInv'
  BY <1>9 DEF SaveResults
<1>10. CASE Complete
  BY <1>10 DEF Complete
<1>11. CASE Refuse
  BY <1>11 DEF Refuse
<1>11a. CASE Park
  BY <1>11a DEF Park
<1>12. QED
  BY <1>1, <1>2, <1>3, <1>4, <1>5, <1>6, <1>7, <1>8, <1>9, <1>10, <1>11,
     <1>11a DEF Dispatch

\* What a broadcast and an adjustment do to the dispatcher and the limit.
LEMMA Waking ==
  ASSUME IInv, MaybeAdjust \/ (pc' = Woken /\ limit' = limit)
  PROVE  /\ limit' \in 1 .. MaxLimit
         /\ pc' = pc \/ (pc = "parked" /\ pc' = "acquire")
BY DEF IInv, TypeOK, MaybeAdjust, Woken

LEMMA TestControl ==
  ASSUME IInv, NEW n \in Node, TestStep(n)
  PROVE  TypeOK' /\ LoopInv' /\ ResultsInv'
<1> USE NAssumption, LimitAssumption
    DEF IInv, TypeOK, LoopInv, ResultsInv, Node, Recording, Savable, AllTestsOver,
        taskVars, countVars, slotVars, Stopped, Report
<1>1. CASE BeginTest(n)
  BY <1>1 DEF BeginTest
<1>2. CASE DropResult(n)
  BY <1>2 DEF DropResult
<1>3. CASE LeaveTest(n)
  <2>1. active - 1 \in Nat
    <3>1. n \in Busy /\ Busy \in SUBSET Node
      BY <1>3 DEF LeaveTest, Busy
    <3>2. Cardinality(Busy \ {n}) = active - 1 /\ Cardinality(Busy \ {n}) \in Nat
      BY <3>1, OneLess, Finite
    <3>3. QED  BY <3>2
  <2>2. TypeOK'
    BY <1>3, <2>1 DEF LeaveTest
  <2>3. LoopInv' /\ ResultsInv'
    BY <1>3 DEF LeaveTest
  <2>4. QED  BY <2>2, <2>3
<1>3a. CASE Broadcast(n)
  <2>1. /\ test[n] = "waking" /\ test' = [test EXCEPT ![n] = "over"]
        /\ pc' = pc \/ (pc = "parked" /\ pc' = "acquire")
        /\ UNCHANGED <<mode, taskVars, phase, next, cancelled, slotVars, active,
                       countVars, saved>>
    BY <1>3a, Waking DEF Broadcast
  <2>2. TypeOK'
    BY <2>1
  <2>3. LoopInv' /\ ResultsInv'
    BY <2>1
  <2>4. QED  BY <2>2, <2>3
<1>4. ASSUME NEW outcome \in {"ok", "err"}, RecordDelay(n, outcome)
      PROVE  TypeOK' /\ LoopInv' /\ ResultsInv'
  <2>1. /\ test[n] = "testing" /\ test' = [test EXCEPT ![n] = "leaving"]
        /\ phase = "latency" /\ delay' = [delay EXCEPT ![n] = outcome]
        /\ completed' = completed + 1 /\ limit' \in 1 .. MaxLimit
        /\ pc' = pc \/ (pc = "parked" /\ pc' = "acquire")
        /\ UNCHANGED <<mode, ctxDone, status, phase, next, cancelled, adaptive, active,
                       saved>>
    BY <1>4, Waking DEF RecordDelay
  <2>2. progress' \in Nat /\ total' \in Nat
    BY <1>4 DEF RecordDelay
  <2>3. CASE mode = "tcp"
    <3>1. /\ results' = [results EXCEPT ![n] = @ + 1]
          /\ succ' \in {succ, succ + 1} /\ fail' \in {fail, fail + 1}
      BY <1>4, <2>3 DEF RecordDelay
    <3>2. TypeOK'
      BY <2>1, <2>2, <3>1
    <3>3. LoopInv' /\ ResultsInv'
      BY <2>1, <2>3, <3>1
    <3>4. QED  BY <3>2, <3>3
  <2>4. CASE mode = "mihomo"
    <3>1. UNCHANGED <<results, succ, fail>>
      BY <1>4, <2>4 DEF RecordDelay
    <3>2. TypeOK'
      BY <2>1, <2>2, <3>1
    <3>3. LoopInv' /\ ResultsInv'
      BY <2>1, <2>4, <3>1
    <3>4. QED  BY <3>2, <3>3
  <2>5. QED  BY <2>3, <2>4
<1>5. ASSUME NEW outcome \in {"ok", "err"}, RecordSpeed(n, outcome)
      PROVE  TypeOK' /\ LoopInv' /\ ResultsInv'
  <2>1. /\ test[n] = "testing" /\ test' = [test EXCEPT ![n] = "leaving"]
        /\ phase = "speed" /\ results' = [results EXCEPT ![n] = @ + 1]
        /\ completed' = completed + 1 /\ limit' \in 1 .. MaxLimit
        /\ succ' \in {succ, succ + 1} /\ fail' \in {fail, fail + 1}
        /\ pc' = pc \/ (pc = "parked" /\ pc' = "acquire")
        /\ UNCHANGED <<mode, ctxDone, status, phase, next, cancelled, adaptive, active,
                       delay, saved>>
    BY <1>5, Waking DEF RecordSpeed
  <2>2. progress' \in Nat /\ total' \in Nat
    BY <1>5 DEF RecordSpeed
  <2>3. TypeOK'
    BY <2>1, <2>2
  <2>4. LoopInv' /\ ResultsInv'
    BY <2>1
  <2>5. QED  BY <2>3, <2>4
<1>6. QED
  BY <1>1, <1>2, <1>3, <1>3a, <1>4, <1>5 DEF TestStep

\* The counts: a slot for every busy goroutine, a success or a failure for
\* every recorded node.
LEMMA SameCounts ==
  ASSUME IInv, Busy' = Busy, Recorded' = Recorded,
         active' = active, succ' + fail' = succ + fail
  PROVE  /\ active' = Cardinality(Busy') /\ active' <= MaxLimit
         /\ succ' + fail' = Cardinality(Recorded')
BY DEF IInv

LEMMA OneMoreRecorded ==
  ASSUME IInv, NEW n \in Node, results[n] = 0, results' = [results EXCEPT ![n] = @ + 1],
         Busy' = Busy, active' = active, succ' + fail' = succ + fail + 1
  PROVE  /\ active' = Cardinality(Busy') /\ active' <= MaxLimit
         /\ succ' + fail' = Cardinality(Recorded')
<1>1. n \notin Recorded /\ Recorded \in SUBSET Node
  BY DEF Recorded
<1>2. Recorded' = Recorded \cup {n}
  BY DEF Recorded, IInv, TypeOK
<1>3. Cardinality(Recorded') = Cardinality(Recorded) + 1
  BY <1>1, <1>2, OneMore
<1>4. QED  BY <1>3 DEF IInv, TypeOK

LEMMA DispatchCounts ==
  ASSUME IInv, Dispatch
  PROVE  /\ active' = Cardinality(Busy') /\ active' <= MaxLimit
         /\ succ' + fail' = Cardinality(Recorded')
<1> USE DEF taskVars, countVars, slotVars
<1>1. CASE SkipFailed
  <2>1. next \in Node /\ results[next] = 0
    BY <1>1 DEF SkipFailed, Node, IInv, TypeOK, ResultsInv
  <2>2. /\ results' = [results EXCEPT ![next] = @ + 1] /\ fail' = fail + 1
        /\ UNCHANGED <<test, active, succ>>
    BY <1>1 DEF SkipFailed
  <2>3. Busy' = Busy
    BY <2>2 DEF Busy
  <2>4. succ' + fail' = succ + fail + 1
    BY <2>2 DEF IInv, TypeOK
  <2>5. PICK n \in Node : n = next
    BY <2>1
  <2>6. QED  BY <2>1, <2>2, <2>3, <2>4, <2>5, OneMoreRecorded
<1>2. CASE StartTest
  <2>1. /\ next \in Node /\ test[next] = "none" /\ limit \in 1 .. MaxLimit
        /\ active < limit /\ active' = active + 1
        /\ test' = [test EXCEPT ![next] = "started"] /\ UNCHANGED <<results, succ, fail>>
    BY <1>2 DEF StartTest, IInv, TypeOK, LoopInv, Node
  <2>2. Recorded' = Recorded
    BY <2>1 DEF Recorded
  <2>3. next \notin Busy /\ Busy \in SUBSET Node
    BY <2>1 DEF Busy
  <2>4. Busy' = Busy \cup {next}
    BY <2>1 DEF Busy, IInv, TypeOK
  <2>5. Cardinality(Busy') = Cardinality(Busy) + 1
    BY <2>1, <2>3, <2>4, OneMore
  <2>6. QED  BY <2>1, <2>2, <2>5, LimitAssumption DEF IInv, TypeOK
<1>3. CASE LatencyPhaseEnds
  <2>1. UNCHANGED <<results, active, succ, fail>> /\ AllTestsOver
        /\ (test' = test \/ test' = [n \in Node |-> "none"])
    BY <1>3 DEF LatencyPhaseEnds
  <2>2. Busy' = Busy /\ Recorded' = Recorded
    BY <2>1 DEF Busy, Recorded, AllTestsOver
  <2>3. QED  BY <2>1, <2>2, SameCounts
<1>4. CASE UNCHANGED <<test, active, results, succ, fail>>
  <2>1. Busy' = Busy /\ Recorded' = Recorded
    BY <1>4 DEF Busy, Recorded
  <2>2. QED  BY <1>4, <2>1, SameCounts
<1>5. QED
  BY <1>1, <1>2, <1>3, <1>4
  DEF Dispatch, SeeCancelled, WantSlot, Refuse, Park, LoopEnds, SpeedPhaseEnds,
      FinalCheck, SaveResults, Complete

LEMMA TestCounts ==
  ASSUME IInv, NEW n \in Node, TestStep(n)
  PROVE  /\ active' = Cardinality(Busy') /\ active' <= MaxLimit
         /\ succ' + fail' = Cardinality(Recorded')
<1> USE DEF taskVars, countVars, slotVars
<1>1. CASE LeaveTest(n)
  <2>1. /\ test[n] = "leaving" /\ active' = active - 1
        /\ test' = [test EXCEPT ![n] = IF adaptive THEN "waking" ELSE "over"]
        /\ UNCHANGED <<results, succ, fail>>
    BY <1>1 DEF LeaveTest
  <2>2. n \in Busy /\ Busy \in SUBSET Node /\ Busy' = Busy \ {n}
    BY <2>1 DEF Busy, IInv, TypeOK
  <2>3. Cardinality(Busy') = Cardinality(Busy) - 1
    BY <2>2, OneLess
  <2>4. Recorded' = Recorded
    BY <2>1 DEF Recorded
  <2>5. QED  BY <2>1, <2>3, <2>4, LimitAssumption DEF IInv, TypeOK
<1>2. ASSUME test[n] \in {"started", "testing"}, active' = active,
             \/ test' = [test EXCEPT ![n] = "leaving"]
             \/ test' = [test EXCEPT ![n] = "testing"]
      PROVE  Busy' = Busy
  BY <1>2 DEF Busy, IInv, TypeOK
<1>2a. CASE Broadcast(n)
  <2>1. Busy' = Busy
    BY <1>2a DEF Broadcast, Busy, IInv, TypeOK
  <2>2. Recorded' = Recorded /\ UNCHANGED <<active, succ, fail>>
    BY <1>2a DEF Broadcast, Recorded
  <2>3. QED  BY <2>1, <2>2, SameCounts
<1>3. CASE BeginTest(n) \/ DropResult(n)
  <2>1. Busy' = Busy
    BY <1>2, <1>3 DEF BeginTest, DropResult
  <2>2. Recorded' = Recorded /\ UNCHANGED <<active, succ, fail>>
    BY <1>3 DEF BeginTest, DropResult, Recorded
  <2>3. QED  BY <2>1, <2>2, SameCounts
<1>4. ASSUME NEW outcome \in {"ok", "err"}, RecordDelay(n, outcome) \/ RecordSpeed(n, outcome)
      PROVE  /\ active' = Cardinality(Busy') /\ active' <= MaxLimit
             /\ succ' + fail' = Cardinality(Recorded')
  <2>1. /\ test[n] = "testing" /\ test' = [test EXCEPT ![n] = "leaving"] /\ active' = active
        /\ results[n] = 0
    BY <1>4 DEF RecordDelay, RecordSpeed, IInv, ResultsInv
  <2>2. Busy' = Busy
    BY <1>2, <2>1
  <2>3. \/ UNCHANGED <<results, succ, fail>>
        \/ /\ results' = [results EXCEPT ![n] = @ + 1]
           /\ \/ succ' = succ + 1 /\ fail' = fail
              \/ succ' = succ /\ fail' = fail + 1
    BY <1>4 DEF RecordDelay, RecordSpeed
  <2>4. CASE UNCHANGED <<results, succ, fail>>
    <3>1. Recorded' = Recorded
      BY <2>4 DEF Recorded
    <3>2. QED  BY <2>1, <2>2, <2>4, <3>1, SameCounts
  <2>5. CASE results' = [results EXCEPT ![n] = @ + 1] /\ succ' + fail' = succ + fail + 1
    BY <2>1, <2>2, <2>5, OneMoreRecorded
  <2>6. succ \in Nat /\ fail \in Nat
    BY DEF IInv, TypeOK
  <2>7. QED  BY <2>3, <2>4, <2>5, <2>6
<1>5. QED  BY <1>1, <1>2a, <1>3, <1>4 DEF TestStep

LEMMA NextInv == IInv /\ [Next]_vars => IInv'
<1> SUFFICES ASSUME IInv, [Next]_vars PROVE IInv'
  OBVIOUS
<1>1. CASE Dispatch
  BY <1>1, DispatchControl, DispatchCounts DEF IInv
<1>2. ASSUME NEW n \in Node, TestStep(n) PROVE IInv'
  BY <1>2, TestControl, TestCounts DEF IInv
<1>3. CASE CancelTask \/ Timeout \/ UNCHANGED vars
  <2>1. /\ (status' = status \/ status' = "cancelled")
        /\ (ctxDone' = ctxDone \/ (ctxDone' = TRUE /\ pc # "ended"))
        /\ UNCHANGED <<mode, progress, total, phase, pc, next, cancelled, adaptive, limit,
                       active, test, countVars, saved>>
    BY <1>3 DEF CancelTask, Timeout, vars, taskVars, slotVars
  <2>2. TypeOK'
    <3>1. TypeOK
      BY DEF IInv
    <3>2. status' \in {"running", "cancelled", "completed", "error"} /\ ctxDone' \in BOOLEAN
      BY <2>1, <3>1 DEF TypeOK
    <3>3. QED  BY <2>1, <3>1, <3>2 DEF TypeOK, countVars
  <2>2a. LoopInv'
    BY <2>1 DEF IInv, LoopInv, Recording, AllTestsOver, countVars
  <2>2b. ResultsInv'
    BY <2>1 DEF IInv, TypeOK, ResultsInv, Recording, Savable, countVars
  <2>3. Busy' = Busy /\ Recorded' = Recorded
    BY <2>1 DEF Busy, Recorded, countVars
  <2>4. QED  BY <2>1, <2>2, <2>2a, <2>2b, <2>3, SameCounts DEF IInv, countVars
<1>4. QED  BY <1>1, <1>2, <1>3 DEF Next

-----------------------------------------------------------------------------
\* The strengthened invariant holds in every state.
THEOREM Invariance == Spec => []IInv
<1>1. QED  BY InitInv, NextInv, PTL DEF Spec

\* Counters stay numbers, and the loop stays within the nodes.
THEOREM TypeCorrect == Spec => []TypeOK
<1>1. IInv => TypeOK
  BY DEF IInv
<1>2. QED  BY <1>1, Invariance, PTL

\* For any number of nodes a slot is taken for exactly the goroutines that have
\* one, whichever way they end.
THEOREM NoSlotLost == Spec => []SlotsAccounted
<1>1. IInv => SlotsAccounted
  BY DEF IInv, SlotsAccounted, Busy
<1>2. QED  BY <1>1, Invariance, PTL

\* What is saved is one result of every node, and its counts add up, whenever
\* the task is cancelled or times out.
THEOREM SavedIsComplete == Spec => []SavedRunIsComplete
<1>1. IInv => SavedRunIsComplete
  <2> SUFFICES ASSUME IInv, saved PROVE (\A n \in Node : results[n] = 1) /\ succ + fail = N
    BY DEF SavedRunIsComplete
  <2>1. AllTestsOver /\ Recording /\ next = N + 1
    BY DEF IInv, LoopInv
  <2>2. \A n \in Node : results[n] = 1
    BY <2>1, NAssumption DEF IInv, ResultsInv, Savable, AllTestsOver, Node
  <2>3. Recorded = Node
    BY <2>2 DEF Recorded
  <2>4. QED  BY <2>2, <2>3, Finite DEF IInv
<1>2. QED  BY <1>1, Invariance, PTL

\* A run whose context was done in time is on its way to its end.
Doomed ==
  /\ ctxDone /\ ~saved
  /\ pc \in {"loop", "acquire", "adding", "parked", "wait", "final", "ended"}

\* Whatever the loop and the goroutines see of a cancellation or a timeout, one
\* that comes before the last look keeps everything out of the database.
THEOREM CancelledIsNotSaved == Spec => CancelledEarlySavesNothing
<1>1. IInv /\ CancelledEarly => Doomed
  BY DEF IInv, LoopInv, CancelledEarly, Doomed
<1>2. Doomed /\ [Next]_vars => Doomed'
  <2> SUFFICES ASSUME Doomed, [Next]_vars PROVE Doomed'
    OBVIOUS
  <2>1. CASE Dispatch
    <3>1. CASE \/ SeeCancelled \/ WantSlot \/ SkipFailed \/ StartTest
               \/ Refuse \/ Park \/ LoopEnds \/ SpeedPhaseEnds
      <4>1. /\ UNCHANGED <<ctxDone, saved>>
            /\ pc' \in {"loop", "acquire", "adding", "parked", "wait", "final"}
        BY <3>1 DEF SeeCancelled, WantSlot, SkipFailed, StartTest, Refuse, Park, LoopEnds,
                    SpeedPhaseEnds, taskVars
      <4>2. QED  BY <4>1 DEF Doomed
    <3>2. CASE LatencyPhaseEnds
      <4>1. UNCHANGED <<ctxDone, saved>> /\ pc' \in {"loop", "ended", "final"}
        BY <3>2 DEF LatencyPhaseEnds
      <4>2. QED  BY <4>1 DEF Doomed
    <3>3. CASE FinalCheck
      <4>1. UNCHANGED <<ctxDone, saved>> /\ pc' = "ended"
        BY <3>3 DEF FinalCheck, Doomed, Stopped, taskVars
      <4>2. QED  BY <4>1 DEF Doomed
    <3>4. CASE Complete
      BY <3>4 DEF Complete, Doomed
    <3>5. ASSUME NEW ok \in BOOLEAN, SaveResults(ok) PROVE Doomed'
      BY <3>5 DEF SaveResults, Doomed
    <3>6. QED  BY <2>1, <3>1, <3>2, <3>3, <3>4, <3>5 DEF Dispatch
  <2>2. ASSUME NEW n \in Node, TestStep(n) PROVE Doomed'
    <3>1. UNCHANGED <<ctxDone, saved>> /\ pc' \in {pc, "acquire"}
      <4> USE DEF taskVars, MaybeAdjust, Woken
      <4>1. CASE BeginTest(n) \/ DropResult(n) \/ LeaveTest(n) \/ Broadcast(n)
        BY <4>1 DEF BeginTest, DropResult, LeaveTest, Broadcast
      <4>2. ASSUME NEW outcome \in {"ok", "err"}, RecordDelay(n, outcome) \/ RecordSpeed(n, outcome)
            PROVE  UNCHANGED <<ctxDone, saved>> /\ pc' \in {pc, "acquire"}
        BY <4>2 DEF RecordDelay, RecordSpeed
      <4>3. QED  BY <2>2, <4>1, <4>2 DEF TestStep
    <3>2. QED  BY <3>1 DEF Doomed
  <2>3. CASE CancelTask \/ Timeout
    BY <2>3 DEF Doomed, CancelTask, Timeout
  <2>4. CASE UNCHANGED vars
    BY <2>4 DEF Doomed, vars, taskVars
  <2>5. QED  BY <2>1, <2>2, <2>3, <2>4 DEF Next
<1>3. Doomed => ~saved
  BY DEF Doomed
<1>4. QED  BY <1>1, <1>2, <1>3, Invariance, PTL DEF Spec, CancelledEarlySavesNothing

-----------------------------------------------------------------------------
\* The nodes the current phase has still to count.
Pending == {n \in Node : n >= next \/ test[n] \in {"started", "testing"}}

\* What the progress has counted so far.
Counted == IF phase = "speed" THEN N + completed ELSE completed

\* The total is raised by the first node's latency test, so it is raised by the
\* time a latency phase that nothing stopped is over.
ProgressInv ==
  /\ progress <= total
  /\ total \in {N, 2 * N}
  /\ status = "running" \/ ctxDone
  /\ completed + Cardinality(Pending) <= N
  /\ pc # "ended" => progress <= Counted
  /\ phase = "speed" => total = 2 * N
  /\ mode = "mihomo" /\ ~ctxDone /\ 1 < next /\ test[1] \notin {"started", "testing"}
       => total = 2 * N

\* What a step owes: the invariant again, and no way back.
Onward == ProgressInv' /\ progress' >= progress

LEMMA PendingFinite ==
  /\ Pending \in SUBSET Node
  /\ Cardinality(Pending) \in Nat
BY Finite DEF Pending

LEMMA FewerPending ==
  ASSUME NEW n \in Pending, Pending' = Pending \ {n}
  PROVE  Cardinality(Pending') = Cardinality(Pending) - 1 /\ Cardinality(Pending') \in Nat
<1>1. Pending \in SUBSET Node /\ n \in Node /\ Pending' \in SUBSET Node
  BY PendingFinite
<1>2. QED  BY <1>1, OneLess, Finite

LEMMA InitProgress == Init => ProgressInv
<1> SUFFICES ASSUME Init PROVE ProgressInv
  OBVIOUS
<1>1. Pending = Node
  BY NAssumption DEF Init, Pending, Node
<1>2. QED  BY <1>1, Finite, NAssumption DEF Init, ProgressInv, Counted

\* A step that reports nothing and counts nothing.
LEMMA QuietStep ==
  ASSUME IInv, ProgressInv, Pending' = Pending, pc = "ended" => pc' = "ended",
         UNCHANGED <<mode, progress, total, phase, completed>>,
         status' = status \/ ctxDone', ctxDone => ctxDone',
         1 < next' /\ test'[1] \notin {"started", "testing"} =>
           \/ 1 < next /\ test[1] \notin {"started", "testing"}
           \/ ctxDone'
  PROVE  Onward
<1>1. progress \in Nat /\ ctxDone \in BOOLEAN
  BY DEF IInv, TypeOK
<1>2. QED  BY <1>1 DEF ProgressInv, Onward, Counted

LEMMA DispatchProgress ==
  ASSUME IInv, ProgressInv, Dispatch
  PROVE  Onward
<1> USE NAssumption
<1> DEFINE Types == /\ {progress, total, completed} \subseteq Nat
                    /\ next \in 1 .. N + 1 /\ ctxDone \in BOOLEAN
                    /\ test \in [Node -> {"none", "started", "testing", "leaving", "waking", "over"}]
<1>0. Types /\ 1 \in Node /\ N \in Nat
  BY DEF IInv, TypeOK, Node
<1>1. CASE \/ SeeCancelled \/ WantSlot \/ Refuse \/ Park \/ LoopEnds
           \/ SpeedPhaseEnds \/ FinalCheck
  <2>1. UNCHANGED <<mode, taskVars, phase, next, test, completed>> /\ pc # "ended"
    BY <1>1 DEF SeeCancelled, WantSlot, Refuse, Park, LoopEnds, SpeedPhaseEnds,
                FinalCheck, countVars
  <2>2. Pending' = Pending
    BY <2>1 DEF Pending
  <2>3. QED  BY <2>1, <2>2, QuietStep DEF taskVars
<1>2. CASE SkipFailed
  <2>1. /\ next \in Pending /\ completed' = completed + 1 /\ next' = next + 1
        /\ phase = "speed" /\ pc = "loop" /\ test[next] = "none"
        /\ UNCHANGED <<mode, taskVars, phase, pc, test>>
    BY <1>0, <1>2 DEF SkipFailed, Pending, Node, IInv, LoopInv
  <2>2. Pending' = Pending \ {next}
    BY <1>0, <2>1 DEF Pending, Node
  <2>3. Cardinality(Pending') = Cardinality(Pending) - 1 /\ Cardinality(Pending') \in Nat
    BY <2>1, <2>2, FewerPending
  <2>4. QED  BY <1>0, <2>1, <2>3, PendingFinite DEF Onward, ProgressInv, Counted, taskVars
<1>3. CASE StartTest
  <2>1. /\ next \in Node /\ test' = [test EXCEPT ![next] = "started"] /\ next' = next + 1
        /\ pc' = "loop" /\ pc = "acquire"
        /\ UNCHANGED <<mode, taskVars, phase, completed>>
    BY <1>0, <1>3 DEF StartTest, Node, IInv, LoopInv, countVars
  <2>2. Pending' = Pending
    BY <1>0, <2>1 DEF Pending, Node
  <2>3. 1 < next' /\ test'[1] \notin {"started", "testing"} =>
          1 < next /\ test[1] \notin {"started", "testing"}
    BY <1>0, <2>1
  <2>4. QED  BY <2>1, <2>2, <2>3, QuietStep DEF taskVars
<1>4. CASE LatencyPhaseEnds
  <2>1. pc = "wait" /\ phase = "latency" /\ AllTestsOver /\ UNCHANGED <<mode, ctxDone, status>>
    BY <1>4 DEF LatencyPhaseEnds
  <2>2. CASE Stopped
    <3>1. UNCHANGED <<phase, next, test, completed>> /\ pc' = "ended"
          /\ \/ progress' = completed /\ total' = total
             \/ UNCHANGED <<progress, total>>
      BY <1>4, <2>2 DEF LatencyPhaseEnds, Report
    <3>2. Pending' = Pending
      BY <3>1 DEF Pending
    <3>3. completed <= N
      BY <1>0, PendingFinite DEF ProgressInv
    <3>4. QED  BY <1>0, <2>1, <3>1, <3>2, <3>3 DEF Onward, ProgressInv, Counted
  <2>3. CASE ~Stopped /\ mode = "mihomo"
    <3>1. /\ phase' = "speed" /\ next' = 1 /\ completed' = 0 /\ UNCHANGED <<progress, total>>
          /\ test' = [n \in Node |-> "none"] /\ pc' = "loop"
      BY <1>4, <2>3 DEF LatencyPhaseEnds
    <3>2. total = 2 * N
      <4>1. ~ctxDone /\ next = N + 1 /\ test[1] \in {"none", "over"}
        BY <1>0, <2>1, <2>3 DEF Stopped, IInv, LoopInv, AllTestsOver
      <4>2. QED  BY <1>0, <2>3, <4>1 DEF ProgressInv
    <3>3. completed <= N /\ progress <= completed
      BY <1>0, <2>1, PendingFinite DEF ProgressInv, Counted
    <3>4. Pending' = Node
      BY <3>1 DEF Pending, Node
    <3>5. Cardinality(Pending') = N
      BY <3>4, Finite
    <3>6. QED  BY <1>0, <2>1, <3>1, <3>2, <3>3, <3>5 DEF Onward, ProgressInv, Counted
  <2>4. CASE ~Stopped /\ mode = "tcp"
    <3>1. UNCHANGED <<progress, total, phase, next, test, completed>>
      BY <1>4, <2>4 DEF LatencyPhaseEnds
    <3>2. Pending' = Pending
      BY <3>1 DEF Pending
    <3>3. QED  BY <2>1, <3>1, <3>2, QuietStep
  <2>5. QED  BY <1>4, <2>2, <2>3, <2>4 DEF LatencyPhaseEnds
<1>5. ASSUME NEW ok \in BOOLEAN, SaveResults(ok) PROVE Onward
  <2>1. /\ UNCHANGED <<mode, progress, total, phase, next, test, completed>> /\ pc = "saving"
        /\ (status' = status /\ ctxDone' = ctxDone) \/ ctxDone' = TRUE
    BY <1>5 DEF SaveResults, countVars
  <2>2. Pending' = Pending
    BY <2>1 DEF Pending
  <2>3. QED  BY <1>0, <2>1, <2>2, QuietStep
<1>6. CASE Complete
  <2>1. /\ progress' = total /\ ctxDone' = TRUE /\ pc' = "ended"
        /\ UNCHANGED <<mode, total, phase, next, test, completed>>
    BY <1>6 DEF Complete, countVars
  <2>2. Pending' = Pending
    BY <2>1 DEF Pending
  <2>3. QED  BY <1>0, <2>1, <2>2 DEF Onward, ProgressInv, Counted
<1>7. QED
  BY <1>1, <1>2, <1>3, <1>4, <1>5, <1>6 DEF Dispatch

LEMMA TestProgress ==
  ASSUME IInv, ProgressInv, NEW n \in Node, TestStep(n)
  PROVE  Onward
<1> USE NAssumption
<1> DEFINE Types == /\ {progress, total, completed} \subseteq Nat
                    /\ next \in 1 .. N + 1 /\ ctxDone \in BOOLEAN
                    /\ test \in [Node -> {"none", "started", "testing", "leaving", "waking", "over"}]
<1>0. Types /\ 1 \in Node /\ n \in Nat
  BY DEF IInv, TypeOK, Node
<1>1. CASE BeginTest(n) \/ DropResult(n) \/ LeaveTest(n) \/ Broadcast(n)
  <2>1. /\ UNCHANGED <<mode, taskVars, phase, next, completed>>
        /\ pc' # "ended" => pc # "ended"
    BY <1>1 DEF BeginTest, DropResult, LeaveTest, Broadcast, Woken, countVars
  <2>2. \/ Pending' = Pending
        \/ n \in Pending /\ Pending' = Pending \ {n}
    <3>1. /\ n < next /\ next' = next /\ next \in Nat
          /\ \/ test[n] = "started" /\ test' = [test EXCEPT ![n] = "testing"]
             \/ test' = [test EXCEPT ![n] = "leaving"]
             \/ /\ test[n] \in {"leaving", "waking"}
                /\ \/ test' = [test EXCEPT ![n] = "waking"]
                   \/ test' = [test EXCEPT ![n] = "over"]
      BY <1>0, <1>1, <2>1 DEF BeginTest, DropResult, LeaveTest, Broadcast, IInv, LoopInv
    <3>2. CASE test' = [test EXCEPT ![n] = "leaving"]
      BY <1>0, <3>1, <3>2 DEF Pending
    <3>3. CASE test[n] = "started" /\ test' = [test EXCEPT ![n] = "testing"]
      BY <1>0, <3>1, <3>3 DEF Pending
    <3>4. CASE /\ test[n] \in {"leaving", "waking"}
               /\ \/ test' = [test EXCEPT ![n] = "waking"]
                  \/ test' = [test EXCEPT ![n] = "over"]
      BY <1>0, <3>1, <3>4 DEF Pending
    <3>5. QED  BY <3>1, <3>2, <3>3, <3>4
  <2>3. Cardinality(Pending') <= Cardinality(Pending) /\ Cardinality(Pending') \in Nat
    BY <2>2, PendingFinite, FewerPending
  <2>4. \/ test'[1] = test[1]
        \/ test'[1] = "testing"
        \/ ctxDone
        \/ test[1] \in {"leaving", "waking"}
    BY <1>0, <1>1 DEF BeginTest, DropResult, LeaveTest, Broadcast, IInv, LoopInv
  <2>5. QED
    BY <1>0, <2>1, <2>3, <2>4, PendingFinite DEF Onward, ProgressInv, Counted, taskVars
<1>2. ASSUME NEW outcome \in {"ok", "err"}, RecordDelay(n, outcome) \/ RecordSpeed(n, outcome)
      PROVE  Onward
  <2>1. /\ test[n] = "testing" /\ test' = [test EXCEPT ![n] = "leaving"]
        /\ completed' = completed + 1
        /\ UNCHANGED <<mode, ctxDone, status, phase, next>>
        /\ pc # "ended" /\ n < next
    BY <1>0, <1>2 DEF RecordDelay, RecordSpeed, IInv, LoopInv, AllTestsOver
  <2>2. n \in Pending /\ Pending' = Pending \ {n}
    BY <1>0, <2>1 DEF Pending
  <2>3. Cardinality(Pending') = Cardinality(Pending) - 1 /\ Cardinality(Pending') \in Nat
    BY <2>2, FewerPending
  <2>4. completed' + Cardinality(Pending') <= N /\ completed' \in Nat /\ completed' <= N
    BY <1>0, <2>1, <2>3, PendingFinite DEF ProgressInv
  <2>5. \/ progress' = Counted' /\ total' \in {total, 2 * N}
        \/ status # "running" /\ UNCHANGED <<progress, total>>
    BY <1>0, <1>2, <2>1 DEF RecordDelay, RecordSpeed, Report, Counted
  <2>6. progress <= Counted /\ Counted' = Counted + 1 /\ Counted \in Nat
    BY <1>0, <2>1 DEF ProgressInv, Counted
  <2>7. Counted' <= total
    BY <1>0, <2>1, <2>4 DEF ProgressInv, Counted
  <2>8. (mode = "mihomo" /\ ~ctxDone /\ n = 1) => total' = 2 * N
    BY <1>0, <1>2, <2>1 DEF RecordDelay, RecordSpeed, Report, ProgressInv
  <2>9. total' \in {N, 2 * N} /\ total' >= total /\ (total = 2 * N => total' = 2 * N)
    BY <1>0, <2>5 DEF ProgressInv
  <2>10. progress' >= progress /\ progress' <= total' /\ progress' <= Counted'
    BY <1>0, <2>5, <2>6, <2>7, <2>9 DEF ProgressInv
  <2>11. mode = "mihomo" /\ ~ctxDone /\ 1 < next /\ test'[1] \notin {"started", "testing"}
           => total' = 2 * N
    BY <1>0, <2>1, <2>8, <2>9 DEF ProgressInv
  <2>12. QED  BY <2>1, <2>4, <2>9, <2>10, <2>11 DEF Onward, ProgressInv
<1>3. QED  BY <1>1, <1>2 DEF TestStep

LEMMA NextProgress ==
  ASSUME IInv, ProgressInv, [Next]_vars
  PROVE  Onward
<1>1. CASE Dispatch
  BY <1>1, DispatchProgress
<1>2. ASSUME NEW n \in Node, TestStep(n) PROVE Onward
  BY <1>2, TestProgress
<1>3. CASE CancelTask \/ Timeout \/ UNCHANGED vars
  <2>1. /\ UNCHANGED <<mode, progress, total, phase, pc, next, test, completed>>
        /\ (status' = status /\ ctxDone' = ctxDone) \/ ctxDone' = TRUE
    BY <1>3 DEF CancelTask, Timeout, vars, taskVars, countVars
  <2>2. Pending' = Pending
    BY <2>1 DEF Pending
  <2>3. ctxDone \in BOOLEAN
    BY DEF IInv, TypeOK
  <2>4. QED  BY <2>1, <2>2, <2>3, QuietStep
<1>4. QED  BY <1>1, <1>2, <1>3 DEF Next

\* For any number of nodes, in either mode and whatever the task manager still
\* accepts after a cancellation, the bar stays within its total and never goes
\* back, from the latency phase into the speed phase and to completion.
THEOREM ProgressIsForward == Spec => ProgressGoesForward
<1>1. ProgressInv => progress <= total
  BY DEF ProgressInv
<1>2. IInv /\ ProgressInv /\ [Next]_vars => ProgressInv' /\ [progress' >= progress]_vars
  BY NextProgress DEF Onward
<1>3. Spec => []ProgressInv
  BY InitProgress, <1>2, Invariance, PTL DEF Spec
<1>4. QED  BY <1>1, <1>2, <1>3, Invariance, PTL DEF Spec, ProgressGoesForward
=============================================================================
