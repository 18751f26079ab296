----------------------------- MODULE SpeedTest -----------------------------
(***************************************************************************)
(* One run of RunSpeedTestWithConfig (services/scheduler/speedtest_task.go)*)
(* with its task: the dispatcher loops over the nodes in a latency phase   *)
(* and, unless the mode is "tcp", in a speed phase; one goroutine per node *)
(* tests it while it holds a concurrency slot; the results are collected   *)
(* in memory and written in one batch at the end.  The task's context may  *)
(* be done at any moment, by CancelTask or by its timeout.                 *)
(*                                                                         *)
(* A phase has a fixed number of slots, a buffered channel, or an adaptive *)
(* controller, whose condition variable can miss a wake-up:                *)
(* ConcurrencyController models it, with the limits it sets.  What a test  *)
(* measures is only whether it failed.                                     *)
(***************************************************************************)
EXTENDS Integers, FiniteSets

CONSTANTS
  N,        \* number of nodes
  MaxLimit  \* the highest limit of the concurrency controller

ASSUME NAssumption == N \in Nat \ {0}
ASSUME LimitAssumption == MaxLimit \in Nat \ {0}

Node == 1 .. N

VARIABLES
  mode,       \* config.Mode
  ctxDone,    \* the task's context is cancelled or has timed out
  status,     \* the task's status
  progress,   \* the task's progress ...
  total,      \* ... and total
  phase,      \* "latency" or "speed"
  pc,         \* where the run's own goroutine stands
  next,       \* the node its loop has reached
  cancelled,  \* the variable of that name
  adaptive,   \* the phase has an adaptive controller
  limit,      \* slots the controller or the channel allows
  active,     \* slots taken
  test,       \* each node's test goroutine of the current phase
  delay,      \* nodeResults[n]: outcome of the latency test
  results,    \* how often node n is in speedTestResults
  completed,  \* completedCount
  succ,       \* successCount
  fail,       \* failCount
  saved       \* the batch is in the database

taskVars == <<ctxDone, status, progress, total>>
countVars == <<delay, results, completed, succ, fail>>
slotVars == <<adaptive, limit>>
vars == <<mode, taskVars, phase, pc, next, cancelled, slotVars, active, test,
          countVars, saved>>

Init ==
  /\ mode \in {"tcp", "mihomo"}
  /\ ctxDone = FALSE
  /\ status = "running"
  /\ progress = 0
  /\ total = N
  /\ phase = "latency"
  /\ pc = "loop"
  /\ next = 1
  /\ cancelled = FALSE
  /\ adaptive \in BOOLEAN
  /\ limit \in 1 .. MaxLimit
  /\ active = 0
  /\ test = [n \in Node |-> "none"]
  /\ delay = [n \in Node |-> "none"]
  /\ results = [n \in Node |-> 0]
  /\ completed = 0
  /\ succ = 0
  /\ fail = 0
  /\ saved = FALSE

-----------------------------------------------------------------------------
\* UpdateProgress and UpdateTotal, which the task manager refuses once an
\* ended task has left its memory.
Report(p, t) ==
  \/ progress' = p /\ total' = t
  \/ status # "running" /\ UNCHANGED <<progress, total>>

\* The loop sees that the context is done and stops starting tests.
SeeCancelled ==
  /\ pc = "loop" /\ next <= N
  /\ ctxDone
  /\ cancelled' = TRUE
  /\ pc' = "wait"
  /\ UNCHANGED <<mode, taskVars, phase, next, slotVars, active, test, countVars, saved>>

\* The loop goes for a slot; the context may be done while it waits for it.
WantSlot ==
  /\ pc = "loop" /\ next <= N
  /\ ~ctxDone
  /\ phase = "speed" => delay[next] # "err"
  /\ pc' = "acquire"
  /\ UNCHANGED <<mode, taskVars, phase, next, cancelled, slotVars, active, test,
                 countVars, saved>>

\* Mutant of SkipFailed: the node is recorded but not counted.
SkipUncounted ==
  /\ pc = "loop" /\ next <= N
  /\ ~ctxDone
  /\ phase = "speed" /\ delay[next] = "err"
  /\ completed' = completed + 1
  /\ results' = [results EXCEPT ![next] = @ + 1]
  /\ next' = next + 1
  /\ UNCHANGED <<mode, taskVars, phase, pc, cancelled, slotVars, active, test, delay,
                 succ, fail, saved>>

\* The speed phase records a node whose latency test failed without a test.
SkipFailed ==
  /\ pc = "loop" /\ next <= N
  /\ ~ctxDone
  /\ phase = "speed" /\ delay[next] = "err"
  /\ fail' = fail + 1
  /\ completed' = completed + 1
  /\ results' = [results EXCEPT ![next] = @ + 1]
  /\ next' = next + 1
  /\ UNCHANGED <<mode, taskVars, phase, pc, cancelled, slotVars, active, test, delay,
                 succ, saved>>

\* A send on the channel that has room, or AcquireDynamic whose condition holds:
\* the loop has its slot and starts the goroutine.
StartTest ==
  /\ pc = "acquire"
  /\ active < limit
  /\ active' = active + 1
  /\ test' = [test EXCEPT ![next] = "started"]
  /\ next' = next + 1
  /\ pc' = "loop"
  /\ UNCHANGED <<mode, taskVars, phase, cancelled, slotVars, countVars, saved>>

\* AcquireDynamic: the dispatcher has found no slot, holding acc.mu ...
Refuse ==
  /\ pc = "acquire"
  /\ adaptive
  /\ active >= limit
  /\ pc' = "adding"
  /\ UNCHANGED <<mode, taskVars, phase, next, cancelled, slotVars, active, test,
                 countVars, saved>>

\* ... and waits; no cancellation of the context wakes it.
Park ==
  /\ pc = "adding"
  /\ pc' = "parked"
  /\ UNCHANGED <<mode, taskVars, phase, next, cancelled, slotVars, active, test,
                 countVars, saved>>

\* A Broadcast reaches the dispatcher only if it waits already.
Woken == IF pc = "parked" THEN "acquire" ELSE pc

LoopEnds ==
  /\ pc = "loop" /\ next > N
  /\ pc' = "wait"
  /\ UNCHANGED <<mode, taskVars, phase, next, cancelled, slotVars, active, test,
                 countVars, saved>>

-----------------------------------------------------------------------------
\* Mutant of BeginTest: the early return keeps the slot.
BeginTestLeak(n) ==
  /\ test[n] = "started"
  /\ test' = [test EXCEPT ![n] = IF ctxDone THEN "over" ELSE "testing"]
  /\ UNCHANGED <<mode, taskVars, phase, pc, next, cancelled, slotVars, active,
                 countVars, saved>>

\* The goroutine's own look at the context, before it uses the network.
BeginTest(n) ==
  /\ test[n] = "started"
  /\ test' = [test EXCEPT ![n] = IF ctxDone THEN "leaving" ELSE "testing"]
  /\ UNCHANGED <<mode, taskVars, phase, pc, next, cancelled, slotVars, active,
                 countVars, saved>>

\* The test is over, but the loop has seen the cancellation: no record.
DropResult(n) ==
  /\ test[n] = "testing"
  /\ cancelled
  /\ test' = [test EXCEPT ![n] = "leaving"]
  /\ UNCHANGED <<mode, taskVars, phase, pc, next, cancelled, slotVars, active,
                 countVars, saved>>

\* MaybeAdjust, with acc.mu, may move the limit of an adaptive controller, and
\* then wakes the dispatcher.
MaybeAdjust ==
  \/ UNCHANGED <<limit, pc>>
  \/ /\ adaptive /\ pc # "adding"
     /\ limit' \in (1 .. MaxLimit) \ {limit}
     /\ pc' = Woken

\* The end of a latency test, under mu, with its progress report.
RecordDelay(n, outcome) ==
  /\ phase = "latency"
  /\ test[n] = "testing"
  /\ ~cancelled
  /\ test' = [test EXCEPT ![n] = "leaving"]
  /\ delay' = [delay EXCEPT ![n] = outcome]
  /\ completed' = completed + 1
  /\ MaybeAdjust
  /\ IF mode = "tcp"
     THEN /\ results' = [results EXCEPT ![n] = @ + 1]
          /\ succ' = IF outcome = "ok" THEN succ + 1 ELSE succ
          /\ fail' = IF outcome = "err" THEN fail + 1 ELSE fail
     ELSE UNCHANGED <<results, succ, fail>>
  /\ Report(completed', IF mode = "mihomo" /\ n = 1 THEN 2 * N ELSE total)
  /\ UNCHANGED <<mode, ctxDone, status, phase, next, cancelled, adaptive, active,
                 saved>>

\* The end of a speed test.
RecordSpeed(n, outcome) ==
  /\ phase = "speed"
  /\ test[n] = "testing"
  /\ ~cancelled
  /\ test' = [test EXCEPT ![n] = "leaving"]
  /\ completed' = completed + 1
  /\ MaybeAdjust
  /\ results' = [results EXCEPT ![n] = @ + 1]
  /\ succ' = IF outcome = "ok" THEN succ + 1 ELSE succ
  /\ fail' = IF outcome = "err" THEN fail + 1 ELSE fail
  /\ Report(N + completed', total)
  /\ UNCHANGED <<mode, ctxDone, status, phase, next, cancelled, adaptive, active, delay,
                 saved>>

\* The deferred release of the slot: a receive from the channel, or
\* ReleaseDynamic, which counts the slot without acc.mu ...
LeaveTest(n) ==
  /\ test[n] = "leaving"
  /\ test' = [test EXCEPT ![n] = IF adaptive THEN "waking" ELSE "over"]
  /\ active' = active - 1
  /\ UNCHANGED <<mode, taskVars, phase, pc, next, cancelled, slotVars, countVars,
                 saved>>

\* ... and then broadcasts, in vain if the dispatcher is on its way into Wait;
\* and WaitGroup.Done.
Broadcast(n) ==
  /\ test[n] = "waking"
  /\ test' = [test EXCEPT ![n] = "over"]
  /\ pc' = Woken
  /\ UNCHANGED <<mode, taskVars, phase, next, cancelled, slotVars, active, countVars,
                 saved>>

-----------------------------------------------------------------------------
AllTestsOver == \A n \in Node : test[n] \in {"none", "over"}

Stopped == cancelled \/ ctxDone

\* Mutant of LatencyPhaseEnds: the counter goes on in the second phase.
LatencyPhaseEndsCounting ==
  /\ pc = "wait" /\ phase = "latency" /\ AllTestsOver
  /\ \/ /\ Stopped
        /\ Report(completed, total)
        /\ pc' = "ended"
        /\ UNCHANGED <<phase, slotVars, next, test>>
     \/ /\ ~Stopped /\ mode = "mihomo"
        /\ phase' = "speed"
        /\ adaptive' \in BOOLEAN /\ limit' \in 1 .. MaxLimit
        /\ next' = 1
        /\ test' = [n \in Node |-> "none"]
        /\ pc' = "loop"
        /\ UNCHANGED <<progress, total>>
     \/ /\ ~Stopped /\ mode = "tcp"
        /\ pc' = "final"
        /\ UNCHANGED <<progress, total, phase, slotVars, next, test>>
  /\ UNCHANGED <<mode, ctxDone, status, cancelled, active, countVars, saved>>

\* After the latency phase: give up, go to the speed phase, or to the end.
LatencyPhaseEnds ==
  /\ pc = "wait" /\ phase = "latency" /\ AllTestsOver
  /\ \/ /\ Stopped
        /\ Report(completed, total)
        /\ pc' = "ended"
        /\ UNCHANGED <<phase, slotVars, next, test, completed>>
     \/ /\ ~Stopped /\ mode = "mihomo"
        /\ phase' = "speed"
        /\ adaptive' \in BOOLEAN /\ limit' \in 1 .. MaxLimit
        /\ next' = 1
        /\ test' = [n \in Node |-> "none"]
        /\ completed' = 0
        /\ pc' = "loop"
        /\ UNCHANGED <<progress, total>>
     \/ /\ ~Stopped /\ mode = "tcp"
        /\ pc' = "final"
        /\ UNCHANGED <<progress, total, phase, slotVars, next, test, completed>>
  /\ UNCHANGED <<mode, ctxDone, status, cancelled, active, delay, results,
                 succ, fail, saved>>

SpeedPhaseEnds ==
  /\ pc = "wait" /\ phase = "speed" /\ AllTestsOver
  /\ pc' = "final"
  /\ UNCHANGED <<mode, taskVars, phase, next, cancelled, slotVars, active, test,
                 countVars, saved>>

\* Mutant of FinalCheck: only what the loop saw counts.
FinalCheckOfLoop ==
  /\ pc = "final"
  /\ pc' = IF cancelled THEN "ended" ELSE "saving"
  /\ UNCHANGED <<mode, taskVars, phase, next, cancelled, slotVars, active, test,
                 countVars, saved>>

\* The last look at the cancellation, before the batch.
FinalCheck ==
  /\ pc = "final"
  /\ pc' = IF Stopped THEN "ended" ELSE "saving"
  /\ UNCHANGED <<mode, taskVars, phase, next, cancelled, slotVars, active, test,
                 countVars, saved>>

\* BatchUpdateSpeedResults; if it fails, FailTask.
SaveResults(ok) ==
  /\ pc = "saving"
  /\ saved' = ok
  /\ pc' = IF ok THEN "completing" ELSE "ended"
  /\ status' = IF ok THEN status ELSE "error"
  /\ ctxDone' = IF ok THEN ctxDone ELSE TRUE
  /\ UNCHANGED <<mode, progress, total, phase, next, cancelled, slotVars, active,
                 test, countVars>>

\* CompleteTask.
Complete ==
  /\ pc = "completing"
  /\ status' = "completed"
  /\ progress' = total
  /\ ctxDone' = TRUE
  /\ pc' = "ended"
  /\ UNCHANGED <<mode, total, phase, next, cancelled, slotVars, active, test,
                 countVars, saved>>

-----------------------------------------------------------------------------
\* CancelTask by the user.
CancelTask ==
  /\ pc # "ended"
  /\ status = "running"
  /\ status' = "cancelled"
  /\ ctxDone' = TRUE
  /\ UNCHANGED <<mode, progress, total, phase, pc, next, cancelled, slotVars, active,
                 test,
                 countVars, saved>>

\* The context's 24 hours are over; the task keeps its status.
Timeout ==
  /\ pc # "ended"
  /\ ~ctxDone
  /\ ctxDone' = TRUE
  /\ UNCHANGED <<mode, status, progress, total, phase, pc, next, cancelled, slotVars,
                 active,
                 test, countVars, saved>>

Dispatch ==
  \/ SeeCancelled \/ WantSlot \/ SkipFailed \/ StartTest \/ Refuse \/ Park \/ LoopEnds
  \/ LatencyPhaseEnds \/ SpeedPhaseEnds \/ FinalCheck
  \/ \E ok \in BOOLEAN : SaveResults(ok)
  \/ Complete

TestStep(n) ==
  \/ BeginTest(n) \/ DropResult(n) \/ LeaveTest(n) \/ Broadcast(n)
  \/ \E outcome \in {"ok", "err"} : RecordDelay(n, outcome) \/ RecordSpeed(n, outcome)

Next ==
  \/ Dispatch
  \/ \E n \in Node : TestStep(n)
  \/ CancelTask \/ Timeout

Spec == Init /\ [][Next]_vars

\* Every test has a timeout and every goroutine that can go on is scheduled: a
\* dispatcher that is parked can not, and no fairness wakes it.
FairSpec == Spec /\ WF_vars(Dispatch) /\ \A n \in Node : WF_vars(TestStep(n))

-----------------------------------------------------------------------------
TypeOK ==
  /\ mode \in {"tcp", "mihomo"}
  /\ ctxDone \in BOOLEAN
  /\ status \in {"running", "cancelled", "completed", "error"}
  /\ progress \in Nat
  /\ total \in Nat
  /\ phase \in {"latency", "speed"}
  /\ pc \in {"loop", "acquire", "adding", "parked", "wait", "final", "saving",
            "completing", "ended"}
  /\ next \in 1 .. N + 1
  /\ cancelled \in BOOLEAN
  /\ adaptive \in BOOLEAN
  /\ limit \in 1 .. MaxLimit
  /\ active \in Nat
  /\ test \in [Node -> {"none", "started", "testing", "leaving", "waking", "over"}]
  /\ delay \in [Node -> {"none", "ok", "err"}]
  /\ results \in [Node -> Nat]
  /\ completed \in Nat
  /\ succ \in Nat
  /\ fail \in Nat
  /\ saved \in BOOLEAN

\* A batch that reaches the database has exactly one result of every node, and
\* the counts of its completion message cover the check: a run some of whose
\* tests were skipped for a cancellation is not saved, even if the loop itself
\* never saw the cancellation.
SavedRunIsComplete ==
  saved => (\A n \in Node : results[n] = 1) /\ succ + fail = N

\* The progress bar never runs past its end, though the total of a two-phase
\* check is only raised when the first node's latency test ends.
\* Reports reach the task manager in order: it never goes back either.
ProgressGoesForward ==
  [](progress <= total) /\ [][progress' >= progress]_vars

\* Slots are neither lost nor given twice, whichever way a test goroutine ends.
SlotsAccounted ==
  /\ active = Cardinality({n \in Node : test[n] \in {"started", "testing", "leaving"}})
  /\ active <= MaxLimit

\* Once the context is done before the last test is over, nothing is saved.
CancelledEarly ==
  ctxDone /\ pc \in {"loop", "acquire", "adding", "parked", "wait", "final"}
CancelledEarlySavesNothing == [](CancelledEarly => []~saved)

\* The dispatcher sleeps although there is a slot for it, and no test is left
\* whose end could wake it.
Overslept == pc = "parked" /\ adaptive /\ active < limit /\ AllTestsOver

\* Every run ends, whatever its tests do and whenever it is cancelled, but for
\* one cause: the dispatcher of an adaptive phase missed the wake-up of the last
\* running test.  With a fixed number of slots every run ends.
EndsOrOversleeps == <>(pc = "ended" \/ Overslept)
=============================================================================
