----------------------- MODULE ConcurrencyController -----------------------
(***************************************************************************)
(* The adaptive concurrency controller of the node checks                  *)
(* (services/adaptive_concurrency.go): the dispatcher of a check phase     *)
(* takes one slot per node with AcquireDynamic, and each test goroutine    *)
(* gives its slot back with ReleaseDynamic and may call MaybeAdjust.       *)
(*                                                                         *)
(* AcquireDynamic and MaybeAdjust hold acc.mu; ReleaseDynamic does not, so *)
(* its decrement and its Broadcast interleave with the dispatcher's check  *)
(* of the condition and its registration in cond.Wait.  The test           *)
(* goroutines are counted, not named.  The semaphore methods Acquire,      *)
(* Release and TryAcquire have no caller.                                  *)
(***************************************************************************)
EXTENDS Integers

CONSTANTS
  Cpus,        \* values of runtime.NumCPU
  TotalTasks   \* nodes of the check

ASSUME CpusAssumption == Cpus \subseteq Nat \ {0}
ASSUME TotalTasksAssumption == TotalTasks \in Nat \ {0}

VARIABLES
  type,       \* adaptiveType
  cpu,        \* runtime.NumCPU()
  current,    \* currentConcurrency
  active,     \* activeCount
  launched,   \* test goroutines started so far
  releasing,  \* goroutines between the decrement and the Broadcast
  pc          \* the dispatcher in AcquireDynamic

vars == <<type, cpu, current, active, launched, releasing, pc>>

AtLeast(a, b) == IF a < b THEN b ELSE a
AtMost(a, b) == IF a > b THEN b ELSE a

\* NewAdaptiveConcurrencyController
MinConcurrency(ty, n) == IF ty = "latency" THEN AtLeast(2 * n, 4) ELSE 1

MaxConcurrency(ty, n) == IF ty = "latency" THEN AtMost(20 * n, 500) ELSE AtMost(4 * n, 32)

InitialConcurrency(ty, n) ==
  LET first == IF ty = "latency"
               THEN AtLeast(AtMost(5 * n, TotalTasks), MinConcurrency(ty, n))
               ELSE AtLeast(n \div 2, 1)
  IN  AtMost(AtMost(first, MaxConcurrency(ty, n)), TotalTasks)

Init ==
  /\ type \in {"latency", "speed"}
  /\ cpu \in Cpus
  /\ current = InitialConcurrency(type, cpu)
  /\ active = 0
  /\ launched = 0
  /\ releasing = 0
  /\ pc = "idle"

-----------------------------------------------------------------------------
\* What MaybeAdjust finds in the system metrics, and the factor it applies.
Load == {"emergency", "high", "memory", "ample"}

\* Mutant of Scaled: the rise is rounded up.
ScaledUp(load, c) ==
  IF load = "ample" THEN (3 * c + 1) \div 2 ELSE c \div 2

Scaled(load, c) ==
  CASE load = "emergency" -> c \div 2
    [] load = "high"      -> (4 * c) \div 5
    [] load = "memory"    -> (17 * c) \div 20
    [] load = "ample"     -> (3 * c) \div 2

\* The new concurrency, after the bounds and the minimal change of two.
Target(load, c) ==
  LET bounded == AtMost(AtMost(AtLeast(Scaled(load, c), MinConcurrency(type, cpu)),
                               MaxConcurrency(type, cpu)), TotalTasks)
  IN  IF bounded - c \in -1 .. 1 THEN c ELSE bounded

Woken == IF pc = "waiting" THEN "woken" ELSE pc

MutexFree == pc \notin {"check", "adding"}

-----------------------------------------------------------------------------
\* AcquireDynamic: take acc.mu, also when cond.Wait returns.
LockMutex ==
  /\ pc \in {"idle", "woken"}
  /\ pc' = "check"
  /\ UNCHANGED <<type, cpu, current, active, launched, releasing>>

\* Mutant of Admit: one slot too many.
AdmitOneMore ==
  /\ pc = "check"
  /\ active <= current
  /\ active' = active + 1
  /\ launched' = launched + 1
  /\ pc' = IF launched' = TotalTasks THEN "done" ELSE "idle"
  /\ UNCHANGED <<type, cpu, current, releasing>>

\* The condition holds: count the slot and start the test goroutine.
Admit ==
  /\ pc = "check"
  /\ active < current
  /\ active' = active + 1
  /\ launched' = launched + 1
  /\ pc' = IF launched' = TotalTasks THEN "done" ELSE "idle"
  /\ UNCHANGED <<type, cpu, current, releasing>>

\* The condition fails: the dispatcher has read activeCount ...
Refuse ==
  /\ pc = "check"
  /\ active >= current
  /\ pc' = "adding"
  /\ UNCHANGED <<type, cpu, current, active, launched, releasing>>

\* ... and only now joins the waiters, and releases acc.mu.
Park ==
  /\ pc = "adding"
  /\ pc' = "waiting"
  /\ UNCHANGED <<type, cpu, current, active, launched, releasing>>

\* ReleaseDynamic: the decrement, without acc.mu.
ReleaseSlot ==
  /\ active > 0
  /\ active' = active - 1
  /\ releasing' = releasing + 1
  /\ UNCHANGED <<type, cpu, current, launched, pc>>

\* Mutant of Broadcast: the waiters are not woken.
BroadcastLost ==
  /\ releasing > 0
  /\ releasing' = releasing - 1
  /\ UNCHANGED <<type, cpu, current, active, launched, pc>>

\* ReleaseDynamic: the Broadcast.
Broadcast ==
  /\ releasing > 0
  /\ releasing' = releasing - 1
  /\ pc' = Woken
  /\ UNCHANGED <<type, cpu, current, active, launched>>

\* MaybeAdjust, by a goroutine that still holds its slot.
MaybeAdjust(load) ==
  /\ MutexFree
  /\ active > 0
  /\ load = "ample" => current < MaxConcurrency(type, cpu)
  /\ Target(load, current) # current
  /\ current' = Target(load, current)
  /\ pc' = Woken
  /\ UNCHANGED <<type, cpu, active, launched, releasing>>

Next ==
  \/ LockMutex \/ Admit \/ Refuse \/ Park
  \/ ReleaseSlot \/ Broadcast
  \/ \E load \in Load : MaybeAdjust(load)

Spec == Init /\ [][Next]_vars

\* Go schedules every runnable goroutine, and every test has a timeout.
\* acc.mu is not starved (sync.Mutex hands over to a waiter after 1 ms).
Fairness ==
  /\ WF_vars(LockMutex) /\ WF_vars(Admit) /\ WF_vars(Refuse) /\ WF_vars(Park)
  /\ WF_vars(ReleaseSlot) /\ WF_vars(Broadcast)

FairSpec == Spec /\ Fairness

-----------------------------------------------------------------------------
TypeOK ==
  /\ type \in {"latency", "speed"}
  /\ cpu \in Cpus
  /\ current \in Nat
  /\ active \in Nat
  /\ launched \in Nat
  /\ releasing \in Nat
  /\ pc \in {"idle", "check", "adding", "waiting", "woken", "done"}

\* At no time do more tests run than the machine and the check allow, also
\* when the limit has just been lowered below the number of running tests, and
\* the limit never falls to zero, where the phase could not go on.
SlotBound ==
  /\ active <= AtMost(MaxConcurrency(type, cpu), TotalTasks)
  /\ current > 0

\* A slot is given only below the limit that holds at that moment, also to a
\* dispatcher that was woken for a slot lost since.
AdmissionRespectsLimit == [][active' > active => active' <= current']_vars

\* The dispatcher does not sleep through the end of a running test: as long as
\* a slot is held when it parks, the holder's broadcast wakes it.
BusyWaiterIsWoken == (pc = "waiting" /\ active > 0) ~> pc # "waiting"

\* AcquireDynamic waits "until the active count is below the allowed
\* concurrency" (adaptive_concurrency.go:348): a waiter for whom there is a
\* slot gets through.
WaiterWithSlotGetsThrough ==
  (pc = "waiting" /\ active < current) ~> pc # "waiting"

\* A limit of three or less is never raised again, however ample the resources
\* are: the rise by half is rounded down, and a change of one is ignored.
LowLimitStays == [][current <= 3 => current' <= current]_vars
=============================================================================
