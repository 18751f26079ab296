-------------------- MODULE ConcurrencyControllerProofs --------------------
(***************************************************************************)
(* Proofs about ConcurrencyController, for any number of processors and of *)
(* nodes.                                                                  *)
(***************************************************************************)
EXTENDS ConcurrencyController, TLAPS

\* The most tests the machine and the check allow.
Ceiling == AtMost(MaxConcurrency(type, cpu), TotalTasks)

\* The lowest limit MaybeAdjust goes down to.
Floor == AtMost(AtMost(MinConcurrency(type, cpu), MaxConcurrency(type, cpu)), TotalTasks)

\* SlotBound alone is not inductive: an admission respects current, so current
\* itself has to stay between the floor and the ceiling.
IInv ==
  /\ TypeOK
  /\ current \in Floor .. Ceiling
  /\ active \in 0 .. Ceiling

-----------------------------------------------------------------------------
\* The bounds of the constructor.
LEMMA Bounds ==
  ASSUME NEW ty \in {"latency", "speed"}, NEW n \in Cpus
  PROVE  /\ MinConcurrency(ty, n) \in Nat \ {0}
         /\ MaxConcurrency(ty, n) \in Nat \ {0}
         /\ AtMost(MaxConcurrency(ty, n), TotalTasks) \in Nat \ {0}
<1>1. n \in Nat \ {0} /\ TotalTasks \in Nat \ {0}
  BY CpusAssumption, TotalTasksAssumption
<1>2. MinConcurrency(ty, n) \in Nat \ {0}
  BY <1>1 DEF MinConcurrency, AtLeast
<1>3. MaxConcurrency(ty, n) \in Nat \ {0}
  BY <1>1 DEF MaxConcurrency, AtMost
<1>4. QED  BY <1>1, <1>2, <1>3 DEF AtMost

LEMMA FloorType ==
  ASSUME type \in {"latency", "speed"}, cpu \in Cpus
  PROVE  Floor \in Nat \ {0} /\ Ceiling \in Nat \ {0}
BY Bounds, TotalTasksAssumption DEF Floor, Ceiling, AtMost

\* The first limit is within them.
LEMMA InitialBounds ==
  ASSUME NEW ty \in {"latency", "speed"}, NEW n \in Cpus
  PROVE  InitialConcurrency(ty, n) \in
           AtMost(AtMost(MinConcurrency(ty, n), MaxConcurrency(ty, n)), TotalTasks)
             .. AtMost(MaxConcurrency(ty, n), TotalTasks)
<1> DEFINE first == IF ty = "latency"
                    THEN AtLeast(AtMost(5 * n, TotalTasks), MinConcurrency(ty, n))
                    ELSE AtLeast(n \div 2, 1)
<1>1. n \in Nat \ {0} /\ TotalTasks \in Nat \ {0}
  BY CpusAssumption, TotalTasksAssumption
<1>2. MinConcurrency(ty, n) \in Nat \ {0} /\ MaxConcurrency(ty, n) \in Nat \ {0}
  BY Bounds
<1>3. first \in Nat /\ first >= MinConcurrency(ty, n)
  <2>1. CASE ty = "latency"
    BY <1>1, <1>2, <2>1 DEF AtLeast, AtMost
  <2>2. CASE ty = "speed"
    BY <1>1, <2>2 DEF AtLeast, MinConcurrency
  <2>3. QED  BY <2>1, <2>2
<1>4. InitialConcurrency(ty, n) = AtMost(AtMost(first, MaxConcurrency(ty, n)), TotalTasks)
  BY DEF InitialConcurrency
<1> HIDE DEF first
<1>5. QED  BY <1>1, <1>2, <1>3, <1>4 DEF AtMost

\* So is every later one.
LEMMA TargetBounds ==
  ASSUME IInv, NEW load \in Load
  PROVE  Target(load, current) \in Floor .. Ceiling
<1> DEFINE bounded == AtMost(AtMost(AtLeast(Scaled(load, current), MinConcurrency(type, cpu)),
                                    MaxConcurrency(type, cpu)), TotalTasks)
<1>1. Scaled(load, current) \in Int
  BY DEF IInv, TypeOK, Load, Scaled
<1>2. /\ MinConcurrency(type, cpu) \in Nat \ {0}
      /\ MaxConcurrency(type, cpu) \in Nat \ {0}
      /\ TotalTasks \in Nat \ {0}
  BY Bounds, TotalTasksAssumption DEF IInv, TypeOK
<1>3. bounded \in Floor .. Ceiling
  BY <1>1, <1>2 DEF AtMost, AtLeast, Floor, Ceiling
<1>4. Target(load, current) \in {current, bounded}
  BY DEF Target
<1> HIDE DEF bounded
<1>5. QED  BY <1>3, <1>4 DEF IInv

\* For nodes' latencies the floor is at least four or the whole check; for
\* speeds it is one, and half of three is one.
LEMMA LowTarget ==
  ASSUME IInv, current <= 3, NEW load \in Load
  PROVE  Target(load, current) <= current
<1> DEFINE bounded == AtMost(AtMost(AtLeast(Scaled(load, current), MinConcurrency(type, cpu)),
                                    MaxConcurrency(type, cpu)), TotalTasks)
<1>1. current \in Nat /\ current >= Floor /\ Floor \in Nat \ {0}
  BY FloorType DEF IInv, TypeOK
<1>2. cpu \in Nat \ {0} /\ TotalTasks \in Nat \ {0}
  BY CpusAssumption, TotalTasksAssumption DEF IInv, TypeOK
<1>3. Scaled(load, current) \in Int /\ Scaled(load, current) <= current + 1
  BY <1>1 DEF Load, Scaled
<1>4. CASE type = "latency"
  <2>1. MinConcurrency(type, cpu) >= 4 /\ MaxConcurrency(type, cpu) >= 4
    BY <1>2, <1>4 DEF MinConcurrency, MaxConcurrency, AtLeast, AtMost
  <2>2. MinConcurrency(type, cpu) \in Nat /\ MaxConcurrency(type, cpu) \in Nat
    BY Bounds DEF IInv, TypeOK
  <2>3. Floor = TotalTasks
    BY <1>1, <1>2, <2>1, <2>2 DEF Floor, AtMost
  <2>4. bounded \in Int /\ bounded <= TotalTasks
    BY <1>2, <1>3, <2>2 DEF AtMost, AtLeast
  <2> HIDE DEF bounded
  <2>5. QED  BY <1>1, <2>3, <2>4 DEF Target, bounded
<1>5. CASE type = "speed"
  <2>1. MinConcurrency(type, cpu) = 1 /\ MaxConcurrency(type, cpu) \in Nat
    BY <1>5, Bounds DEF MinConcurrency, IInv, TypeOK
  <2>2. bounded \in Int /\ bounded <= current + 1
    BY <1>1, <1>2, <1>3, <2>1 DEF AtMost, AtLeast
  <2>3. Target(load, current) = IF bounded - current \in -1 .. 1 THEN current ELSE bounded
    BY DEF Target
  <2> HIDE DEF bounded
  <2>4. QED  BY <1>1, <2>2, <2>3
<1>6. QED  BY <1>4, <1>5 DEF IInv, TypeOK

-----------------------------------------------------------------------------
LEMMA InitInv == Init => IInv
<1> SUFFICES ASSUME Init PROVE IInv
  OBVIOUS
<1>1. type \in {"latency", "speed"} /\ cpu \in Cpus
  BY DEF Init
<1>2. current \in Floor .. Ceiling
  BY <1>1, InitialBounds DEF Init, Floor, Ceiling
<1>3. Floor \in Nat /\ Ceiling \in Nat
  BY <1>1, FloorType
<1>4. QED  BY <1>1, <1>2, <1>3 DEF Init, IInv, TypeOK

LEMMA NextInv == IInv /\ [Next]_vars => IInv'
<1> SUFFICES ASSUME IInv, [Next]_vars PROVE IInv'
  OBVIOUS
<1> USE DEF IInv, TypeOK
<1>1. Floor \in Nat /\ Ceiling \in Nat
  BY FloorType
<1>2. type' = type /\ cpu' = cpu /\ Floor' = Floor /\ Ceiling' = Ceiling
  BY DEF Next, vars, LockMutex, Admit, Refuse, Park, ReleaseSlot, Broadcast,
         MaybeAdjust, Floor, Ceiling, MinConcurrency, MaxConcurrency
<1>3. CASE LockMutex
  BY <1>2, <1>3 DEF LockMutex
<1>4. CASE Admit
  BY <1>1, <1>2, <1>4 DEF Admit
<1>5. CASE Refuse
  BY <1>2, <1>5 DEF Refuse
<1>6. CASE Park
  BY <1>2, <1>6 DEF Park
<1>7. CASE ReleaseSlot
  BY <1>1, <1>2, <1>7 DEF ReleaseSlot
<1>8. CASE Broadcast
  BY <1>2, <1>8 DEF Broadcast, Woken
<1>9. ASSUME NEW load \in Load, MaybeAdjust(load) PROVE IInv'
  <2>1. current' \in Floor .. Ceiling
    BY <1>9, TargetBounds DEF MaybeAdjust
  <2>2. QED  BY <1>1, <1>2, <1>9, <2>1 DEF MaybeAdjust, Woken
<1>10. CASE UNCHANGED vars
  BY <1>2, <1>10 DEF vars
<1>11. QED
  BY <1>3, <1>4, <1>5, <1>6, <1>7, <1>8, <1>9, <1>10 DEF Next

-----------------------------------------------------------------------------
\* The invariant holds in every state, for every number of processors.
THEOREM Invariance == Spec => []IInv
<1>1. QED  BY InitInv, NextInv, PTL DEF Spec

\* The counters never go below zero and the dispatcher is at a place it knows.
THEOREM TypeCorrect == Spec => []TypeOK
<1>1. IInv => TypeOK
  BY DEF IInv
<1>2. QED  BY <1>1, Invariance, PTL

\* No more tests run at once than the machine and the check allow, whatever
\* order limits, admissions and releases come in, and the limit stays positive.
THEOREM SlotsBounded == Spec => []SlotBound
<1>1. IInv => SlotBound
  <2> SUFFICES ASSUME IInv PROVE SlotBound
    OBVIOUS
  <2>1. Floor \in Nat \ {0} /\ Ceiling \in Nat
    BY FloorType DEF IInv, TypeOK
  <2>2. QED  BY <2>1 DEF IInv, SlotBound, Ceiling
<1>2. QED  BY <1>1, Invariance, PTL

\* A slot is given only below the limit of that moment.
THEOREM AdmissionsRespectLimit == Spec => AdmissionRespectsLimit
<1>1. IInv /\ [Next]_vars => [active' > active => active' <= current']_vars
  <2> SUFFICES ASSUME IInv, Next, active' > active PROVE active' <= current'
    BY DEF vars
  <2> USE DEF IInv, TypeOK
  <2>1. CASE Admit
    BY <2>1 DEF Admit
  <2>2. CASE ReleaseSlot
    BY <2>2 DEF ReleaseSlot
  <2>3. CASE UNCHANGED active
    BY <2>3
  <2>4. QED
    BY <2>1, <2>2, <2>3 DEF Next, LockMutex, Refuse, Park, Broadcast, MaybeAdjust
<1>2. QED  BY <1>1, Invariance, PTL DEF Spec, AdmissionRespectsLimit

\* A limit of three or less never rises again, on any machine: the rise by half
\* is rounded down, and a change of one is ignored.
THEOREM LowLimitsStay == Spec => LowLimitStays
<1>1. IInv /\ [Next]_vars => [current <= 3 => current' <= current]_vars
  <2> SUFFICES ASSUME IInv, Next, current <= 3 PROVE current' <= current
    BY DEF vars
  <2>1. CASE UNCHANGED current
    BY <2>1 DEF IInv, TypeOK
  <2>2. ASSUME NEW load \in Load, MaybeAdjust(load) PROVE current' <= current
    BY <2>2, LowTarget DEF MaybeAdjust
  <2>3. QED
    BY <2>1, <2>2 DEF Next, LockMutex, Admit, Refuse, Park, ReleaseSlot, Broadcast
<1>2. QED  BY <1>1, Invariance, PTL DEF Spec, LowLimitStays
=============================================================================
