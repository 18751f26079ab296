----------------------- MODULE SmartGroupChecksProofs -----------------------
(***************************************************************************)
(* Proofs about SmartGroupChecks, for any groups, airports, profiles and   *)
(* goroutines, and any number of starts, edits and database errors.        *)
(***************************************************************************)
EXTENDS SmartGroupChecks, TLAPS

\* What a goroutine has in hand where it stands: only one that reserves or
\* runs holds groups, only one that reserves has groups left to visit, and
\* only one that runs has a batch.
Standing(w) ==
  /\ pc[w] \in {"free", "load"} => held[w] = {}
  /\ pc[w] # "reserve" => todo[w] = {}
  /\ pc[w] # "run" => running[w] = {}

IInv ==
  /\ TypeOK
  /\ ReservedHasOneHolder
  /\ \A w \in Worker : Standing(w)

-----------------------------------------------------------------------------
LEMMA InitInv == Init => IInv
<1> SUFFICES ASSUME Init PROVE IInv
  OBVIOUS
<1>1. TypeOK
  BY ProfilesAssumption, BoundAssumption DEF Init, TypeOK, Nothing
<1>2. ReservedHasOneHolder
  BY DEF Init, ReservedHasOneHolder
<1>3. \A w \in Worker : Standing(w)
  BY DEF Init, Standing
<1>4. QED  BY <1>1, <1>2, <1>3 DEF IInv

\* A goroutine that may be started is free.
LEMMA FreshIsFree ==
  ASSUME MayStart
  PROVE  Fresh(pc) \in Worker /\ pc[Fresh(pc)] = "free"
BY DEF MayStart, Fresh

\* The holders of groups do not change.
LEMMA SameHoldersInv ==
  ASSUME ReservedHasOneHolder, held' = held, reserved' = reserved
  PROVE  ReservedHasOneHolder'
BY DEF ReservedHasOneHolder

\* One goroutine reserves one more group, which was free.
LEMMA OneMoreInv ==
  ASSUME ReservedHasOneHolder, held \in [Worker -> SUBSET Group],
         NEW w \in Worker, NEW g \in Group, g \notin reserved,
         held' = [held EXCEPT ![w] = held[w] \cup {g}], reserved' = reserved \cup {g}
  PROVE  ReservedHasOneHolder'
<1>1. \A v \in Worker : g \notin held[v]
  BY DEF ReservedHasOneHolder
<1>2. reserved' = UNION {held'[v] : v \in Worker}
  <2>1. \A x : x \in reserved' <=> \E v \in Worker : x \in held'[v]
    BY DEF ReservedHasOneHolder
  <2>2. QED  BY <2>1
<1>3. \A u, v \in Worker : u # v => held'[u] \cap held'[v] = {}
  BY <1>1 DEF ReservedHasOneHolder
<1>4. QED  BY <1>2, <1>3 DEF ReservedHasOneHolder

\* One goroutine releases some of its groups.
LEMMA SomeLessInv ==
  ASSUME ReservedHasOneHolder, held \in [Worker -> SUBSET Group],
         NEW w \in Worker, NEW R \in SUBSET held[w],
         held' = [held EXCEPT ![w] = held[w] \ R], reserved' = reserved \ R
  PROVE  ReservedHasOneHolder'
<1>1. \A v \in Worker : v # w => held[v] \cap R = {}
  BY DEF ReservedHasOneHolder
<1>2. reserved' = UNION {held'[v] : v \in Worker}
  <2>1. \A x : x \in reserved' <=> \E v \in Worker : x \in held'[v]
    BY <1>1 DEF ReservedHasOneHolder
  <2>2. QED  BY <2>1
<1>3. \A u, v \in Worker : u # v => held'[u] \cap held'[v] = {}
  BY DEF ReservedHasOneHolder
<1>4. QED  BY <1>2, <1>3 DEF ReservedHasOneHolder

-----------------------------------------------------------------------------
LEMMA AirportUpdatedInv ==
  ASSUME IInv, NEW a \in Airport, AirportUpdated(a)
  PROVE  IInv'
<1> DEFINE w == Fresh(pc)
<1>1. w \in Worker /\ pc[w] = "free"
  BY FreshIsFree DEF AirportUpdated
<1>2. /\ pc' = [pc EXCEPT ![w] = "load"]
      /\ want' = [want EXCEPT ![w] = [g \in Group |-> {a}]]
      /\ starts < MaxStarts /\ starts' = starts + 1
      /\ UNCHANGED <<groupVars, mapVars, goal, todo, held, running, owed, edits, errors>>
  BY DEF AirportUpdated, MayStart
<1> HIDE DEF w
<1>3. TypeOK'
  BY <1>1, <1>2, BoundAssumption DEF IInv, TypeOK, groupVars, mapVars
<1>4. \A v \in Worker : Standing(v)'
  BY <1>1, <1>2 DEF IInv, TypeOK, Standing
<1>5. QED  BY <1>2, <1>3, <1>4, SameHoldersInv DEF IInv, mapVars

LEMMA StartInv ==
  ASSUME IInv, NEW g \in Group, StartSmartGroupCheck(g)
  PROVE  IInv'
<1> DEFINE w == Fresh(pc)
<1>1. w \in Worker /\ pc[w] = "free" /\ held[w] = {} /\ running[w] = {}
  BY FreshIsFree DEF StartSmartGroupCheck, IInv, Standing
<1>2. /\ g \notin reserved /\ reserved' = reserved \cup {g}
      /\ pending' = [pending EXCEPT ![g] = {}]
      /\ held' = [held EXCEPT ![w] = {g}]
      /\ pc' = [pc EXCEPT ![w] = "reserve"]
      /\ starts < MaxStarts /\ starts' = starts + 1
      /\ UNCHANGED <<groupVars, want, goal, todo, running, owed, edits, errors>>
  BY DEF StartSmartGroupCheck, MayStart
<1> HIDE DEF w
<1>3. TypeOK'
  BY <1>1, <1>2, BoundAssumption DEF IInv, TypeOK, groupVars
<1>4. \A v \in Worker : Standing(v)'
  BY <1>1, <1>2 DEF IInv, TypeOK, Standing
<1>5. held' = [held EXCEPT ![w] = held[w] \cup {g}]
  BY <1>1, <1>2
<1>6. QED  BY <1>1, <1>2, <1>3, <1>4, <1>5, OneMoreInv DEF IInv, TypeOK

\* GoOn keeps the types and puts the goroutine where its groups say.
LEMMA GoOnInv ==
  ASSUME IInv, NEW w \in Worker, NEW T \in SUBSET Group, NEW H \in SUBSET Group,
         GoOn(w, T, H), running' = running, running[w] = {}
  PROVE  /\ pc' \in [Worker -> {"free", "load", "reserve", "run"}]
         /\ want' \in [Worker -> [Group -> SUBSET Airport]]
         /\ todo' \in [Worker -> SUBSET Group]
         /\ held' \in [Worker -> SUBSET Group]
         /\ \A v \in Worker : running'[v] \subseteq held'[v] /\ Standing(v)'
<1> USE DEF IInv, TypeOK
<1>1. pc' \in [Worker -> {"free", "load", "reserve", "run"}]
  BY DEF GoOn
<1>2. want' \in [Worker -> [Group -> SUBSET Airport]]
  BY DEF GoOn, Nothing
<1>3. /\ todo' = [todo EXCEPT ![w] = T] /\ held' = [held EXCEPT ![w] = H]
      /\ pc' = [pc EXCEPT ![w] = IF T = {} /\ H = {} THEN "free" ELSE "reserve"]
  BY DEF GoOn
<1>4. \A v \in Worker : running'[v] \subseteq held'[v] /\ Standing(v)'
  BY <1>3 DEF Standing
<1>5. QED  BY <1>1, <1>2, <1>3, <1>4

LEMMA LoadInv ==
  ASSUME IInv, NEW w \in Worker, LoadGroups(w) \/ LoadFails(w)
  PROVE  IInv'
<1>1. pc[w] = "load" /\ held[w] = {} /\ running[w] = {}
  BY DEF LoadGroups, LoadFails, IInv, Standing
<1>2. UNCHANGED <<groupVars, mapVars, running, owed, starts, edits>>
  BY DEF LoadGroups, LoadFails, boundVars
<1>3. PICK T \in SUBSET Group : GoOn(w, T, {})
  BY DEF LoadGroups, LoadFails
<1>4. goal' \in [Worker -> [Group -> SUBSET Airport]]
  <2>1. CASE LoadGroups(w)
    BY <2>1 DEF LoadGroups, IInv, TypeOK
  <2>2. CASE LoadFails(w)
    BY <2>2 DEF LoadFails, IInv, TypeOK
  <2>3. QED  BY <2>1, <2>2
<1>5. errors' \in 0 .. MaxErrors
  <2>1. (errors' = errors) \/ (errors < MaxErrors /\ errors' = errors + 1)
    <3>1. CASE LoadGroups(w)
      BY <3>1 DEF LoadGroups, boundVars
    <3>2. CASE LoadFails(w)
      BY <3>2 DEF LoadFails
    <3>3. QED  BY <3>1, <3>2
  <2>2. QED  BY <2>1, BoundAssumption DEF IInv, TypeOK
<1>6. TypeOK' /\ \A v \in Worker : Standing(v)'
  BY <1>1, <1>2, <1>3, <1>4, <1>5, GoOnInv DEF IInv, TypeOK, groupVars, mapVars
<1>7. held' = held
  BY <1>1, <1>3 DEF GoOn, IInv, TypeOK
<1>8. QED  BY <1>2, <1>6, <1>7, SameHoldersInv DEF IInv, mapVars

LEMMA VisitInv ==
  ASSUME IInv, NEW w \in Worker, NEW g \in Group,
         SkipGroup(w, g) \/ Reserve(w, g) \/ Merge(w, g)
  PROVE  IInv'
<1>1. g \in todo[w] /\ pc[w] = "reserve" /\ running[w] = {}
  BY DEF SkipGroup, Reserve, Merge, IInv, Standing
<1>2. UNCHANGED <<groupVars, running, starts, edits>>
  BY DEF SkipGroup, Reserve, Merge, boundVars
<1>3. PICK H \in {held[w], held[w] \cup {g}} : Visited(w, g, H)
  BY DEF SkipGroup, Reserve, Merge
<1>4. H \in SUBSET Group /\ todo[w] \ {g} \in SUBSET Group
  BY DEF IInv, TypeOK
<1>5. GoOn(w, todo[w] \ {g}, H)
  BY <1>3 DEF Visited
<1>6. goal' \in [Worker -> [Group -> SUBSET Airport]]
  BY <1>3 DEF Visited, IInv, TypeOK
<1>7. /\ reserved' \subseteq Group
      /\ pending' \in [Group -> SUBSET Airport]
      /\ owed' \in [Group -> SUBSET Airport]
      /\ (errors' = errors) \/ (errors < MaxErrors /\ errors' = errors + 1)
  <2>1. CASE SkipGroup(w, g)
    BY <2>1 DEF SkipGroup, IInv, TypeOK, mapVars
  <2>2. CASE Reserve(w, g)
    BY <2>2 DEF Reserve, IInv, TypeOK, boundVars
  <2>3. CASE Merge(w, g)
    BY <2>3 DEF Merge, IInv, TypeOK, boundVars
  <2>4. QED  BY <2>1, <2>2, <2>3
<1>7a. errors' \in 0 .. MaxErrors
  BY <1>7, BoundAssumption DEF IInv, TypeOK
<1>8. TypeOK' /\ \A v \in Worker : Standing(v)'
  BY <1>1, <1>2, <1>4, <1>5, <1>6, <1>7, <1>7a, GoOnInv DEF IInv, TypeOK, groupVars
<1>9. ReservedHasOneHolder'
  <2>1. CASE SkipGroup(w, g) \/ Merge(w, g)
    <3>1. held' = held /\ reserved' = reserved
      BY <2>1 DEF SkipGroup, Merge, Visited, GoOn, mapVars, IInv, TypeOK
    <3>2. QED  BY <3>1, SameHoldersInv DEF IInv
  <2>2. CASE Reserve(w, g)
    <3>1. /\ held' = [held EXCEPT ![w] = held[w] \cup {g}]
          /\ g \notin reserved /\ reserved' = reserved \cup {g}
      BY <2>2 DEF Reserve, Visited, GoOn
    <3>2. QED  BY <3>1, OneMoreInv DEF IInv, TypeOK
  <2>3. QED  BY <2>1, <2>2
<1>10. QED  BY <1>8, <1>9 DEF IInv

LEMMA BeginBatchInv ==
  ASSUME IInv, NEW w \in Worker, BeginBatch(w)
  PROVE  IInv'
<1>1. TypeOK' /\ \A v \in Worker : Standing(v)'
  BY DEF BeginBatch, IInv, TypeOK, Standing, groupVars, mapVars, boundVars
<1>2. held' = held /\ reserved' = reserved
  BY DEF BeginBatch, mapVars
<1>3. QED  BY <1>1, <1>2, SameHoldersInv DEF IInv

LEMMA FinishBatchInv ==
  ASSUME IInv, NEW w \in Worker, FinishBatch(w)
  PROVE  IInv'
<1> DEFINE R == running[w]
           left == [pc EXCEPT ![w] = IF held'[w] = {} THEN "free" ELSE "reserve"]
<1>1. R \in SUBSET held[w] /\ todo[w] = {} /\ pc[w] = "run"
  BY DEF FinishBatch, IInv, TypeOK, Standing
<1>2. /\ reserved' = reserved \ R
      /\ pending' = [g \in Group |-> IF g \in R THEN {} ELSE pending[g]]
      /\ held' = [held EXCEPT ![w] = held[w] \ R]
      /\ running' = [running EXCEPT ![w] = {}]
      /\ UNCHANGED <<groupVars, goal, todo, owed, boundVars>>
  BY DEF FinishBatch, Release, IInv, TypeOK
<1>3. \/ pc' = left /\ want' = want
      \/ /\ \E v \in Worker : left[v] = "free"
         /\ pc' = [left EXCEPT ![Fresh(left)] = "load"]
         /\ want' = [want EXCEPT ![Fresh(left)] = Waited(R)]
  BY DEF FinishBatch
<1>4. left \in [Worker -> {"free", "load", "reserve", "run"}]
  BY DEF IInv, TypeOK
<1>5. Waited(R) \in [Group -> SUBSET Airport]
  BY DEF Waited, IInv, TypeOK
<1>6. /\ pc' \in [Worker -> {"free", "load", "reserve", "run"}]
      /\ \A v \in Worker : pc'[v] = left[v] \/ (pc'[v] = "load" /\ left[v] = "free")
  <2>1. (\E v \in Worker : left[v] = "free") => left[Fresh(left)] = "free"
    BY DEF Fresh
  <2> HIDE DEF left
  <2>2. QED  BY <1>3, <1>4, <2>1
<1>7. TypeOK'
  <2>1. want' \in [Worker -> [Group -> SUBSET Airport]]
    BY <1>3, <1>5 DEF IInv, TypeOK
  <2>2. QED  BY <1>1, <1>2, <1>6, <2>1 DEF IInv, TypeOK, groupVars, boundVars
<1>8. ASSUME NEW v \in Worker PROVE Standing(v)'
  <2>1. CASE v = w
    BY <1>1, <1>2, <1>6, <2>1 DEF IInv, TypeOK, Standing
  <2>2. CASE v # w
    BY <1>2, <1>6, <2>2 DEF IInv, TypeOK, Standing
  <2>3. QED  BY <2>1, <2>2
<1>9. ReservedHasOneHolder'
  BY <1>1, <1>2, SomeLessInv DEF IInv, TypeOK
<1>10. QED  BY <1>7, <1>8, <1>9 DEF IInv

LEMMA NextInv == IInv /\ [Next]_vars => IInv'
<1> SUFFICES ASSUME IInv, [Next]_vars PROVE IInv'
  OBVIOUS
<1>1. ASSUME NEW g \in Group, NEW acc \in BOOLEAN, NEW cov \in SUBSET Airport,
             EditGroup(g, acc, cov)
      PROVE  IInv'
  <2>1. TypeOK' /\ \A w \in Worker : Standing(w)'
    BY <1>1, BoundAssumption DEF EditGroup, IInv, TypeOK, Standing, mapVars, workVars
  <2>2. held' = held /\ reserved' = reserved
    BY <1>1 DEF EditGroup, mapVars, workVars
  <2>3. QED  BY <2>1, <2>2, SameHoldersInv DEF IInv
<1>2. CASE UNCHANGED vars
  BY <1>2 DEF IInv, TypeOK, ReservedHasOneHolder, Standing, vars, groupVars, mapVars,
              workVars, boundVars
<1>3. QED
  BY <1>1, <1>2, AirportUpdatedInv, StartInv, LoadInv, VisitInv, BeginBatchInv,
     FinishBatchInv DEF Next, Step

-----------------------------------------------------------------------------
\* The strengthened invariant holds in every state.
THEOREM Invariance == Spec => []IInv
<1>1. QED  BY InitInv, NextInv, PTL DEF Spec

\* The maps and the goroutines' sets are what the other theorems take them to
\* be, and a batch consists of groups its goroutine has reserved.
THEOREM TypeCorrect == Spec => []TypeOK
<1>1. IInv => TypeOK
  BY DEF IInv
<1>2. QED  BY <1>1, Invariance, PTL

\* A reserved group has exactly one goroutine that will release it.
THEOREM OneHolder == Spec => []ReservedHasOneHolder
<1>1. IInv => ReservedHasOneHolder
  BY DEF IInv
<1>2. QED  BY <1>1, Invariance, PTL

-----------------------------------------------------------------------------
\* The refinement mapping, named for the proof.
Taken == [g \in Group |-> IF accepts[g] THEN covers[g] ELSE {}]

Holding == [g \in Group |-> {w \in Worker : g \in held[w]}]

LEMMA SameTaken ==
  ASSUME UNCHANGED groupVars
  PROVE  Taken' = Taken
BY DEF Taken, groupVars

\* Reservations: a check of a free group begins, for some updates.
LEMMA ReserveRefines ==
  ASSUME IInv, NEW w \in Worker, NEW g \in Group, g \notin reserved, Taken' = Taken,
         held' = [held EXCEPT ![w] = held[w] \cup {g}],
         NEW E \in SUBSET Airport, owed' = [owed EXCEPT ![g] = @ \ E]
  PROVE  Runs!Next
<1>1. Holding[g] = {}
  BY DEF IInv, ReservedHasOneHolder, Holding
<1>2. Holding' = [Holding EXCEPT ![g] = {w}]
  <2>1. \A h \in Group : Holding'[h] = IF h = g THEN {w} ELSE Holding[h]
    BY <1>1 DEF Holding, IInv, TypeOK
  <2>2. QED  BY <2>1 DEF Holding
<1>3. Runs!Begin(w, g, E)
  BY <1>1, <1>2 DEF Runs!Begin, Taken, Holding
<1>4. QED  BY <1>3 DEF Runs!Next

\* The updates that wait for a reserved group are owed to it.
LEMMA MergeRefines ==
  ASSUME IInv, NEW w \in Worker, NEW g \in Group, Merge(w, g)
  PROVE  Runs!Next
<1>1. PICK E \in SUBSET Airport : E = IF accepts[g] THEN goal[w][g] \cap covers[g] ELSE {}
  BY DEF IInv, TypeOK
<1>2. owed' = [owed EXCEPT ![g] = @ \cup E] /\ E \subseteq Taken[g]
  BY <1>1 DEF Merge, Taken, IInv, TypeOK
<1>3. Taken' = Taken
  BY SameTaken DEF Merge
<1>4. held' = held
  BY DEF Merge, Visited, GoOn, IInv, TypeOK
<1>5. Holding' = Holding
  BY <1>4 DEF Holding
<1>6. Runs!Accept(g, E)
  BY <1>2, <1>3, <1>5 DEF Runs!Accept, Taken, Holding
<1>7. QED  BY <1>1, <1>6 DEF Runs!Next

\* The end of a batch ends the checks of its groups.
LEMMA FinishRefines ==
  ASSUME IInv, NEW w \in Worker, FinishBatch(w)
  PROVE  Runs!Next
<1>1. PICK T \in SUBSET Group : T = running[w] /\ T \subseteq held[w]
  BY DEF IInv, TypeOK
<1>2. held' = [held EXCEPT ![w] = held[w] \ T] /\ owed' = owed /\ Taken' = Taken
  BY <1>1, SameTaken DEF FinishBatch
<1>3. \A g \in T : Holding[g] = {w}
  BY <1>1 DEF IInv, ReservedHasOneHolder, Holding
<1>4. Holding' = [g \in Group |-> IF g \in T THEN {} ELSE Holding[g]]
  <2>1. \A g \in Group : Holding'[g] = IF g \in T THEN {} ELSE Holding[g]
    <3>1. TAKE g \in Group
    <3>2. CASE g \in T
      <4>1. \A v \in Worker : g \in held[v] => v = w
        BY <1>1, <3>2 DEF IInv, ReservedHasOneHolder
      <4>2. \A v \in Worker : g \notin held'[v]
        BY <1>2, <3>2, <4>1 DEF IInv, TypeOK
      <4>3. QED  BY <3>2, <4>2 DEF Holding
    <3>3. CASE g \notin T
      BY <1>2, <3>3 DEF Holding, IInv, TypeOK
    <3>4. QED  BY <3>2, <3>3
  <2>2. QED  BY <2>1 DEF Holding
<1>5. Runs!End(w, T)
  BY <1>2, <1>3, <1>4 DEF Runs!End, Taken, Holding
<1>6. QED  BY <1>5 DEF Runs!Next

LEMMA EditRefines ==
  ASSUME IInv, NEW g \in Group, NEW acc \in BOOLEAN, NEW cov \in SUBSET Airport,
         EditGroup(g, acc, cov)
  PROVE  Runs!Next
<1>1. PICK E \in SUBSET Airport : E = IF acc THEN cov ELSE {}
  OBVIOUS
<1>2. Taken' = [Taken EXCEPT ![g] = E]
  <2>1. \A h \in Group : Taken'[h] = IF h = g THEN E ELSE Taken[h]
    BY <1>1 DEF EditGroup, Taken, IInv, TypeOK
  <2>2. QED  BY <2>1 DEF Taken
<1>3. owed' = [owed EXCEPT ![g] = @ \cap E] /\ Holding' = Holding
  BY <1>1 DEF EditGroup, Holding, workVars, IInv, TypeOK
<1>4. Runs!Reconfigure(g, E)
  BY <1>2, <1>3 DEF Runs!Reconfigure, Taken, Holding
<1>5. QED  BY <1>4 DEF Runs!Next

LEMMA StutterRefines ==
  ASSUME UNCHANGED <<groupVars, held, owed>>
  PROVE  UNCHANGED Runs!runVars
<1>1. Taken' = Taken /\ Holding' = Holding
  BY SameTaken DEF Holding
<1>2. QED  BY <1>1 DEF Runs!runVars, Taken, Holding

LEMMA NextRefines == IInv /\ [Next]_vars => [Runs!Next]_Runs!runVars
<1> SUFFICES ASSUME IInv, [Next]_vars
             PROVE  Runs!Next \/ UNCHANGED Runs!runVars
  OBVIOUS
<1>1. ASSUME NEW a \in Airport, AirportUpdated(a)
      PROVE  UNCHANGED Runs!runVars
  BY <1>1, StutterRefines DEF AirportUpdated
<1>2. ASSUME NEW g \in Group, StartSmartGroupCheck(g)
      PROVE  Runs!Next
  <2>1. PICK w \in Worker : w = Fresh(pc) /\ held[w] = {}
    BY <1>2, FreshIsFree DEF StartSmartGroupCheck, IInv, Standing
  <2>2. held' = [held EXCEPT ![w] = held[w] \cup {g}] /\ g \notin reserved
    BY <1>2, <2>1 DEF StartSmartGroupCheck
  <2>3. owed' = owed /\ Taken' = Taken
    BY <1>2, SameTaken DEF StartSmartGroupCheck
  <2>3a. owed' = [owed EXCEPT ![g] = @ \ {}] /\ {} \in SUBSET Airport
    BY <2>3 DEF IInv, TypeOK
  <2>4. QED  BY <2>2, <2>3, <2>3a, ReserveRefines
<1>3. ASSUME NEW w \in Worker, LoadGroups(w) \/ LoadFails(w)
      PROVE  UNCHANGED Runs!runVars
  <2>1. held' = held
    BY <1>3 DEF LoadGroups, LoadFails, GoOn, IInv, TypeOK, Standing
  <2>2. QED  BY <1>3, <2>1, StutterRefines DEF LoadGroups, LoadFails
<1>4. ASSUME NEW w \in Worker, NEW g \in Group, SkipGroup(w, g)
      PROVE  UNCHANGED Runs!runVars
  <2>1. held' = held
    BY <1>4 DEF SkipGroup, Visited, GoOn, IInv, TypeOK
  <2>2. QED  BY <1>4, <2>1, StutterRefines DEF SkipGroup
<1>5. ASSUME NEW w \in Worker, NEW g \in Group, Reserve(w, g)
      PROVE  Runs!Next
  <2>1. PICK E \in SUBSET Airport : E = goal[w][g]
    BY DEF IInv, TypeOK
  <2>2. /\ held' = [held EXCEPT ![w] = held[w] \cup {g}] /\ g \notin reserved
        /\ owed' = [owed EXCEPT ![g] = @ \ E] /\ Taken' = Taken
    BY <1>5, <2>1, SameTaken DEF Reserve, Visited, GoOn
  <2>3. QED  BY <2>2, ReserveRefines
<1>6. ASSUME NEW w \in Worker, BeginBatch(w)
      PROVE  UNCHANGED Runs!runVars
  BY <1>6, StutterRefines DEF BeginBatch
<1>7. ASSUME UNCHANGED vars
      PROVE  UNCHANGED Runs!runVars
  BY <1>7, StutterRefines DEF vars, workVars
<1>8. QED
  BY <1>1, <1>2, <1>3, <1>4, <1>5, <1>6, <1>7, MergeRefines, FinishRefines, EditRefines
  DEF Next, Step

LEMMA InitRefines == Init => Runs!Init
BY DEF Init, Runs!Init, Nothing

\* The smart group checks implement CoalescedRuns: the checks of one group never
\* overlap, though a goroutine reserves and releases many groups, and an update
\* that meets a check is owed to the group until a check that began later covers
\* it or the group is edited.
THEOREM Refinement == Spec => ImplementsRuns
<1>1. QED  BY InitRefines, NextRefines, Invariance, PTL DEF Spec, ImplementsRuns, Runs!Spec
=============================================================================
