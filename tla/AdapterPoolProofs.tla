------------------------- MODULE AdapterPoolProofs -------------------------
(***************************************************************************)
(* Proofs about AdapterPool, for any numbers of nodes, versions, adapters, *)
(* users and closing goroutines, and any size of the pool.                 *)
(***************************************************************************)
EXTENDS AdapterPool, FiniteSetTheorems, TLAPS

-----------------------------------------------------------------------------
\* The helpers keep the types.
LEMMA RetireType ==
  ASSUME TypeOK, active' \in [Entry -> Nat], NEW R, NEW E, Retire(R, E)
  PROVE  /\ retired' \in [Entry -> BOOLEAN]
         /\ shut' \in [Entry -> BOOLEAN]
         /\ pending' \in [Entry -> Nat]
<1>1. retired' \in [Entry -> BOOLEAN]
  BY DEF Retire, TypeOK
<1>2. shut' \in [Entry -> BOOLEAN]
  BY DEF Retire, TypeOK
<1>3. pending' \in [Entry -> Nat]
  BY DEF Retire, TypeOK
<1>4. QED  BY <1>1, <1>2, <1>3

LEMMA WithoutType ==
  ASSUME NEW map \in [Key -> Entry \cup {None}], NEW K
  PROVE  Without(map, K) \in [Key -> Entry \cup {None}]
BY DEF Without

LEMMA ReleaseType ==
  ASSUME TypeOK, NEW c \in Conn, NEW failed \in BOOLEAN, Release(c, failed),
         ~done[c] => lease[c] \in Entry
  PROVE  /\ poolClosed' \in BOOLEAN
         /\ clock' \in Nat
         /\ entries' \in [Key -> Entry \cup {None}]
         /\ made' \subseteq Entry
         /\ active' \in [Entry -> Nat]
         /\ lastUsed' \in [Entry -> Nat]
         /\ retired' \in [Entry -> BOOLEAN]
         /\ shut' \in [Entry -> BOOLEAN]
         /\ pending' \in [Entry -> Nat]
         /\ done' \in [Conn -> BOOLEAN]
<1>1. CASE done[c]
  BY <1>1 DEF Release, TypeOK, poolVars, entryVars
<1>2. CASE ~done[c]
  <2>1. active' \in [Entry -> Nat]
    BY <1>2 DEF Release, TypeOK
  <2>2. entries' \in [Key -> Entry \cup {None}]
    BY <1>2, WithoutType DEF Release, TypeOK
  <2>3. PICK R, E : Retire(R, E)
    BY <1>2 DEF Release
  <2>4. /\ retired' \in [Entry -> BOOLEAN]
        /\ shut' \in [Entry -> BOOLEAN]
        /\ pending' \in [Entry -> Nat]
    BY <2>1, <2>3, RetireType
  <2>5. /\ done' \in [Conn -> BOOLEAN]
        /\ UNCHANGED <<poolClosed, clock, made, lastUsed>>
    BY <1>2 DEF Release, TypeOK
  <2>6. QED  BY <2>1, <2>2, <2>4, <2>5 DEF TypeOK
<1>3. QED  BY <1>1, <1>2

-----------------------------------------------------------------------------
\* What the helpers do to the conjuncts of the inductive invariant.

\* Eviction chooses among idle adapters of the pool only.
LEMMA EvictedSubset ==
  ASSUME NEW map, NEW act, NEW used, NEW exclude
  PROVE  Evicted(map, act, used, exclude) \subseteq Present(map) \ exclude
BY DEF Evicted

\* Retire closes exactly what is retired and unused, provided that nobody has
\* started to use a retired adapter and that E names those just left.
LEMMA RetireCloseCount ==
  ASSUME TypeOK, CloseCount, active' \in [Entry -> Nat],
         NEW R, NEW E, Retire(R, E), UNCHANGED calls,
         \A e \in Entry : e \in E => retired[e],
         \A e \in Entry : retired[e] =>
           active'[e] = active[e] \/ (e \in E /\ active'[e] <= active[e])
  PROVE  CloseCount'
<1> SUFFICES ASSUME NEW e \in Entry
             PROVE  /\ shut'[e] <=> retired'[e] /\ active'[e] = 0
                    /\ pending'[e] + calls'[e] = IF shut'[e] THEN 1 ELSE 0
  BY DEF CloseCount
<1>1. /\ retired[e] \in BOOLEAN /\ shut[e] \in BOOLEAN
      /\ active[e] \in Nat /\ active'[e] \in Nat
      /\ pending[e] \in Nat /\ calls[e] \in Nat
  BY DEF TypeOK
<1>2. /\ shut[e] <=> retired[e] /\ active[e] = 0
      /\ pending[e] + calls[e] = IF shut[e] THEN 1 ELSE 0
  BY DEF CloseCount
<1>3. retired'[e] <=> retired[e] \/ e \in R
  BY DEF Retire
<1>4. shut'[e] <=> shut[e] \/ (e \in R \cup E /\ active'[e] = 0)
  BY DEF Retire
<1>5. pending'[e] = IF e \in R \cup E /\ active'[e] = 0 /\ ~shut[e]
                    THEN pending[e] + 1 ELSE pending[e]
  BY DEF Retire
<1>6. shut'[e] <=> retired'[e] /\ active'[e] = 0
  BY <1>1, <1>2, <1>3, <1>4
<1>7. pending'[e] + calls'[e] = IF shut'[e] THEN 1 ELSE 0
  BY <1>1, <1>2, <1>4, <1>5
<1>8. QED  BY <1>6, <1>7

\* Taking keys out of the pool and retiring their adapters.
LEMMA MapShrinks ==
  ASSUME TypeOK, MapIsUnretired, NEW K, entries' = Without(entries, K), made' = made,
         NEW R, retired' = [e \in Entry |-> retired[e] \/ e \in R],
         \A e \in Entry : e \in R => retired[e] \/ \E k \in K \cap Key : entries[k] = e,
         \A k \in K \cap Key : entries[k] # None => entries[k] \in R
  PROVE  MapIsUnretired'
<1>1. \A k \in Key : entries'[k] = IF k \in K THEN None ELSE entries[k]
  BY DEF Without
<1>2. \A k \in Key : entries[k] \in Entry \cup {None}
  BY DEF TypeOK
<1>3. \A j, k \in Key : entries'[j] = entries'[k] /\ entries'[j] # None => j = k
  BY <1>1 DEF MapIsUnretired
<1>4. ASSUME NEW k \in Key, entries'[k] # None
      PROVE  entries'[k] \in made' /\ ~retired'[entries'[k]]
  <2>1. k \notin K /\ entries'[k] = entries[k] /\ entries[k] \in Entry
    BY <1>1, <1>2, <1>4
  <2>2. entries[k] \in made /\ ~retired[entries[k]]
    BY <2>1, <1>4 DEF MapIsUnretired
  <2>3. entries[k] \notin R
    <3>1. SUFFICES ASSUME NEW j \in K \cap Key, entries[j] = entries[k] PROVE FALSE
      BY <2>1, <2>2
    <3>2. j = k
      BY <3>1, <2>1, NoneAssumption DEF MapIsUnretired
    <3>3. QED  BY <3>2, <2>1
  <2>4. QED  BY <2>1, <2>2, <2>3
<1>5. ASSUME NEW e \in made'
      PROVE  retired'[e] \/ \E k \in Key : entries'[k] = e
  <2>1. e \in made /\ e \in Entry
    BY DEF TypeOK
  <2>2. CASE retired[e]
    BY <2>1, <2>2
  <2>3. CASE ~retired[e]
    <3>1. PICK k \in Key : entries[k] = e
      BY <2>1, <2>3 DEF MapIsUnretired
    <3>2. entries[k] # None
      BY <2>1, <3>1, NoneAssumption
    <3>3. CASE k \in K
      BY <2>1, <3>1, <3>2, <3>3
    <3>4. CASE k \notin K
      BY <1>1, <3>1, <3>4
    <3>5. QED  BY <3>3, <3>4
  <2>4. QED  BY <2>2, <2>3
<1>6. \A e \in Entry \ made' : ~retired'[e]
  <2>1. SUFFICES ASSUME NEW e \in Entry \ made, e \in R PROVE FALSE
    BY DEF MapIsUnretired
  <2>2. ~retired[e]
    BY DEF MapIsUnretired
  <2>3. PICK k \in K \cap Key : entries[k] = e
    BY <2>1, <2>2
  <2>4. entries[k] # None
    BY <2>3, NoneAssumption
  <2>5. QED  BY <2>3, <2>4 DEF MapIsUnretired
<1>7. QED  BY <1>3, <1>4, <1>5, <1>6 DEF MapIsUnretired

-----------------------------------------------------------------------------
\* The reference counts follow the users.
LEMMA HoldersFinite ==
  \A e : IsFiniteSet(Holders(e)) /\ Cardinality(Holders(e)) \in Nat
BY ConnAssumption, FS_Subset, FS_CardinalityType DEF Holders

\* One user less.
LEMMA HolderLeaves ==
  ASSUME TypeOK, LeaseCount, NEW c \in Conn, NEW e \in Entry, c \in Holders(e),
         active' = [active EXCEPT ![e] = @ - 1],
         \A x \in Entry : Holders(x)' = IF x = e THEN Holders(x) \ {c} ELSE Holders(x)
  PROVE  LeaseCount'
<1>1. Cardinality(Holders(e) \ {c}) = Cardinality(Holders(e)) - 1
  BY HoldersFinite, FS_RemoveElement
<1>2. \A x \in Entry : active'[x] = IF x = e THEN active[x] - 1 ELSE active[x]
  BY DEF TypeOK
<1>3. SUFFICES ASSUME NEW x \in Entry PROVE active'[x] = Cardinality(Holders(x)')
  BY DEF LeaseCount
<1>4. active[x] = Cardinality(Holders(x))
  BY DEF LeaseCount
<1>5. CASE x = e
  BY <1>1, <1>2, <1>4, <1>5
<1>6. CASE x # e
  BY <1>2, <1>4, <1>6
<1>7. QED  BY <1>5, <1>6

\* One user more.
LEMMA HolderJoins ==
  ASSUME TypeOK, LeaseCount, NEW c \in Conn, NEW e \in Entry, c \notin Holders(e),
         active' = [active EXCEPT ![e] = @ + 1],
         \A x \in Entry : Holders(x)' = IF x = e THEN Holders(x) \cup {c} ELSE Holders(x)
  PROVE  LeaseCount'
<1>1. Cardinality(Holders(e) \cup {c}) = Cardinality(Holders(e)) + 1
  BY HoldersFinite, FS_AddElement
<1>2. \A x \in Entry : active'[x] = IF x = e THEN active[x] + 1 ELSE active[x]
  BY DEF TypeOK
<1>3. SUFFICES ASSUME NEW x \in Entry PROVE active'[x] = Cardinality(Holders(x)')
  BY DEF LeaseCount
<1>4. active[x] = Cardinality(Holders(x))
  BY DEF LeaseCount
<1>5. CASE x = e
  BY <1>1, <1>2, <1>4, <1>5
<1>6. CASE x # e
  BY <1>2, <1>4, <1>6
<1>7. QED  BY <1>5, <1>6

-----------------------------------------------------------------------------
\* The release of a lease, by whichever of its callers comes first.
LEMMA ReleaseStep ==
  ASSUME IInv, NEW c \in Conn, NEW failed \in BOOLEAN, pc[c] # "idle", ~done[c],
         Release(c, failed), UNCHANGED calls
  PROVE  /\ c \in Holders(lease[c])
         /\ active' = [active EXCEPT ![lease[c]] = @ - 1]
         /\ done' = [done EXCEPT ![c] = TRUE]
         /\ made' = made
         /\ \A k \in Key : entries'[k] \in {entries[k], None}
         /\ CloseCount'
         /\ MapIsUnretired'
<1> DEFINE e == lease[c]
<1> DEFINE own == {k \in Key : failed /\ k = key[c] /\ entries[k] = e}
<1> DEFINE kept == Without(entries, own)
<1> DEFINE evicted == Evicted(kept, active', lastUsed, {})
<1> DEFINE R == {kept[j] : j \in evicted} \cup (IF failed THEN {e} ELSE {})
<1>1. TypeOK /\ LeaseCount /\ CloseCount /\ MapIsUnretired /\ LeaseKeys
  BY DEF IInv
<1>2. e \in made /\ e \in Entry
  BY <1>1 DEF LeaseKeys, TypeOK
<1>3. c \in Holders(e)
  BY DEF Holders
<1>4. active[e] > 0 /\ active[e] \in Nat
  <2>1. active[e] = Cardinality(Holders(e)) /\ active[e] \in Nat
    BY <1>1, <1>2 DEF LeaseCount, TypeOK
  <2>2. Cardinality(Holders(e)) # 0
    BY <1>3, HoldersFinite, FS_EmptySet
  <2>3. QED  BY <2>1, <2>2
<1>5. /\ done' = [done EXCEPT ![c] = TRUE]
      /\ active' = [active EXCEPT ![e] = IF @ > 0 THEN @ - 1 ELSE @]
      /\ entries' = Without(kept, evicted)
      /\ Retire(R, {x \in {e} : retired[x]})
      /\ UNCHANGED <<poolClosed, clock, made, lastUsed>>
  BY DEF Release
<1>6. active' = [active EXCEPT ![e] = @ - 1]
  BY <1>4, <1>5
<1>7. /\ active' \in [Entry -> Nat]
      /\ \A x \in Entry : active'[x] = IF x = e THEN active[x] - 1 ELSE active[x]
  BY <1>1, <1>2, <1>4, <1>6 DEF TypeOK
<1>8. CloseCount'
  <2>1. \A x \in Entry : x \in {y \in {e} : retired[y]} => retired[x]
    OBVIOUS
  <2>2. \A x \in Entry : retired[x] =>
          active'[x] = active[x] \/ (x \in {y \in {e} : retired[y]} /\ active'[x] <= active[x])
    BY <1>1, <1>7 DEF TypeOK
  <2>3. QED  BY <1>1, <1>5, <1>7, <2>1, <2>2, RetireCloseCount
<1>9. kept \in [Key -> Entry \cup {None}] /\ \A k \in Key : kept[k] = IF k \in own THEN None ELSE entries[k]
  BY <1>1, WithoutType DEF TypeOK, Without
<1>10. entries' = Without(entries, own \cup evicted)
  BY <1>5, <1>9 DEF Without
<1>11. evicted \subseteq {k \in Key : kept[k] # None}
  BY EvictedSubset DEF Present
<1>12. MapIsUnretired'
  <2>1. retired' = [x \in Entry |-> retired[x] \/ x \in R] /\ made' = made
    BY <1>5 DEF Retire
  <2>2. ASSUME NEW x \in Entry, x \in R
        PROVE  retired[x] \/ \E k \in (own \cup evicted) \cap Key : entries[k] = x
    <3>1. CASE \E j \in evicted : kept[j] = x
      <4>1. PICK j \in evicted : kept[j] = x
        BY <3>1
      <4>2. j \in Key /\ kept[j] # None
        BY <1>11
      <4>3. entries[j] = x
        BY <1>9, <4>1, <4>2
      <4>4. QED  BY <4>2, <4>3
    <3>2. CASE failed /\ x = e
      <4>1. CASE retired[e]
        BY <3>2, <4>1
      <4>2. CASE ~retired[e]
        <5>1. PICK k \in Key : entries[k] = e
          BY <1>1, <1>2, <4>2 DEF MapIsUnretired
        <5>2. k = key[c]
          BY <1>1, <5>1 DEF LeaseKeys
        <5>3. k \in own
          BY <3>2, <5>1, <5>2
        <5>4. QED  BY <3>2, <5>1, <5>3
      <4>3. QED  BY <4>1, <4>2
    <3>3. QED  BY <2>2, <3>1, <3>2
  <2>3. ASSUME NEW k \in (own \cup evicted) \cap Key, entries[k] # None
        PROVE  entries[k] \in R
    <3>1. CASE k \in own
      BY <3>1
    <3>2. CASE k \in evicted /\ k \notin own
      BY <1>9, <3>2
    <3>3. QED  BY <3>1, <3>2
  <2> HIDE DEF e, own, kept, evicted, R
  <2>4. QED  BY <1>1, <1>10, <2>1, <2>2, <2>3, MapShrinks
<1>13. \A k \in Key : entries'[k] \in {entries[k], None}
  BY <1>10 DEF Without
<1>14. QED  BY <1>3, <1>5, <1>6, <1>8, <1>12, <1>13

-----------------------------------------------------------------------------
\* acquire finds the key: a pooled adapter is not retired, so that it cannot
\* have been closed.
LEMMA AcquireHitStep ==
  ASSUME IInv, NEW c \in Conn, NEW k \in Key, AcquireHit(c, k)
  PROVE  IInv'
<1> DEFINE e == entries[k]
<1>1. TypeOK /\ LeaseCount /\ CloseCount /\ MapIsUnretired /\ LeaseKeys
  BY DEF IInv
<1>2. e \in made /\ e \in Entry /\ ~retired[e]
  BY <1>1 DEF AcquireHit, MapIsUnretired, TypeOK
<1>3. /\ active' = [active EXCEPT ![e] = @ + 1]
      /\ pc' = [pc EXCEPT ![c] = "dialing"]
      /\ key' = [key EXCEPT ![c] = k]
      /\ lease' = [lease EXCEPT ![c] = e]
      /\ done' = [done EXCEPT ![c] = FALSE]
      /\ UNCHANGED <<poolClosed, entries, made, retired, shut, pending, calls, closers>>
  BY DEF AcquireHit, TakeLease
<1>4. TypeOK'
  <2>1. clock' \in Nat /\ lastUsed' \in [Entry -> Nat]
    BY <1>1, <1>2 DEF AcquireHit, TypeOK
  <2>2. active' \in [Entry -> Nat]
    BY <1>1, <1>2, <1>3 DEF TypeOK
  <2>3. /\ pc' \in [Conn -> {"idle", "dialing", "open", "closing"}]
        /\ key' \in [Conn -> Key \cup {None}]
        /\ lease' \in [Conn -> Entry \cup {None}]
        /\ done' \in [Conn -> BOOLEAN]
    BY <1>1, <1>2, <1>3 DEF TypeOK
  <2>4. QED  BY <1>1, <1>3, <2>1, <2>2, <2>3 DEF TypeOK
<1>5. \A x \in Entry : active'[x] = IF x = e THEN active[x] + 1 ELSE active[x]
  BY <1>1, <1>2, <1>3 DEF TypeOK
<1>6. LeaseCount'
  <2>1. \A x : c \notin Holders(x)
    BY DEF AcquireHit, Free, Holders
  <2>2. \A x \in Entry : Holders(x)' = IF x = e THEN Holders(x) \cup {c} ELSE Holders(x)
    BY <1>1, <1>3, <2>1 DEF Holders, TypeOK
  <2> HIDE DEF e
  <2>3. QED  BY <1>1, <1>2, <1>3, <2>1, <2>2, HolderJoins
<1>7. CloseCount'
  BY <1>1, <1>2, <1>3, <1>5 DEF CloseCount, TypeOK
<1>8. MapIsUnretired'
  BY <1>1, <1>3 DEF MapIsUnretired
<1>9. LeaseKeys'
  <2>1. \A j \in Key : entries[j] = e => j = k
    BY <1>1 DEF AcquireHit, MapIsUnretired
  <2>2. QED  BY <1>1, <1>2, <1>3, <2>1 DEF LeaseKeys, TypeOK
<1>10. QED  BY <1>4, <1>6, <1>7, <1>8, <1>9 DEF IInv

\* acquire builds an adapter: the one it builds is new, the ones it supersedes
\* or evicts leave the pool as they are retired.
LEMMA AcquireMissStep ==
  ASSUME IInv, NEW c \in Conn, NEW k \in Key, NEW e \in Entry, AcquireMiss(c, k, e)
  PROVE  IInv'
<1> DEFINE kept == [Without(entries, Superseded(k)) EXCEPT ![k] = e]
<1> DEFINE evicted == Evicted(kept, active', lastUsed', {k})
<1> DEFINE R == {entries[j] : j \in Superseded(k)} \cup {kept[j] : j \in evicted}
<1> DEFINE gone == Superseded(k) \cup evicted
<1>1. TypeOK /\ LeaseCount /\ CloseCount /\ MapIsUnretired /\ LeaseKeys
  BY DEF IInv
<1>2. /\ entries[k] = None /\ e \notin made
      /\ made' = made \cup {e}
      /\ active' = [active EXCEPT ![e] = 1]
      /\ entries' = Without(kept, evicted)
      /\ Retire(R, {})
      /\ UNCHANGED <<poolClosed, calls>>
  BY DEF AcquireMiss
<1>3. /\ pc' = [pc EXCEPT ![c] = "dialing"]
      /\ key' = [key EXCEPT ![c] = k]
      /\ lease' = [lease EXCEPT ![c] = e]
      /\ done' = [done EXCEPT ![c] = FALSE]
      /\ UNCHANGED closers
  BY DEF AcquireMiss, TakeLease
<1>4. ~retired[e] /\ active[e] = 0 /\ Holders(e) = {}
  <2>1. ~retired[e] /\ Holders(e) = {}
    BY <1>1, <1>2 DEF MapIsUnretired, LeaseKeys, Holders
  <2>2. QED  BY <1>1, <2>1, FS_EmptySet DEF LeaseCount
<1>5. /\ active' \in [Entry -> Nat]
      /\ active' = [active EXCEPT ![e] = @ + 1]
  BY <1>1, <1>2, <1>4 DEF TypeOK
<1>6. /\ \A j \in Key : kept[j] = IF j = k THEN e
                                  ELSE IF j \in Superseded(k) THEN None ELSE entries[j]
      /\ kept \in [Key -> Entry \cup {None}]
  BY <1>1, WithoutType DEF TypeOK, Without
<1>7. evicted \subseteq {j \in Key : kept[j] # None /\ j # k}
  BY EvictedSubset DEF Present
<1>8. Superseded(k) \subseteq {j \in Key : entries[j] # None /\ j # k}
  BY DEF Superseded, Present
<1>9. \A j \in Key : entries'[j] = IF j = k THEN e ELSE IF j \in gone THEN None ELSE entries[j]
  BY <1>2, <1>6, <1>7 DEF Without
<1>10. R = {entries[j] : j \in gone}
  BY <1>6, <1>7, <1>8
<1>11. gone \subseteq {j \in Key : entries[j] # None /\ j # k}
  BY <1>6, <1>7, <1>8
<1> HIDE DEF kept, evicted, R, gone
<1>12. TypeOK'
  <2>1. clock' \in Nat /\ lastUsed' \in [Entry -> Nat]
    BY <1>1 DEF AcquireMiss, TypeOK
  <2>2. entries' \in [Key -> Entry \cup {None}]
    BY <1>2, <1>6, WithoutType
  <2>3. /\ retired' \in [Entry -> BOOLEAN]
        /\ shut' \in [Entry -> BOOLEAN]
        /\ pending' \in [Entry -> Nat]
    BY <1>1, <1>2, <1>5, RetireType
  <2>4. QED  BY <1>1, <1>2, <1>3, <1>5, <2>1, <2>2, <2>3 DEF TypeOK
<1>13. LeaseCount'
  <2>1. \A x : c \notin Holders(x)
    BY DEF AcquireMiss, Free, Holders
  <2>2. \A x \in Entry : Holders(x)' = IF x = e THEN Holders(x) \cup {c} ELSE Holders(x)
    BY <1>1, <1>3, <2>1 DEF Holders, TypeOK
  <2>3. QED  BY <1>1, <1>5, <2>1, <2>2, HolderJoins
<1>14. CloseCount'
  <2>1. \A x \in Entry : retired[x] => active'[x] = active[x]
    BY <1>1, <1>2, <1>4 DEF TypeOK
  <2>2. QED  BY <1>1, <1>2, <1>5, <2>1, RetireCloseCount
<1>15. MapIsUnretired'
  <2>1. \A x \in Entry : retired'[x] <=> retired[x] \/ x \in R
    BY <1>2 DEF Retire
  <2>2. \A x \in R : x \in made /\ x # e
    BY <1>1, <1>2, <1>10, <1>11 DEF MapIsUnretired
  <2>3. \A j \in Key \ {k} : entries[j] \in made \cup {None} /\ entries[j] # e
    BY <1>1, <1>2, NoneAssumption DEF MapIsUnretired
  <2>4. ASSUME NEW i \in Key, NEW j \in Key, entries'[i] = entries'[j], entries'[i] # None
        PROVE  i = j
    BY <1>1, <1>9, <2>3, <2>4 DEF MapIsUnretired
  <2>5. ASSUME NEW j \in Key, entries'[j] # None
        PROVE  entries'[j] \in made' /\ ~retired'[entries'[j]]
    <3>1. CASE j = k
      BY <1>2, <1>4, <1>9, <2>1, <2>2, <3>1
    <3>2. CASE j # k
      <4>1. entries'[j] = entries[j] /\ j \notin gone /\ entries[j] # None
        BY <1>9, <2>5, <3>2
      <4>2. entries[j] \in made /\ entries[j] \in Entry /\ ~retired[entries[j]]
        BY <1>1, <4>1 DEF MapIsUnretired, TypeOK
      <4>3. entries[j] \notin R
        BY <1>1, <1>10, <1>11, <4>1 DEF MapIsUnretired
      <4>4. QED  BY <1>2, <2>1, <4>1, <4>2, <4>3
    <3>3. QED  BY <3>1, <3>2
  <2>6. ASSUME NEW x \in made'
        PROVE  retired'[x] \/ \E j \in Key : entries'[j] = x
    <3>1. CASE x = e
      BY <1>9, <3>1
    <3>2. CASE x \in made /\ retired[x]
      BY <1>1, <2>1, <3>2 DEF TypeOK
    <3>3. CASE x \in made /\ ~retired[x]
      <4>1. PICK j \in Key : entries[j] = x
        BY <1>1, <3>3 DEF MapIsUnretired
      <4>2. x \in Entry /\ j # k
        BY <1>1, <1>2, <3>3, <4>1, NoneAssumption DEF TypeOK
      <4>3. CASE j \in gone
        BY <1>10, <2>1, <4>1, <4>2, <4>3
      <4>4. CASE j \notin gone
        BY <1>9, <4>1, <4>2, <4>4
      <4>5. QED  BY <4>3, <4>4
    <3>4. QED  BY <1>2, <3>1, <3>2, <3>3
  <2>7. \A x \in Entry \ made' : ~retired'[x]
    BY <1>1, <1>2, <2>1, <2>2 DEF MapIsUnretired
  <2>8. QED  BY <2>4, <2>5, <2>6, <2>7 DEF MapIsUnretired
<1>16. LeaseKeys'
  <2>1. SUFFICES ASSUME NEW d \in Conn
                 PROVE  /\ pc'[d] # "idle" => lease'[d] \in made' /\ key'[d] \in Key
                        /\ pc'[d] # "idle" => \A j \in Key : entries'[j] = lease'[d] => j = key'[d]
                        /\ pc'[d] \in {"dialing", "open"} => ~done'[d]
    BY DEF LeaseKeys
  <2>2. CASE d = c
    <3>1. \A j \in Key : entries'[j] = e => j = k
      BY <1>1, <1>2, <1>9, NoneAssumption DEF MapIsUnretired
    <3>2. QED  BY <1>1, <1>2, <1>3, <2>2, <3>1 DEF TypeOK
  <2>3. CASE d # c
    <3>1. /\ pc'[d] = pc[d] /\ key'[d] = key[d] /\ lease'[d] = lease[d] /\ done'[d] = done[d]
      BY <1>1, <1>3, <2>3 DEF TypeOK
    <3>2. pc[d] # "idle" => lease[d] \in made /\ lease[d] # e /\ lease[d] # None
      BY <1>1, <1>2, NoneAssumption DEF LeaseKeys, TypeOK
    <3>3. pc[d] # "idle" => \A j \in Key : entries'[j] = lease[d] => entries[j] = lease[d]
      BY <1>9, <3>2
    <3>4. QED  BY <1>1, <1>2, <3>1, <3>2, <3>3 DEF LeaseKeys
  <2>4. QED  BY <2>2, <2>3
<1>17. QED  BY <1>12, <1>13, <1>14, <1>15, <1>16 DEF IInv

\* The factory fails after the node's older versions were retired.
LEMMA AcquireFailStep ==
  ASSUME IInv, NEW c \in Conn, NEW k \in Key, AcquireFail(c, k)
  PROVE  IInv'
<1> DEFINE R == {entries[j] : j \in Superseded(k)}
<1>1. TypeOK /\ LeaseCount /\ CloseCount /\ MapIsUnretired /\ LeaseKeys
  BY DEF IInv
<1>2. /\ entries' = Without(entries, Superseded(k))
      /\ Retire(R, {})
      /\ UNCHANGED <<poolClosed, made, lastUsed, active, calls, pc, key, lease, done, closers>>
  BY DEF AcquireFail, connVars
<1>3. Superseded(k) \subseteq {j \in Key : entries[j] # None}
  BY DEF Superseded, Present
<1>4. active' \in [Entry -> Nat]
  BY <1>1, <1>2 DEF TypeOK
<1> HIDE DEF R
<1>5. TypeOK'
  <2>1. clock' \in Nat
    BY <1>1 DEF AcquireFail, TypeOK
  <2>2. entries' \in [Key -> Entry \cup {None}]
    BY <1>1, <1>2, WithoutType DEF TypeOK
  <2>3. /\ retired' \in [Entry -> BOOLEAN]
        /\ shut' \in [Entry -> BOOLEAN]
        /\ pending' \in [Entry -> Nat]
    BY <1>1, <1>2, <1>4, RetireType
  <2>4. QED  BY <1>1, <1>2, <1>4, <2>1, <2>2, <2>3 DEF TypeOK
<1>6. LeaseCount'
  BY <1>1, <1>2 DEF LeaseCount, Holders
<1>7. CloseCount'
  BY <1>1, <1>2, <1>4, RetireCloseCount
<1>8. MapIsUnretired'
  <2>1. retired' = [x \in Entry |-> retired[x] \/ x \in R]
    BY <1>2 DEF Retire
  <2>2. \A x \in Entry : x \in R => \E j \in Superseded(k) \cap Key : entries[j] = x
    BY <1>3 DEF R
  <2>3. \A j \in Superseded(k) \cap Key : entries[j] # None => entries[j] \in R
    BY DEF R
  <2>4. QED  BY <1>1, <1>2, <2>1, <2>2, <2>3, MapShrinks
<1>9. LeaseKeys'
  <2>1. \A j \in Key : entries'[j] \in {entries[j], None}
    BY <1>2 DEF Without
  <2>2. \A d \in Conn : pc[d] # "idle" => lease[d] # None
    BY <1>1, NoneAssumption DEF LeaseKeys, TypeOK
  <2>3. QED  BY <1>1, <1>2, <2>1, <2>2 DEF LeaseKeys
<1>10. QED  BY <1>5, <1>6, <1>7, <1>8, <1>9 DEF IInv

\* A failed dial, and a probe that ends either way.
LEMMA LeaseEndsStep ==
  ASSUME IInv, NEW c \in Conn, DialFail(c) \/ ProbeOk(c)
  PROVE  IInv'
<1>1. TypeOK /\ LeaseCount /\ CloseCount /\ MapIsUnretired /\ LeaseKeys
  BY DEF IInv
<1>2. PICK failed \in BOOLEAN : Release(c, failed)
  BY DEF DialFail, ProbeOk
<1>3. /\ pc[c] = "dialing"
      /\ pc' = [pc EXCEPT ![c] = "idle"]
      /\ key' = [key EXCEPT ![c] = None]
      /\ lease' = [lease EXCEPT ![c] = None]
      /\ UNCHANGED <<calls, closers>>
  BY DEF DialFail, ProbeOk, DropLease
<1>4. ~done[c] /\ lease[c] \in made /\ lease[c] \in Entry
  BY <1>1, <1>3 DEF LeaseKeys, TypeOK
<1>5. /\ c \in Holders(lease[c])
      /\ active' = [active EXCEPT ![lease[c]] = @ - 1]
      /\ done' = [done EXCEPT ![c] = TRUE]
      /\ made' = made
      /\ \A k \in Key : entries'[k] \in {entries[k], None}
      /\ CloseCount'
      /\ MapIsUnretired'
  BY <1>2, <1>3, <1>4, ReleaseStep
<1>6. TypeOK'
  <2>1. /\ poolClosed' \in BOOLEAN
        /\ clock' \in Nat
        /\ entries' \in [Key -> Entry \cup {None}]
        /\ made' \subseteq Entry
        /\ active' \in [Entry -> Nat]
        /\ lastUsed' \in [Entry -> Nat]
        /\ retired' \in [Entry -> BOOLEAN]
        /\ shut' \in [Entry -> BOOLEAN]
        /\ pending' \in [Entry -> Nat]
        /\ done' \in [Conn -> BOOLEAN]
    BY <1>1, <1>2, <1>4, ReleaseType
  <2>2. QED  BY <1>1, <1>3, <2>1 DEF TypeOK
<1>7. LeaseCount'
  <2>1. \A x \in Entry : Holders(x)' = IF x = lease[c] THEN Holders(x) \ {c} ELSE Holders(x)
    BY <1>1, <1>3, <1>4, <1>5 DEF Holders, TypeOK
  <2>2. QED  BY <1>1, <1>4, <1>5, <2>1, HolderLeaves
<1>8. LeaseKeys'
  <2>1. \A d \in Conn : pc[d] # "idle" => lease[d] # None
    BY <1>1, NoneAssumption DEF LeaseKeys, TypeOK
  <2>2. QED  BY <1>1, <1>3, <1>5, <2>1 DEF LeaseKeys, TypeOK
<1>9. QED  BY <1>5, <1>6, <1>7, <1>8 DEF IInv

\* pooledConn.Close releases the lease, or finds it released already.
LEMMA ReleaseConnStep ==
  ASSUME IInv, NEW c \in Conn, ReleaseConn(c)
  PROVE  IInv'
<1>1. TypeOK /\ LeaseCount /\ CloseCount /\ MapIsUnretired /\ LeaseKeys
  BY DEF IInv
<1>2. /\ pc[c] = "closing" /\ closers[c] > 0
      /\ Release(c, FALSE)
      /\ closers' = [closers EXCEPT ![c] = @ - 1]
      /\ UNCHANGED <<calls, pc, key, lease>>
  BY DEF ReleaseConn
<1>3. lease[c] \in made /\ lease[c] \in Entry
  BY <1>1, <1>2 DEF LeaseKeys, TypeOK
<1>4. TypeOK'
  <2>1. /\ poolClosed' \in BOOLEAN
        /\ clock' \in Nat
        /\ entries' \in [Key -> Entry \cup {None}]
        /\ made' \subseteq Entry
        /\ active' \in [Entry -> Nat]
        /\ lastUsed' \in [Entry -> Nat]
        /\ retired' \in [Entry -> BOOLEAN]
        /\ shut' \in [Entry -> BOOLEAN]
        /\ pending' \in [Entry -> Nat]
        /\ done' \in [Conn -> BOOLEAN]
    BY <1>1, <1>2, <1>3, ReleaseType
  <2>2. closers' \in [Conn -> Nat]
    BY <1>1, <1>2 DEF TypeOK
  <2>3. QED  BY <1>1, <1>2, <2>1, <2>2 DEF TypeOK
<1>5. CASE done[c]
  <2>1. UNCHANGED <<entries, made, active, retired, shut, pending, calls, pc, key, lease, done>>
    BY <1>2, <1>5 DEF Release, poolVars, entryVars
  <2>2. LeaseCount' /\ CloseCount'
    BY <1>1, <2>1 DEF LeaseCount, CloseCount, Holders
  <2>3. MapIsUnretired' /\ LeaseKeys'
    BY <1>1, <2>1 DEF MapIsUnretired, LeaseKeys
  <2>4. QED  BY <1>4, <2>2, <2>3 DEF IInv
<1>6. CASE ~done[c]
  <2>1. /\ c \in Holders(lease[c])
        /\ active' = [active EXCEPT ![lease[c]] = @ - 1]
        /\ done' = [done EXCEPT ![c] = TRUE]
        /\ made' = made
        /\ \A k \in Key : entries'[k] \in {entries[k], None}
        /\ CloseCount'
        /\ MapIsUnretired'
    BY <1>2, <1>6, ReleaseStep
  <2>2. LeaseCount'
    <3>1. \A x \in Entry : Holders(x)' = IF x = lease[c] THEN Holders(x) \ {c} ELSE Holders(x)
      BY <1>1, <1>2, <1>6, <2>1 DEF Holders, TypeOK
    <3>2. QED  BY <1>1, <1>3, <2>1, <3>1, HolderLeaves
  <2>3. LeaseKeys'
    <3>1. \A d \in Conn : pc[d] # "idle" => lease[d] # None
      BY <1>1, NoneAssumption DEF LeaseKeys, TypeOK
    <3>2. QED  BY <1>1, <1>2, <2>1, <3>1 DEF LeaseKeys, TypeOK
  <2>4. QED  BY <1>4, <2>1, <2>2, <2>3 DEF IInv
<1>7. QED  BY <1>5, <1>6

\* The shutdown of the pool retires everything in it.
LEMMA ClosePoolStep ==
  ASSUME IInv, ClosePool
  PROVE  IInv'
<1> DEFINE R == {entries[k] : k \in Present(entries)}
<1>1. TypeOK /\ LeaseCount /\ CloseCount /\ MapIsUnretired /\ LeaseKeys
  BY DEF IInv
<1>2. /\ poolClosed' = TRUE
      /\ entries' = [k \in Key |-> None]
      /\ Retire(R, {})
      /\ UNCHANGED <<active, clock, made, lastUsed, calls, pc, key, lease, done, closers>>
  BY DEF ClosePool, connVars
<1>3. active' \in [Entry -> Nat]
  BY <1>1, <1>2 DEF TypeOK
<1> HIDE DEF R
<1>4. TypeOK'
  <2>1. /\ retired' \in [Entry -> BOOLEAN]
        /\ shut' \in [Entry -> BOOLEAN]
        /\ pending' \in [Entry -> Nat]
    BY <1>1, <1>2, <1>3, RetireType
  <2>2. QED  BY <1>1, <1>2, <2>1 DEF TypeOK
<1>5. LeaseCount'
  BY <1>1, <1>2 DEF LeaseCount, Holders
<1>6. CloseCount'
  BY <1>1, <1>2, <1>3, RetireCloseCount
<1>7. MapIsUnretired'
  <2>1. retired' = [x \in Entry |-> retired[x] \/ x \in R]
    BY <1>2 DEF Retire
  <2>2. entries' = Without(entries, Key)
    BY <1>2 DEF Without
  <2>3. \A x \in Entry : x \in R => \E j \in Key \cap Key : entries[j] = x
    BY DEF R, Present
  <2>4. \A j \in Key \cap Key : entries[j] # None => entries[j] \in R
    BY DEF R, Present
  <2>5. QED  BY <1>1, <1>2, <2>1, <2>2, <2>3, <2>4, MapShrinks
<1>8. LeaseKeys'
  <2>1. \A d \in Conn : pc[d] # "idle" => lease[d] # None
    BY <1>1, NoneAssumption DEF LeaseKeys, TypeOK
  <2>2. QED  BY <1>1, <1>2, <2>1 DEF LeaseKeys
<1>9. QED  BY <1>4, <1>5, <1>6, <1>7, <1>8 DEF IInv

\* closeAdapters moves a close from owed to made.
LEMMA CloseAdapterStep ==
  ASSUME IInv, NEW e \in Entry, CloseAdapter(e)
  PROVE  IInv'
<1>1. TypeOK /\ LeaseCount /\ CloseCount /\ MapIsUnretired /\ LeaseKeys
  BY DEF IInv
<1>2. /\ pending[e] > 0
      /\ pending' = [pending EXCEPT ![e] = @ - 1]
      /\ calls' = [calls EXCEPT ![e] = @ + 1]
      /\ UNCHANGED <<poolClosed, clock, entries, made, active, lastUsed, retired, shut,
                     pc, key, lease, done, closers>>
  BY DEF CloseAdapter, poolVars, connVars
<1>3. TypeOK'
  <2>1. pending' \in [Entry -> Nat] /\ calls' \in [Entry -> Nat]
    BY <1>1, <1>2 DEF TypeOK
  <2>2. QED  BY <1>1, <1>2, <2>1 DEF TypeOK
<1>4. CloseCount'
  <2>1. \A x \in Entry : pending'[x] + calls'[x] = pending[x] + calls[x]
    BY <1>1, <1>2 DEF TypeOK
  <2>2. QED  BY <1>1, <1>2, <2>1 DEF CloseCount
<1>5. LeaseCount' /\ MapIsUnretired' /\ LeaseKeys'
  BY <1>1, <1>2 DEF LeaseCount, Holders, MapIsUnretired, LeaseKeys
<1>6. QED  BY <1>3, <1>4, <1>5 DEF IInv

\* The steps of a connection that leave the pool alone.
LEMMA ConnStep ==
  ASSUME IInv, NEW c \in Conn, DialOk(c) \/ CloseConn(c)
  PROVE  IInv'
<1>1. TypeOK /\ LeaseCount /\ CloseCount /\ MapIsUnretired /\ LeaseKeys
  BY DEF IInv
<1>2. /\ pc[c] # "idle"
      /\ \/ pc[c] = "dialing" /\ pc' = [pc EXCEPT ![c] = "open"]
         \/ pc' = [pc EXCEPT ![c] = "closing"]
      /\ UNCHANGED <<poolClosed, clock, entries, made, active, lastUsed, retired, shut, pending,
                     calls, key, lease, done>>
      /\ closers' = closers \/ closers' = [closers EXCEPT ![c] = @ + 1]
  BY DEF DialOk, CloseConn, poolVars, entryVars
<1>3. TypeOK'
  <2>1. pc' \in [Conn -> {"idle", "dialing", "open", "closing"}] /\ closers' \in [Conn -> Nat]
    BY <1>1, <1>2 DEF TypeOK
  <2>2. QED  BY <1>1, <1>2, <2>1 DEF TypeOK
<1>4. LeaseCount'
  <2>1. \A d \in Conn : pc'[d] # "idle" <=> pc[d] # "idle"
    BY <1>1, <1>2 DEF TypeOK
  <2>2. \A e : Holders(e)' = Holders(e)
    BY <1>2, <2>1 DEF Holders
  <2>3. QED  BY <1>1, <1>2, <2>2 DEF LeaseCount
<1>5. CloseCount' /\ MapIsUnretired'
  BY <1>1, <1>2 DEF CloseCount, MapIsUnretired
<1>6. LeaseKeys'
  BY <1>1, <1>2 DEF LeaseKeys, TypeOK
<1>7. QED  BY <1>3, <1>4, <1>5, <1>6 DEF IInv

-----------------------------------------------------------------------------
LEMMA InitInv == Init => IInv
<1> SUFFICES ASSUME Init PROVE IInv
  OBVIOUS
<1>1. TypeOK
  BY DEF Init, TypeOK
<1>2. LeaseCount
  <2>1. \A e \in Entry : Holders(e) = {} /\ active[e] = 0
    BY DEF Init, Holders
  <2>2. QED  BY <2>1, FS_EmptySet DEF LeaseCount
<1>3. CloseCount /\ MapIsUnretired /\ LeaseKeys
  BY DEF Init, CloseCount, MapIsUnretired, LeaseKeys
<1>4. QED  BY <1>1, <1>2, <1>3 DEF IInv

LEMMA NextInv == IInv /\ [Next]_vars => IInv'
<1> SUFFICES ASSUME IInv, [Next]_vars PROVE IInv'
  OBVIOUS
<1>1. ASSUME NEW c \in Conn, NEW k \in Key, Acquire(c, k) PROVE IInv'
  BY <1>1, AcquireHitStep, AcquireMissStep, AcquireFailStep DEF Acquire
<1>2. ASSUME NEW c \in Conn, DialEnds(c) PROVE IInv'
  BY <1>2, LeaseEndsStep, ConnStep DEF DialEnds
<1>3. ASSUME NEW c \in Conn, CloseConn(c) \/ ReleaseConn(c) PROVE IInv'
  BY <1>3, ConnStep, ReleaseConnStep
<1>4. ASSUME NEW e \in Entry, CloseAdapter(e) PROVE IInv'
  BY <1>4, CloseAdapterStep
<1>5. CASE ClosePool
  BY <1>5, ClosePoolStep
<1>6. CASE UNCHANGED vars
  <2>1. TypeOK'
    BY <1>6 DEF vars, poolVars, entryVars, connVars, IInv, TypeOK
  <2>2. LeaseCount' /\ CloseCount'
    BY <1>6 DEF vars, poolVars, entryVars, connVars, IInv, LeaseCount, CloseCount, Holders
  <2>3. MapIsUnretired' /\ LeaseKeys'
    BY <1>6 DEF vars, poolVars, entryVars, connVars, IInv, MapIsUnretired, LeaseKeys
  <2>4. QED  BY <2>1, <2>2, <2>3 DEF IInv
<1>7. QED  BY <1>1, <1>2, <1>3, <1>4, <1>5, <1>6 DEF Next

\* The inductive invariant holds in every reachable state of the pool.
THEOREM Invariance == Spec => []IInv
<1>1. QED  BY InitInv, NextInv, PTL DEF Spec

\* Every variable keeps its type.
THEOREM TypeCorrect == Spec => []TypeOK
<1>1. IInv => TypeOK
  BY DEF IInv
<1>2. QED  BY <1>1, Invariance, PTL

\* adapterPool never closes an adapter that a dial, a probe or an open
\* connection uses.
THEOREM NoCloseInUse == Spec => []NeverClosedInUse
<1>1. IInv => NeverClosedInUse
  <2>1. SUFFICES ASSUME IInv, NEW e \in Entry, pending[e] + calls[e] > 0
                 PROVE  Holders(e) = {}
    BY DEF NeverClosedInUse
  <2>2. active[e] = 0
    BY <2>1 DEF IInv, CloseCount
  <2>3. Cardinality(Holders(e)) = 0
    BY <2>1, <2>2 DEF IInv, LeaseCount
  <2>4. QED  BY <2>3, HoldersFinite, FS_EmptySet
<1>2. QED  BY <1>1, Invariance, PTL

\* adapterPool closes an adapter at most once, however many goroutines release
\* its leases.
THEOREM NoDoubleClose == Spec => []ClosedAtMostOnce
<1>1. IInv => ClosedAtMostOnce
  BY DEF IInv, CloseCount, ClosedAtMostOnce
<1>2. QED  BY <1>1, Invariance, PTL

\* No adapter that has left the pool stays open without a user.
THEOREM NoLeak == Spec => []NoAdapterLeak
<1>1. IInv => NoAdapterLeak
  <2>1. SUFFICES ASSUME IInv, NEW e \in made,
                        \A k \in Key : entries[k] # e, Holders(e) = {}
                 PROVE  pending[e] + calls[e] = 1
    BY DEF NoAdapterLeak
  <2>2. e \in Entry
    BY <2>1 DEF IInv, TypeOK
  <2>3. retired[e]
    BY <2>1 DEF IInv, MapIsUnretired
  <2>4. active[e] = 0
    BY <2>1, <2>2, FS_EmptySet DEF IInv, LeaseCount
  <2>5. QED  BY <2>1, <2>2, <2>3, <2>4 DEF IInv, CloseCount
<1>2. QED  BY <1>1, Invariance, PTL

-----------------------------------------------------------------------------
\* The size of the pool.  Eviction picks by rank, so that what it achieves
\* depends on no two adapters having been used at the same time.
LEMMA LeastNumber ==
  ASSUME NEW T \in SUBSET Nat, T # {}
  PROVE  \E n \in T : \A m \in T : n <= m
<1>1. PICK n \in T : \A m \in T : <<m, n>> \notin OpToRel(<, Nat)
  BY NatLessThanWellFounded, WFMin
<1>2. \A m \in T : ~(m < n)
  BY <1>1 DEF OpToRel
<1>3. QED  BY <1>2

\* A map that is too large after an eviction has no idle adapter left but the
\* excluded one.
LEMMA EvictionBounds ==
  ASSUME NEW map \in [Key -> Entry \cup {None}], IsFiniteSet(Present(map)),
         NEW act \in [Entry -> Nat], NEW used \in [Entry -> Nat], NEW exclude,
         \A j, k \in Present(map) : used[map[j]] = used[map[k]] => j = k,
         NEW k \in Present(map) \ exclude, k \notin Evicted(map, act, used, exclude),
         act[map[k]] = 0
  PROVE  Cardinality(Present(map) \ Evicted(map, act, used, exclude)) <= MaxSize
<1> DEFINE P == Present(map)
<1> DEFINE idle == {j \in P \ exclude : act[map[j]] = 0}
<1> DEFINE over == Cardinality(P) - MaxSize
<1> DEFINE Upto(i) == {j \in idle : used[map[j]] <= used[map[i]]}
<1> DEFINE out == Evicted(map, act, used, exclude)
<1>1. out = {i \in idle : Cardinality(Upto(i)) <= over}
  BY DEF Evicted
<1>2. \A j \in P : used[map[j]] \in Nat
  BY DEF Present
<1>3. PICK i \in idle \ out : \A j \in idle \ out : used[map[i]] <= used[map[j]]
  <2> DEFINE T == {used[map[j]] : j \in idle \ out}
  <2>1. T \subseteq Nat /\ T # {}
    BY <1>2
  <2> HIDE DEF out
  <2>2. PICK n \in T : \A m \in T : n <= m
    BY <2>1, LeastNumber
  <2>3. QED  BY <2>2
<1>4. Upto(i) \subseteq out \cup {i}
  <2>1. SUFFICES ASSUME NEW j \in Upto(i), j \notin out PROVE j = i
    OBVIOUS
  <2>2. j \in idle /\ used[map[j]] <= used[map[i]]
    OBVIOUS
  <2>3. used[map[i]] <= used[map[j]]
    BY <1>3, <2>1, <2>2
  <2>4. used[map[i]] \in Nat /\ used[map[j]] \in Nat
    BY <1>2, <2>2
  <2>5. QED  BY <2>2, <2>3, <2>4
<1>5. IsFiniteSet(P) /\ out \subseteq P /\ Upto(i) \subseteq P
  BY EvictedSubset
<1> HIDE DEF out, idle, Upto
<1>6. /\ IsFiniteSet(out) /\ Cardinality(out) \in Nat
      /\ Cardinality(Upto(i)) \in Nat /\ Cardinality(P) \in Nat
  BY <1>5, FS_Subset, FS_CardinalityType
<1>7. Cardinality(Upto(i)) <= Cardinality(out) + 1
  <2>1. IsFiniteSet(out \cup {i}) /\ Cardinality(out \cup {i}) = Cardinality(out) + 1
    BY <1>3, <1>6, FS_AddElement
  <2>2. QED  BY <1>4, <2>1, FS_Subset
<1>8. Cardinality(Upto(i)) > over
  BY <1>1, <1>3, <1>6, BoundAssumption DEF out
<1>9. Cardinality(P \ out) = Cardinality(P) - Cardinality(out)
  <2>1. P \cap out = out
    BY <1>5
  <2>2. QED  BY <1>5, <2>1, FS_Difference
<1>10. QED  BY <1>6, <1>7, <1>8, <1>9, BoundAssumption DEF out

\* The recency list: adapters were used one after the other, so that their
\* uses order them, and an acquire is younger than all of them.
Recency ==
  /\ IsFiniteSet(Present(entries))
  /\ \A e \in made : lastUsed[e] <= clock
  /\ \A d, e \in made : lastUsed[d] = lastUsed[e] => d = e

SizeInv == Recency /\ PoolBounded

\* What an eviction leaves.
LEMMA EvictedMap ==
  ASSUME NEW map \in [Key -> Entry \cup {None}], IsFiniteSet(Present(map)),
         TypeOK', NEW exclude,
         \A j, k \in Present(map) : lastUsed'[map[j]] = lastUsed'[map[k]] => j = k,
         \A j, k \in Present(map) : j[1] = k[1] => j = k,
         \A k \in Present(map) \cap exclude : active'[map[k]] > 0,
         entries' = Without(map, Evicted(map, active', lastUsed', exclude))
  PROVE  IsFiniteSet(Present(entries')) /\ PoolBounded'
<1> DEFINE out == Evicted(map, active', lastUsed', exclude)
<1>1. Present(entries') = Present(map) \ out
  BY DEF Without, Present
<1>2. \A k \in Present(map) \ out : entries'[k] = map[k] /\ map[k] \in Entry
  BY DEF Without, Present
<1>3. /\ active' \in [Entry -> Nat] /\ lastUsed' \in [Entry -> Nat]
  BY DEF TypeOK
<1>4. IsFiniteSet(Present(entries'))
  BY <1>1, FS_Subset
<1>5. ASSUME Cardinality(Present(entries')) > MaxSize, NEW k \in Present(entries')
      PROVE  active'[entries'[k]] > 0
  <2>1. k \in Present(map) \ out /\ entries'[k] = map[k] /\ map[k] \in Entry
    BY <1>1, <1>2, <1>5
  <2>2. CASE k \in exclude
    BY <2>1, <2>2
  <2>3. CASE k \notin exclude
    <3>1. SUFFICES ASSUME active'[map[k]] = 0 PROVE FALSE
      BY <1>3, <2>1
    <3> HIDE DEF out
    <3>2. k \in Present(map) \ exclude /\ k \notin Evicted(map, active', lastUsed', exclude)
      BY <2>1, <2>3 DEF out
    <3>3. Cardinality(Present(map) \ Evicted(map, active', lastUsed', exclude)) <= MaxSize
      BY <1>3, <3>1, <3>2, EvictionBounds
    <3>4. Cardinality(Present(entries')) \in Nat
      BY <1>4, FS_CardinalityType
    <3>5. QED  BY <1>1, <1>5, <3>3, <3>4, BoundAssumption DEF out
  <2>4. QED  BY <2>2, <2>3
<1>6. \A j, k \in Present(entries') : j[1] = k[1] => j = k
  BY <1>1
<1>7. QED  BY <1>4, <1>5, <1>6 DEF PoolBounded, Present

\* Adapters leave the map, and no adapter loses a user.
LEMMA SmallerMap ==
  ASSUME SizeInv, TypeOK, NEW K, entries' = Without(entries, K), active' = active
  PROVE  IsFiniteSet(Present(entries')) /\ PoolBounded'
<1>1. /\ Present(entries') \subseteq Present(entries)
      /\ \A k \in Present(entries') : entries'[k] = entries[k]
  BY DEF Without, Present
<1>2. IsFiniteSet(Present(entries))
  BY DEF SizeInv, Recency
<1>3. /\ IsFiniteSet(Present(entries'))
      /\ Cardinality(Present(entries')) <= Cardinality(Present(entries))
      /\ Cardinality(Present(entries')) \in Nat /\ Cardinality(Present(entries)) \in Nat
  BY <1>1, <1>2, FS_Subset, FS_CardinalityType
<1>4. QED  BY <1>1, <1>3, BoundAssumption DEF SizeInv, PoolBounded, Present

\* Neither map nor clock moves, and no adapter loses a user.
LEMMA SameMap ==
  ASSUME SizeInv, TypeOK, UNCHANGED <<clock, entries, made, active, lastUsed>>
  PROVE  SizeInv'
BY DEF SizeInv, Recency, PoolBounded, Present

LEMMA AcquireHitSize ==
  ASSUME IInv, SizeInv, NEW c \in Conn, NEW k \in Key, AcquireHit(c, k)
  PROVE  SizeInv'
<1> DEFINE e == entries[k]
<1>1. /\ e \in made /\ e \in Entry
      /\ lastUsed' = [lastUsed EXCEPT ![e] = clock + 1] /\ clock' = clock + 1
      /\ active' = [active EXCEPT ![e] = @ + 1]
      /\ UNCHANGED <<entries, made>>
  BY DEF AcquireHit, IInv, MapIsUnretired, TypeOK
<1>2. /\ clock \in Nat /\ made \subseteq Entry
      /\ \A x \in Entry : lastUsed[x] \in Nat /\ active[x] \in Nat
      /\ \A x \in Entry : lastUsed'[x] = IF x = e THEN clock + 1 ELSE lastUsed[x]
      /\ \A x \in Entry : active'[x] >= active[x] /\ active'[x] \in Nat
  BY <1>1 DEF IInv, TypeOK
<1> HIDE DEF e
<1>3. Recency'
  BY <1>1, <1>2 DEF SizeInv, Recency, Present
<1>4. \A j \in Present(entries) : entries[j] \in Entry
  BY DEF Present, IInv, TypeOK
<1>5. PoolBounded'
  BY <1>1, <1>2, <1>4 DEF SizeInv, PoolBounded, Present
<1>6. QED  BY <1>3, <1>5 DEF SizeInv

LEMMA AcquireMissSize ==
  ASSUME IInv, IInv', SizeInv, NEW c \in Conn, NEW k \in Key, NEW e \in Entry, AcquireMiss(c, k, e)
  PROVE  SizeInv'
<1> DEFINE kept == [Without(entries, Superseded(k)) EXCEPT ![k] = e]
<1>1. TypeOK /\ TypeOK' /\ MapIsUnretired
  BY DEF IInv
<1>2. /\ entries[k] = None /\ e \notin made
      /\ made' = made \cup {e} /\ clock' = clock + 1
      /\ lastUsed' = [lastUsed EXCEPT ![e] = clock + 1]
      /\ active' = [active EXCEPT ![e] = 1]
      /\ entries' = Without(kept, Evicted(kept, active', lastUsed', {k}))
  BY DEF AcquireMiss
<1>3. /\ \A j \in Key : kept[j] = IF j = k THEN e
                                  ELSE IF j \in Superseded(k) THEN None ELSE entries[j]
      /\ kept \in [Key -> Entry \cup {None}]
  BY <1>1, WithoutType DEF TypeOK, Without
<1> HIDE DEF kept
<1>4. \A j \in Present(kept) \ {k} : /\ j \in Present(entries) \ Superseded(k)
                                     /\ kept[j] = entries[j] /\ entries[j] \in made
  BY <1>1, <1>3 DEF Present, MapIsUnretired
<1>5. kept[k] = e /\ k \in Present(kept)
  BY <1>3, NoneAssumption DEF Present
<1>6. IsFiniteSet(Present(kept))
  <2>1. IsFiniteSet(Present(entries) \cup {k})
    BY FS_AddElement DEF SizeInv, Recency
  <2>2. QED  BY <1>4, <2>1, FS_Subset
<1>7. /\ clock \in Nat /\ made \subseteq Entry
      /\ \A x \in made : lastUsed[x] \in Nat /\ lastUsed'[x] = lastUsed[x] /\ lastUsed[x] <= clock
      /\ lastUsed'[e] = clock + 1
      /\ active'[e] = 1
  BY <1>1, <1>2 DEF TypeOK, SizeInv, Recency
<1>8. \A x, y \in made : lastUsed[x] = lastUsed[y] => x = y
  BY DEF SizeInv, Recency
<1>9. \A i, j \in Present(kept) : lastUsed'[kept[i]] = lastUsed'[kept[j]] => i = j
  <2>1. \A j \in Present(kept) \ {k} : lastUsed'[kept[j]] # lastUsed'[kept[k]]
    BY <1>4, <1>5, <1>7
  <2>2. ASSUME NEW i \in Present(kept) \ {k}, NEW j \in Present(kept) \ {k},
               lastUsed'[kept[i]] = lastUsed'[kept[j]]
        PROVE  i = j
    <3>1. entries[i] = entries[j]
      BY <1>4, <1>7, <1>8, <2>2
    <3>2. QED  BY <1>1, <1>4, <3>1 DEF MapIsUnretired, Present
  <2>3. QED  BY <2>1, <2>2
<1>10. \A i, j \in Present(kept) : i[1] = j[1] => i = j
  <2>1. \A j \in Present(kept) \ {k} : j[1] # k[1]
    BY <1>4 DEF Superseded
  <2>2. QED  BY <1>4, <2>1 DEF SizeInv, PoolBounded
<1>11. \A j \in Present(kept) \cap {k} : active'[kept[j]] > 0
  BY <1>5, <1>7
<1>12. IsFiniteSet(Present(entries')) /\ PoolBounded'
  BY <1>1, <1>2, <1>3, <1>6, <1>9, <1>10, <1>11, EvictedMap
<1>13. Recency'
  BY <1>2, <1>7, <1>8, <1>12 DEF Recency, Present
<1>14. QED  BY <1>12, <1>13 DEF SizeInv

\* A release evicts among what a failed lease has left.
LEMMA ReleaseSize ==
  ASSUME IInv, TypeOK', SizeInv, NEW c \in Conn, NEW failed \in BOOLEAN, Release(c, failed)
  PROVE  SizeInv'
<1>1. TypeOK /\ MapIsUnretired
  BY DEF IInv
<1>2. CASE done[c]
  BY <1>1, <1>2, SameMap DEF Release, poolVars, entryVars
<1>3. CASE ~done[c]
  <2> DEFINE kept == Without(entries, {k \in Key : failed /\ k = key[c] /\ entries[k] = lease[c]})
  <2>1. /\ entries' = Without(kept, Evicted(kept, active', lastUsed', {}))
        /\ UNCHANGED <<clock, made, lastUsed>>
    BY <1>3 DEF Release
  <2>2. kept \in [Key -> Entry \cup {None}]
    BY <1>1, WithoutType DEF TypeOK
  <2>3. /\ Present(kept) \subseteq Present(entries)
        /\ \A j \in Present(kept) : kept[j] = entries[j]
    BY DEF Present, Without
  <2> HIDE DEF kept
  <2>4. IsFiniteSet(Present(kept))
    BY <2>3, FS_Subset DEF SizeInv, Recency
  <2>5. \A i, j \in Present(kept) : lastUsed'[kept[i]] = lastUsed'[kept[j]] => i = j
    BY <1>1, <2>1, <2>3 DEF MapIsUnretired, SizeInv, Recency, Present
  <2>6. \A i, j \in Present(kept) : i[1] = j[1] => i = j
    BY <2>3 DEF SizeInv, PoolBounded
  <2>7. IsFiniteSet(Present(entries')) /\ PoolBounded'
    <3>1. \A j \in Present(kept) \cap {} : active'[kept[j]] > 0
      OBVIOUS
    <3>2. QED  BY <2>1, <2>2, <2>4, <2>5, <2>6, <3>1, EvictedMap
  <2>8. QED  BY <2>1, <2>7 DEF SizeInv, Recency, Present
<1>4. QED  BY <1>2, <1>3

\* The other steps that take adapters out of the map.
LEMMA ShrinkSize ==
  ASSUME IInv, SizeInv, ClosePool \/ \E c \in Conn, k \in Key : AcquireFail(c, k)
  PROVE  SizeInv'
<1>1. TypeOK
  BY DEF IInv
<1>2. /\ \E K : entries' = Without(entries, K)
      /\ active' = active /\ UNCHANGED <<made, lastUsed>>
      /\ clock' \in {clock, clock + 1}
  <2>1. CASE ClosePool
    <3>1. entries' = Without(entries, Key)
      BY <2>1 DEF ClosePool, Without
    <3>2. QED  BY <2>1, <3>1 DEF ClosePool
  <2>2. CASE \E c \in Conn, k \in Key : AcquireFail(c, k)
    BY <2>2 DEF AcquireFail
  <2>3. QED  BY <2>1, <2>2
<1>3. IsFiniteSet(Present(entries')) /\ PoolBounded'
  BY <1>1, <1>2, SmallerMap
<1>4. \A x \in made : lastUsed[x] \in Nat /\ lastUsed[x] <= clock /\ clock \in Nat
  BY <1>1 DEF TypeOK, SizeInv, Recency
<1>5. QED  BY <1>2, <1>3, <1>4 DEF SizeInv, Recency, Present

LEMMA NextSize == IInv /\ IInv' /\ SizeInv /\ [Next]_vars => SizeInv'
<1> SUFFICES ASSUME IInv, IInv', SizeInv, [Next]_vars PROVE SizeInv'
  OBVIOUS
<1>1. TypeOK /\ TypeOK'
  BY DEF IInv
<1>2. ASSUME NEW c \in Conn, NEW k \in Key, Acquire(c, k) PROVE SizeInv'
  BY <1>2, AcquireHitSize, AcquireMissSize, ShrinkSize DEF Acquire
<1>3. ASSUME NEW c \in Conn, NEW failed \in BOOLEAN, Release(c, failed) PROVE SizeInv'
  BY <1>1, <1>3, ReleaseSize
<1>4. ASSUME NEW c \in Conn, DialEnds(c) \/ CloseConn(c) \/ ReleaseConn(c) PROVE SizeInv'
  <2>1. CASE DialOk(c) \/ CloseConn(c)
    BY <1>1, <2>1, SameMap DEF DialOk, CloseConn, poolVars, entryVars
  <2>2. CASE DialFail(c) \/ ProbeOk(c) \/ ReleaseConn(c)
    BY <1>3, <2>2 DEF DialFail, ProbeOk, ReleaseConn
  <2>3. QED  BY <1>4, <2>1, <2>2 DEF DialEnds
<1>5. CASE ClosePool
  BY <1>5, ShrinkSize
<1>6. ASSUME NEW e \in Entry, CloseAdapter(e) PROVE SizeInv'
  BY <1>1, <1>6, SameMap DEF CloseAdapter, poolVars
<1>7. CASE UNCHANGED vars
  BY <1>1, <1>7, SameMap DEF vars, poolVars, entryVars
<1>8. QED  BY <1>2, <1>4, <1>5, <1>6, <1>7 DEF Next

LEMMA InitSize == Init => SizeInv
<1> SUFFICES ASSUME Init PROVE SizeInv
  OBVIOUS
<1>1. Present(entries) = {} /\ made = {}
  BY DEF Init, Present
<1>2. IsFiniteSet(Present(entries)) /\ Cardinality(Present(entries)) = 0
  BY <1>1, FS_EmptySet
<1>3. QED  BY <1>1, <1>2, BoundAssumption DEF SizeInv, Recency, PoolBounded

\* However many nodes are dialled and edited, the pool exceeds its size only
\* while everything in it is in use, and holds one version of a node.
THEOREM Bounded == Spec => []PoolBounded
<1>1. SizeInv => PoolBounded
  BY DEF SizeInv
<1>2. QED  BY <1>1, InitSize, NextSize, Invariance, PTL DEF Spec

-----------------------------------------------------------------------------
\* The refinement mapping, named for the proof.
Life == [e \in Entry |-> IF calls[e] > 0 THEN "closed"
                         ELSE IF e \in made THEN "live" ELSE "absent"]

User == [c \in Conn |-> IF pc[c] # "idle" /\ ~done[c] THEN lease[c] ELSE None]

\* acquire: the user gets an adapter that is not closed.
LEMMA AcquireRefines ==
  ASSUME IInv, NEW c \in Conn, NEW e \in Entry, User[c] = None,
         \/ /\ e \in made /\ ~retired[e] /\ made' = made
         \/ /\ e \notin made /\ made' = made \cup {e},
         TakeLease(c, key'[c], e), calls' = calls
  PROVE  Leases!Next
<1>1. TypeOK /\ CloseCount /\ MapIsUnretired
  BY DEF IInv
<1>2. calls[e] = 0
  <2>1. ~retired[e]
    BY <1>1 DEF MapIsUnretired
  <2>2. pending[e] + calls[e] = 0
    BY <1>1, <2>1 DEF CloseCount
  <2>3. QED  BY <1>1, <2>2 DEF TypeOK
<1>3. Life[e] # "closed"
  BY <1>2 DEF Life
<1>4. User' = [User EXCEPT ![c] = e]
  BY <1>1 DEF User, TakeLease, TypeOK
<1>5. Life' = [Life EXCEPT ![e] = "live"]
  <2>1. \A x \in Entry : x \in made' <=> x \in made \/ x = e
    OBVIOUS
  <2>2. \A x \in Entry : Life'[x] = IF x = e THEN "live" ELSE Life[x]
    BY <1>2, <2>1 DEF Life
  <2>3. QED  BY <2>2 DEF Life
<1>6. Leases!Use(c, e)
  BY <1>3, <1>4, <1>5 DEF Leases!Use, Life, User
<1>7. QED  BY <1>6 DEF Leases!Next

\* release: the user leaves.
LEMMA LeaveRefines ==
  ASSUME IInv, NEW c \in Conn, pc[c] # "idle", ~done[c], calls' = calls, made' = made,
         done' = [done EXCEPT ![c] = TRUE],
         \/ UNCHANGED <<pc, lease>>
         \/ /\ pc' = [pc EXCEPT ![c] = "idle"]
            /\ lease' = [lease EXCEPT ![c] = None]
  PROVE  Leases!Next
<1>1. TypeOK /\ LeaseKeys
  BY DEF IInv
<1>2. User[c] # None
  BY <1>1, NoneAssumption DEF User, LeaseKeys, TypeOK
<1>3. User' = [User EXCEPT ![c] = None]
  BY <1>1 DEF User, TypeOK
<1>4. Life' = Life
  BY DEF Life
<1>5. Leases!Leave(c)
  BY <1>2, <1>3, <1>4 DEF Leases!Leave, Life, User
<1>6. QED  BY <1>5 DEF Leases!Next

\* closeAdapters: the adapter is open and nobody uses it.
LEMMA CloseRefines ==
  ASSUME IInv, NEW e \in Entry, CloseAdapter(e)
  PROVE  Leases!Next
<1>1. TypeOK /\ LeaseCount /\ CloseCount /\ MapIsUnretired /\ LeaseKeys
  BY DEF IInv
<1>2. /\ pending[e] > 0
      /\ calls' = [calls EXCEPT ![e] = @ + 1]
      /\ UNCHANGED <<made, pc, lease, done>>
  BY DEF CloseAdapter, connVars
<1>3. shut[e] /\ retired[e] /\ active[e] = 0 /\ calls[e] = 0
  <2>1. pending[e] \in Nat /\ calls[e] \in Nat
    BY <1>1 DEF TypeOK
  <2>2. /\ shut[e] <=> retired[e] /\ active[e] = 0
        /\ pending[e] + calls[e] = IF shut[e] THEN 1 ELSE 0
    BY <1>1 DEF CloseCount
  <2>3. shut[e] /\ calls[e] = 0
    BY <1>2, <2>1, <2>2
  <2>4. QED  BY <2>2, <2>3
<1>4. e \in made
  BY <1>1, <1>3 DEF MapIsUnretired
<1>5. Holders(e) = {}
  BY <1>1, <1>3, HoldersFinite, FS_EmptySet DEF LeaseCount
<1>6. Life[e] = "live"
  BY <1>3, <1>4 DEF Life
<1>7. \A c \in Conn : User[c] # e
  BY <1>5, NoneAssumption DEF User, Holders
<1>8. Life' = [Life EXCEPT ![e] = "closed"]
  <2>1. \A x \in Entry : calls'[x] = IF x = e THEN 1 ELSE calls[x]
    BY <1>1, <1>2, <1>3 DEF TypeOK
  <2>2. \A x \in Entry : Life'[x] = IF x = e THEN "closed" ELSE Life[x]
    BY <1>2, <2>1 DEF Life
  <2>3. QED  BY <2>2 DEF Life
<1>9. User' = User
  BY <1>2 DEF User
<1>10. Leases!Close(e)
  BY <1>6, <1>7, <1>8, <1>9 DEF Leases!Close, Life, User
<1>11. QED  BY <1>10 DEF Leases!Next

\* Everything else the pool does is invisible to its users.
LEMMA StutterRefines ==
  ASSUME IInv, calls' = calls, made' = made, lease' = lease, done' = done,
         \A c \in Conn : pc'[c] = "idle" <=> pc[c] = "idle"
  PROVE  UNCHANGED Leases!leaseVars
<1>1. Life' = Life /\ User' = User
  BY DEF Life, User
<1>2. QED  BY <1>1 DEF Leases!leaseVars, Life, User

LEMMA NextRefines == IInv /\ [Next]_vars => [Leases!Next]_Leases!leaseVars
<1> SUFFICES ASSUME IInv, [Next]_vars
             PROVE  Leases!Next \/ UNCHANGED Leases!leaseVars
  OBVIOUS
<1>1. TypeOK /\ MapIsUnretired /\ LeaseKeys
  BY DEF IInv
<1>2. \A c \in Conn : Free(c) => User[c] = None
  BY DEF Free, User
<1>3. ASSUME NEW c \in Conn, NEW k \in Key, AcquireHit(c, k)
      PROVE  Leases!Next
  <2>1. entries[k] \in made /\ entries[k] \in Entry /\ ~retired[entries[k]]
    BY <1>1, <1>3 DEF AcquireHit, MapIsUnretired, TypeOK
  <2>2. TakeLease(c, k, entries[k]) /\ calls' = calls /\ made' = made /\ User[c] = None
    BY <1>2, <1>3 DEF AcquireHit
  <2>3. key'[c] = k
    BY <1>1, <2>2 DEF TakeLease, TypeOK
  <2>4. QED  BY <2>1, <2>2, <2>3, AcquireRefines
<1>4. ASSUME NEW c \in Conn, NEW k \in Key, NEW e \in Entry, AcquireMiss(c, k, e)
      PROVE  Leases!Next
  <2>1. TakeLease(c, k, e) /\ calls' = calls /\ User[c] = None
    BY <1>2, <1>4 DEF AcquireMiss
  <2>2. e \notin made /\ made' = made \cup {e}
    BY <1>4 DEF AcquireMiss
  <2>3. key'[c] = k
    BY <1>1, <2>1 DEF TakeLease, TypeOK
  <2>4. QED  BY <2>1, <2>2, <2>3, AcquireRefines
<1>5. ASSUME NEW c \in Conn, NEW k \in Key, AcquireFail(c, k)
      PROVE  UNCHANGED Leases!leaseVars
  BY <1>5, StutterRefines DEF AcquireFail, connVars
<1>6. ASSUME NEW c \in Conn, DialFail(c) \/ ProbeOk(c)
      PROVE  Leases!Next
  <2>1. PICK failed \in BOOLEAN : Release(c, failed)
    BY <1>6 DEF DialFail, ProbeOk
  <2>2. /\ pc[c] = "dialing" /\ calls' = calls
        /\ pc' = [pc EXCEPT ![c] = "idle"]
        /\ lease' = [lease EXCEPT ![c] = None]
    BY <1>6 DEF DialFail, ProbeOk, DropLease
  <2>3. ~done[c]
    BY <1>1, <2>2 DEF LeaseKeys
  <2>4. done' = [done EXCEPT ![c] = TRUE] /\ made' = made
    BY <2>1, <2>2, <2>3, ReleaseStep
  <2>5. QED  BY <2>2, <2>3, <2>4, LeaveRefines
<1>7. ASSUME NEW c \in Conn, ReleaseConn(c)
      PROVE  Leases!Next \/ UNCHANGED Leases!leaseVars
  <2>1. pc[c] = "closing" /\ Release(c, FALSE) /\ UNCHANGED <<calls, pc, key, lease>>
    BY <1>7 DEF ReleaseConn
  <2>2. CASE done[c]
    <3>1. UNCHANGED <<made, done>>
      BY <2>1, <2>2 DEF Release, entryVars
    <3>2. QED  BY <2>1, <3>1, StutterRefines
  <2>3. CASE ~done[c]
    <3>1. done' = [done EXCEPT ![c] = TRUE] /\ made' = made
      BY <2>1, <2>3, ReleaseStep
    <3>2. QED  BY <2>1, <2>3, <3>1, LeaveRefines
  <2>4. QED  BY <2>2, <2>3
<1>8. ASSUME NEW c \in Conn, DialOk(c) \/ CloseConn(c)
      PROVE  UNCHANGED Leases!leaseVars
  <2>1. UNCHANGED <<calls, made, lease, done>>
    BY <1>8 DEF DialOk, CloseConn, entryVars
  <2>2. \A d \in Conn : pc'[d] = "idle" <=> pc[d] = "idle"
    BY <1>1, <1>8 DEF DialOk, CloseConn, TypeOK
  <2>3. QED  BY <2>1, <2>2, StutterRefines
<1>9. ASSUME ClosePool
      PROVE  UNCHANGED Leases!leaseVars
  BY <1>9, StutterRefines DEF ClosePool, connVars
<1>10. ASSUME UNCHANGED vars
       PROVE  UNCHANGED Leases!leaseVars
  BY <1>10, StutterRefines DEF vars, entryVars, connVars
<1>11. QED
  BY <1>3, <1>4, <1>5, <1>6, <1>7, <1>8, <1>9, <1>10, CloseRefines
  DEF Next, Acquire, DialEnds

LEMMA InitRefines == Init => Leases!Init
BY DEF Init, Leases!Init

\* adapterPool implements AdapterLeases: every user gets an open adapter and
\* keeps it open until it leaves, whatever retired it meanwhile.
THEOREM Refinement == Spec => ImplementsLeases
<1>1. QED  BY InitRefines, NextRefines, Invariance, PTL DEF Spec, ImplementsLeases, Leases!Spec
=============================================================================
