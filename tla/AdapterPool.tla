---------------------------- MODULE AdapterPool ----------------------------
(***************************************************************************)
(* The pool of outbound adapters of the SOCKS5 gateway                     *)
(* (services/socks5/adapter_pool.go) and the two code paths that lease     *)
(* from it: dialWithPool for client connections (socks5.go) and            *)
(* defaultHealthProbe (health_monitor.go).                                 *)
(*                                                                         *)
(* The pool's mutex makes acquire, release and close atomic; the Close     *)
(* calls on the adapters they collect happen after the unlock and are      *)
(* steps of their own.  An acquire on a closed pool returns an error and   *)
(* changes nothing, so it has no action.                                   *)
(***************************************************************************)
EXTENDS Integers, FiniteSets

CONSTANTS
  Node,        \* node ids
  Version,     \* link hashes: the same node with an edited link is a new key
  Entry,       \* adapters the factory can build
  Conn,        \* users of leases: client connections and health probes
  None,        \* no entry
  MaxSize,     \* adapterPool.maxSize
  MaxClock,    \* bound on the number of acquires
  MaxClosers   \* goroutines that close one client connection at a time

ASSUME ConnAssumption == IsFiniteSet(Conn)
ASSUME NoneAssumption == None \notin Entry
ASSUME BoundAssumption == MaxSize \in Nat /\ MaxClock \in Nat /\ MaxClosers \in Nat

Key == Node \X Version

VARIABLES
  poolClosed,  \* adapterPool.closed
  clock,       \* adapterPool.clock
  entries,     \* adapterPool.entries
  made,        \* adapters built so far
  active,      \* adapterEntry.active
  lastUsed,    \* adapterEntry.lastUsed
  retired,     \* adapterEntry.retired
  shut,        \* adapterEntry.closed
  pending,     \* Close calls collected under the lock and not made yet
  calls,       \* Close calls made on the adapter
  pc,          \* where the user of a lease stands
  key,         \* adapterLease.key
  lease,       \* adapterLease.entry
  done,        \* adapterLease.once has run
  closers      \* goroutines between Conn.Close and lease.release

poolVars == <<poolClosed, clock, entries>>
entryVars == <<made, active, lastUsed, retired, shut, pending>>
connVars == <<pc, key, lease, done, closers>>
vars == <<poolVars, entryVars, calls, connVars>>

Init ==
  /\ poolClosed = FALSE
  /\ clock = 0
  /\ entries = [k \in Key |-> None]
  /\ made = {}
  /\ active = [e \in Entry |-> 0]
  /\ lastUsed = [e \in Entry |-> 0]
  /\ retired = [e \in Entry |-> FALSE]
  /\ shut = [e \in Entry |-> FALSE]
  /\ pending = [e \in Entry |-> 0]
  /\ calls = [e \in Entry |-> 0]
  /\ pc = [c \in Conn |-> "idle"]
  /\ key = [c \in Conn |-> None]
  /\ lease = [c \in Conn |-> None]
  /\ done = [c \in Conn |-> FALSE]
  /\ closers = [c \in Conn |-> 0]

-----------------------------------------------------------------------------
\* Helpers that run under the pool's mutex.

Present(map) == {k \in Key : map[k] # None}

Without(map, K) == [k \in Key |-> IF k \in K THEN None ELSE map[k]]

\* evictOldestLocked: the keys it deletes.  While the map is larger than
\* maxSize it drops the least recently used idle entry, never excludeKey.
Evicted(map, act, used, exclude) ==
  LET idle == {k \in Present(map) \ exclude : act[map[k]] = 0}
      over == Cardinality(Present(map)) - MaxSize
  IN  {k \in idle :
         Cardinality({j \in idle : used[map[j]] <= used[map[k]]}) <= over}

\* Mutant of Retire: adapters are closed while they are used.
RetireInUse(R, E) ==
  LET open == {e \in R \cup E : ~shut[e]}
  IN  /\ retired' = [e \in Entry |-> retired[e] \/ e \in R]
      /\ shut' = [e \in Entry |-> shut[e] \/ e \in open]
      /\ pending' = [e \in Entry |->
                       IF e \in open THEN pending[e] + 1 ELSE pending[e]]

\* Mutant of Retire: an adapter retired earlier is not looked at again.
RetireOnce(R, E) ==
  LET unused == {e \in R : active'[e] = 0 /\ ~shut[e]}
  IN  /\ retired' = [e \in Entry |-> retired[e] \/ e \in R]
      /\ shut' = [e \in Entry |-> shut[e] \/ e \in unused]
      /\ pending' = [e \in Entry |->
                       IF e \in unused THEN pending[e] + 1 ELSE pending[e]]

\* retireEntryLocked on the entries R and the closing of those, and of the
\* entries already retired in E, that nobody uses any more.
Retire(R, E) ==
  LET unused == {e \in R \cup E : active'[e] = 0 /\ ~shut[e]}
  IN  /\ retired' = [e \in Entry |-> retired[e] \/ e \in R]
      /\ shut' = [e \in Entry |-> shut[e] \/ e \in unused]
      /\ pending' = [e \in Entry |->
                       IF e \in unused THEN pending[e] + 1 ELSE pending[e]]

\* The connection has no lease, or is done with its last one.
Free(c) ==
  \/ pc[c] = "idle"
  \/ pc[c] = "closing" /\ done[c] /\ closers[c] = 0

TakeLease(c, k, e) ==
  /\ pc' = [pc EXCEPT ![c] = "dialing"]
  /\ key' = [key EXCEPT ![c] = k]
  /\ lease' = [lease EXCEPT ![c] = e]
  /\ done' = [done EXCEPT ![c] = FALSE]
  /\ UNCHANGED closers

\* The lease goes out of scope.
DropLease(c) ==
  /\ key' = [key EXCEPT ![c] = None]
  /\ lease' = [lease EXCEPT ![c] = None]

\* Mutant of Superseded: older versions of the node stay.
SupersededNone(k) == {}

\* The other entries of the same node: their link has changed.
Superseded(k) == {j \in Present(entries) : j # k /\ j[1] = k[1]}

-----------------------------------------------------------------------------
\* acquire finds the key.
AcquireHit(c, k) ==
  /\ Free(c)
  /\ ~poolClosed
  /\ clock < MaxClock
  /\ entries[k] # None
  /\ clock' = clock + 1
  /\ lastUsed' = [lastUsed EXCEPT ![entries[k]] = clock + 1]
  /\ active' = [active EXCEPT ![entries[k]] = @ + 1]
  /\ TakeLease(c, k, entries[k])
  /\ UNCHANGED <<poolClosed, entries, made, retired, shut, pending, calls>>

\* acquire builds adapter e, retires the node's older versions and evicts.
AcquireMiss(c, k, e) ==
  /\ Free(c)
  /\ ~poolClosed
  /\ clock < MaxClock
  /\ entries[k] = None
  /\ e \notin made
  /\ e = CHOOSE x \in Entry : x \notin made   \* names do not matter
  /\ clock' = clock + 1
  /\ made' = made \cup {e}
  /\ lastUsed' = [lastUsed EXCEPT ![e] = clock + 1]
  /\ active' = [active EXCEPT ![e] = 1]
  /\ LET kept == [Without(entries, Superseded(k)) EXCEPT ![k] = e]
         evicted == Evicted(kept, active', lastUsed', {k})
     IN  /\ entries' = Without(kept, evicted)
         /\ Retire({entries[j] : j \in Superseded(k)} \cup {kept[j] : j \in evicted}, {})
  /\ TakeLease(c, k, e)
  /\ UNCHANGED <<poolClosed, calls>>

\* Mutant of AcquireFail: the retired versions stay in the map.
AcquireFailKeeps(c, k) ==
  /\ Free(c)
  /\ ~poolClosed
  /\ clock < MaxClock
  /\ entries[k] = None
  /\ clock' = clock + 1
  /\ UNCHANGED active
  /\ Retire({entries[j] : j \in Superseded(k)}, {})
  /\ UNCHANGED <<poolClosed, entries, made, lastUsed, calls, connVars>>

\* acquire retires the node's older versions, but the factory fails.
AcquireFail(c, k) ==
  /\ Free(c)
  /\ ~poolClosed
  /\ clock < MaxClock
  /\ entries[k] = None
  /\ clock' = clock + 1
  /\ entries' = Without(entries, Superseded(k))
  /\ UNCHANGED active
  /\ Retire({entries[j] : j \in Superseded(k)}, {})
  /\ UNCHANGED <<poolClosed, made, lastUsed, calls, connVars>>

\* Mutant of Release: no once, and a retired adapter found unused is closed
\* whether or not it is marked closed.
ReleaseAgain(c, failed) ==
  LET e == lease[c]
  IN  /\ done' = [done EXCEPT ![c] = TRUE]
      /\ active' = [active EXCEPT ![e] = IF @ > 0 THEN @ - 1 ELSE @]
      /\ entries' = [k \in Key |-> IF failed /\ entries[k] = e THEN None ELSE entries[k]]
      /\ retired' = [retired EXCEPT ![e] = @ \/ failed]
      /\ LET unused == retired'[e] /\ active'[e] = 0
         IN  /\ shut' = [shut EXCEPT ![e] = @ \/ unused]
             /\ pending' = [pending EXCEPT ![e] = IF unused THEN @ + 1 ELSE @]
      /\ UNCHANGED <<poolClosed, clock, made, lastUsed>>

\* adapterLease.release, inside once.Do: a failed lease takes its adapter out
\* of the pool, and the last lease of a retired adapter closes it.
Release(c, failed) ==
  IF done[c]
  THEN UNCHANGED <<poolVars, entryVars, done>>
  ELSE LET e == lease[c]
           own == {k \in Key : failed /\ k = key[c] /\ entries[k] = e}
           kept == Without(entries, own)
       IN  /\ done' = [done EXCEPT ![c] = TRUE]
           /\ active' = [active EXCEPT ![e] = IF @ > 0 THEN @ - 1 ELSE @]
           /\ LET evicted == Evicted(kept, active', lastUsed, {})
                  R == {kept[j] : j \in evicted} \cup (IF failed THEN {e} ELSE {})
              IN  /\ entries' = Without(kept, evicted)
                  /\ Retire(R, {x \in {e} : retired[x]})
           /\ UNCHANGED <<poolClosed, clock, made, lastUsed>>

\* dialWithPool: DialContext fails; defaultHealthProbe: URLTest fails or panics.
DialFail(c) ==
  /\ pc[c] = "dialing"
  /\ Release(c, TRUE)
  /\ pc' = [pc EXCEPT ![c] = "idle"]
  /\ DropLease(c)
  /\ UNCHANGED <<calls, closers>>

\* defaultHealthProbe succeeds.
ProbeOk(c) ==
  /\ pc[c] = "dialing"
  /\ Release(c, FALSE)
  /\ pc' = [pc EXCEPT ![c] = "idle"]
  /\ DropLease(c)
  /\ UNCHANGED <<calls, closers>>

\* dialWithPool returns a pooledConn.
DialOk(c) ==
  /\ pc[c] = "dialing"
  /\ pc' = [pc EXCEPT ![c] = "open"]
  /\ UNCHANGED <<poolVars, entryVars, calls, key, lease, done, closers>>

\* pooledConn.Close, first half: the handler's deferred Close and
\* connectionInfo.close may both be in it, at once or one after the other.
CloseConn(c) ==
  /\ pc[c] \in {"open", "closing"}
  /\ closers[c] < MaxClosers
  /\ pc' = [pc EXCEPT ![c] = "closing"]
  /\ closers' = [closers EXCEPT ![c] = @ + 1]
  /\ UNCHANGED <<poolVars, entryVars, calls, key, lease, done>>

\* pooledConn.Close, second half.
ReleaseConn(c) ==
  /\ pc[c] = "closing"
  /\ closers[c] > 0
  /\ Release(c, FALSE)
  /\ closers' = [closers EXCEPT ![c] = @ - 1]
  /\ UNCHANGED <<calls, pc, key, lease>>

\* Mutant of ClosePool: the map is cleared and nothing is retired.
ClosePoolOnly ==
  /\ ~poolClosed
  /\ poolClosed' = TRUE
  /\ entries' = [k \in Key |-> None]
  /\ UNCHANGED <<clock, entryVars, calls, connVars>>

\* adapterPool.close, from Server.Close, which waits five seconds for the
\* connections to end and then goes on whether they ended or not.
ClosePool ==
  /\ ~poolClosed
  /\ poolClosed' = TRUE
  /\ entries' = [k \in Key |-> None]
  /\ UNCHANGED active
  /\ Retire({entries[k] : k \in Present(entries)}, {})
  /\ UNCHANGED <<clock, made, lastUsed, calls, connVars>>

\* closeAdapters, after the unlock.
CloseAdapter(e) ==
  /\ pending[e] > 0
  /\ pending' = [pending EXCEPT ![e] = @ - 1]
  /\ calls' = [calls EXCEPT ![e] = @ + 1]
  /\ UNCHANGED <<poolVars, made, active, lastUsed, retired, shut, connVars>>

Acquire(c, k) == AcquireHit(c, k) \/ AcquireFail(c, k) \/ \E e \in Entry : AcquireMiss(c, k, e)

DialEnds(c) == DialFail(c) \/ ProbeOk(c) \/ DialOk(c)

Next ==
  \/ \E c \in Conn :
       \/ \E k \in Key : Acquire(c, k)
       \/ DialEnds(c)
       \/ CloseConn(c)
       \/ ReleaseConn(c)
  \/ ClosePool
  \/ \E e \in Entry : CloseAdapter(e)

Spec == Init /\ [][Next]_vars

\* Dials and probes have a timeout, a goroutine past its unlock goes on, and
\* Server.Close cancels every session, which ends its connection, before it
\* closes the pool.
Fairness ==
  /\ \A c \in Conn :
       /\ WF_vars(DialEnds(c))
       /\ WF_vars(ReleaseConn(c))
       /\ WF_vars(poolClosed /\ pc[c] = "open" /\ CloseConn(c))
  /\ \A e \in Entry : WF_vars(CloseAdapter(e))

FairSpec == Spec /\ Fairness

-----------------------------------------------------------------------------
TypeOK ==
  /\ poolClosed \in BOOLEAN
  /\ clock \in Nat
  /\ entries \in [Key -> Entry \cup {None}]
  /\ made \subseteq Entry
  /\ active \in [Entry -> Nat]
  /\ lastUsed \in [Entry -> Nat]
  /\ retired \in [Entry -> BOOLEAN]
  /\ shut \in [Entry -> BOOLEAN]
  /\ pending \in [Entry -> Nat]
  /\ calls \in [Entry -> Nat]
  /\ pc \in [Conn -> {"idle", "dialing", "open", "closing"}]
  /\ key \in [Conn -> Key \cup {None}]
  /\ lease \in [Conn -> Entry \cup {None}]
  /\ done \in [Conn -> BOOLEAN]
  /\ closers \in [Conn -> Nat]

\* The connections that hold an adapter.
Holders(e) == {c \in Conn : pc[c] # "idle" /\ lease[c] = e /\ ~done[c]}

\* The inductive invariant behind the safety properties, in named parts.
\* The reference count is the number of users.
LeaseCount == \A e \in Entry : active[e] = Cardinality(Holders(e))

\* An adapter is marked closed exactly when it is retired and unused, and has
\* then been handed to closeAdapters once.
CloseCount ==
  \A e \in Entry :
    /\ shut[e] <=> retired[e] /\ active[e] = 0
    /\ pending[e] + calls[e] = IF shut[e] THEN 1 ELSE 0

\* The pool holds exactly the adapters that are not retired, each once.
MapIsUnretired ==
  /\ \A j, k \in Key : entries[j] = entries[k] /\ entries[j] # None => j = k
  /\ \A k \in Key : entries[k] # None => entries[k] \in made /\ ~retired[entries[k]]
  /\ \A e \in made : retired[e] \/ \E k \in Key : entries[k] = e
  /\ \A e \in Entry \ made : ~retired[e]

\* A lease names its adapter and the only key it can be found at.
LeaseKeys ==
  \A c \in Conn :
    /\ pc[c] # "idle" => lease[c] \in made /\ key[c] \in Key
    /\ pc[c] # "idle" => \A k \in Key : entries[k] = lease[c] => k = key[c]
    /\ pc[c] \in {"dialing", "open"} => ~done[c]

IInv == TypeOK /\ LeaseCount /\ CloseCount /\ MapIsUnretired /\ LeaseKeys

\* An adapter is closed only when no dial, probe or open connection uses it,
\* whatever eviction, link change, failure or shutdown retired it.
NeverClosedInUse ==
  \A e \in Entry : pending[e] + calls[e] > 0 => Holders(e) = {}

\* However many goroutines release a lease and however often an adapter is
\* retired, it is closed at most once.
ClosedAtMostOnce == \A e \in Entry : pending[e] + calls[e] <= 1

\* No adapter is lost: one that is not in the pool any more is closed as soon
\* as its last lease ends.
NoAdapterLeak ==
  \A e \in made :
    \/ \E k \in Key : entries[k] = e
    \/ Holders(e) # {}
    \/ pending[e] + calls[e] = 1

\* The pool exceeds its size only while every adapter in it is in use, and at
\* most one version of a node is in it: no connection is routed through the
\* adapter of a link that was replaced.
PoolBounded ==
  /\ Cardinality(Present(entries)) > MaxSize =>
       \A k \in Present(entries) : active[entries[k]] > 0
  /\ \A j, k \in Present(entries) : j[1] = k[1] => j = k

\* After the pool is closed every adapter ever built is closed eventually.
AllClosedAfterShutdown ==
  poolClosed ~> \A e \in made : calls[e] = 1

\* What the users see: AdapterLeases.
Leases == INSTANCE AdapterLeases WITH
  life <- [e \in Entry |-> IF calls[e] > 0 THEN "closed"
                           ELSE IF e \in made THEN "live" ELSE "absent"],
  user <- [c \in Conn |-> IF pc[c] # "idle" /\ ~done[c] THEN lease[c] ELSE None]

ImplementsLeases == Leases!Spec
=============================================================================
