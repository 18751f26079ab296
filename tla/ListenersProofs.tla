--------------------------- MODULE ListenersProofs ---------------------------
(***************************************************************************)
(* Proofs about Listeners, for any listeners, specs, shared settings,      *)
(* requests, connections and numbers of failures.                          *)
(***************************************************************************)
EXTENDS Listeners, SequenceTheorems, TLAPS

Slots == [Id -> Runtime \cup {None}]

Pcs == {"idle", "save", "load", "read", "prepare", "evict", "restore", "abort", "swap", "stop", "done"}
Preparing == {"prepare", "evict", "restore"}

CallType ==
  [pc : Pcs, base : Base, previous : Specs, undo : BOOLEAN, target : Specs,
   old : Nat, mine : Nat, prepared : Slots, todo : SUBSET Id, closing : SUBSET Runtime,
   awaits : Runtime \cup {None}]

TypeOK ==
  /\ stored \in [base : Base, specs : Specs]
  /\ maps \in Seq(Slots) /\ listeners \in 0 .. Len(maps)
  /\ runtime \in [Runtime -> [id : Id \cup {None}, spec : Spec \cup {Off}, base : Base,
                              open : BOOLEAN, canceled : BOOLEAN]]
  /\ phase \in [Runtime -> {"open", "closing", "closed"}]
  /\ serving \in [Runtime -> {"no", "yes", "ending", "over"}]
  /\ more \in [Runtime -> Nat]
  /\ conn \in [Conn -> {NoConn} \cup [at : Runtime, live : BOOLEAN]]
  /\ call \in [Request -> CallType]
  /\ errors \in Nat
  /\ abandoned \in SUBSET Runtime
  /\ {unread, overlapped, behind, revived} \subseteq BOOLEAN

\* Every map holds a runtime under the id it was made for, and what a request or a
\* connection names has been made.
NamesInv ==
  /\ \A m \in 1 .. Len(maps), i \in Id :
       maps[m][i] # None => runtime[maps[m][i]].id = i
  /\ \A w \in Request :
       /\ call[w].old <= Len(maps) /\ call[w].mine <= Len(maps)
       /\ \A i \in Id : call[w].prepared[i] # None => runtime[call[w].prepared[i]].id = i
       /\ call[w].closing \subseteq Made
       /\ call[w].awaits # None => call[w].awaits \in Made
  /\ \A c \in Conn : conn[c] # NoConn => conn[c].at \in Made

\* How far a server is, for what its listener is: only an Accept that failed closes
\* the server of an open listener.
ServersInv ==
  \A r \in Runtime :
    /\ r \notin Made => ~runtime[r].open /\ phase[r] = "open" /\ serving[r] = "no"
    /\ r \in Made /\ ~runtime[r].open => runtime[r].canceled
    /\ runtime[r].open /\ r \notin abandoned => phase[r] = "open" /\ serving[r] \in {"no", "yes"}

\* Two open listeners never share a port.
PortsInv ==
  \A r, q \in Runtime :
    runtime[r].open /\ runtime[q].open /\ runtime[r].spec.port = runtime[q].spec.port => r = q

\* What the record of a request holds, by the step it is at.
CallsInv ==
  \A w \in Request :
    /\ call[w].closing # {} => call[w].pc \in {"abort", "swap", "stop"}
    /\ \A i \in call[w].todo : /\ call[w].pc \in Preparing
                               /\ call[w].prepared[i] = None
                               /\ call[w].base # Disabled /\ Wanted(w, i) # Off
    /\ call[w].pc \in {"evict", "restore"} => call[w].awaits # None
    /\ call[w].pc = "swap" => call[w].mine # 0

\* A request that has evicted a runtime still wants its port, and so do all that read
\* the same map and evicted for the same listener: restoreRuntime overwrites an entry
\* whose listener is closed.
EvictInv ==
  \A w \in Request : call[w].pc \in {"evict", "restore"} =>
    \A i \in Id : IsNext(w, i) =>
      /\ runtime[call[w].awaits].spec.port = Wanted(w, i).port
      /\ ~unread =>
           /\ Old(w)[i] # None => runtime[Old(w)[i]].spec.port = Wanted(w, i).port
           /\ \A v \in Request :
                call[v].pc \in {"evict", "restore"} /\ IsNext(v, i) /\ call[v].old = call[w].old
                  => Wanted(v, i).port = Wanted(w, i).port

\* r is in some map that was the manager's.
Published(r) == \E m \in 1 .. Len(maps) : r \in In(maps[m])

\* Where an open listener is.  One that only a preparing request knows is in no map, so
\* the error path takes it for new and closes it.
HeldInv ==
  ~unread =>
  \A r \in Runtime : runtime[r].open /\ r \notin abandoned =>
    \/ r \in In(Current)
    \/ \E w \in Request : r \in call[w].closing
    \/ /\ ~Published(r)
       /\ \E w \in Request : call[w].pc \in Preparing /\ r \in In(call[w].prepared)

\* Requests have come one at a time, and none has met a failure of an earlier one.
Regular == ~overlapped /\ ~revived /\ abandoned = {}

\* What a request that runs alone knows of the settings and of the map.
Ordered(w) ==
  LET c == call[w] IN
  /\ c.pc \notin Ended \cup {"stop"} => c.base = stored.base
  /\ c.pc \in {"read", "swap"} \cup Preparing => c.target = stored.specs
  /\ c.pc \in Preparing => listeners = c.old
  /\ c.pc = "swap" => listeners = c.mine /\ c.mine # c.old
  /\ c.pc = "stop" => behind

OrderInv ==
  ~overlapped =>
  \A w \in Request :
    /\ Ordered(w)
    /\ \A v \in Request : call[w].pc \notin Ended /\ call[v].pc \notin Ended => v = w

\* r is what the settings of request w ask for listener i.
Fits(w, i, r) ==
  IF call[w].base = Disabled \/ Wanted(w, i) = Off THEN r = None
  ELSE /\ r # None
       /\ runtime[r].open /\ runtime[r].spec = Wanted(w, i) /\ runtime[r].base = call[w].base
       /\ \/ serving[r] = "yes"
          \/ serving[r] = "no" /\ Old(w)[i] # r

\* What a request that runs alone has made so far is what the settings ask for.
WorkInv ==
  Regular =>
  \A w \in Request :
    /\ call[w].pc \in Preparing =>
         \A i \in Id \ call[w].todo : Fits(w, i, call[w].prepared[i])
    /\ call[w].pc = "swap" =>
         /\ \A i \in Id : Fits(w, i, Current[i])
         /\ call[w].closing \cap In(Current) = {}

\* An open listener of the map is served, except between Publish and ServeNew.
ServedInv ==
  Regular =>
  \A r \in Runtime : r \in In(Current) /\ runtime[r].open =>
    serving[r] = "yes" \/ \E w \in Request : call[w].pc = "swap"

\* The inductive invariant.
IInv ==
  /\ TypeOK /\ NamesInv /\ ServersInv /\ PortsInv /\ CallsInv /\ EvictInv /\ HeldInv
  /\ OrderInv /\ WorkInv /\ ServedInv
  /\ ClosedServerHasNoSession /\ SettledIsStored

-----------------------------------------------------------------------------
\* Maps and records.

LEMMA InMap ==
  ASSUME NEW map, NEW r
  PROVE  r \in In(map) <=> r # None /\ \E i \in Id : map[i] = r
BY DEF In

LEMMA NoMapFacts ==
  /\ NoMap \in Slots
  /\ In(NoMap) = {}
  /\ \A i \in Id : NoMap[i] = None
BY DEF NoMap, Slots, In

LEMMA NoCallType ==
  /\ NoCall \in CallType
  /\ \A d \in Pcs : [NoCall EXCEPT !.pc = d] \in CallType
BY ListenersAssumption, NoMapFacts DEF NoCall, CallType, Pcs, Specs

LEMMA MadeFacts ==
  ASSUME TypeOK
  PROVE  /\ Made \in SUBSET Runtime
         /\ \A r \in Runtime : runtime[r].id \in Id => r \in Made
BY ListenersAssumption DEF Made

LEMMA MapTypes ==
  ASSUME TypeOK
  PROVE  /\ \A m \in 1 .. Len(maps) : maps[m] \in Slots
         /\ Current \in Slots
         /\ \A w \in Request : call[w].old <= Len(maps) => Old(w) \in Slots
         /\ \A map \in Slots : In(map) \subseteq Runtime
<1>1. \A m \in 1 .. Len(maps) : maps[m] \in Slots
  BY DEF TypeOK
<1>2. \A w \in Request : call[w] \in CallType
  BY DEF TypeOK
<1>3. \A w \in Request : call[w].old \in Nat
  BY <1>2 DEF CallType
<1>4. Current \in Slots
  BY <1>1, NoMapFacts DEF TypeOK, Current, MapOf
<1>5. \A w \in Request : call[w].old <= Len(maps) => Old(w) \in Slots
  BY <1>1, <1>3, NoMapFacts DEF TypeOK, Old, MapOf
<1>6. \A map \in Slots : In(map) \subseteq Runtime
  BY DEF In, Slots
<1>7. QED  BY <1>1, <1>4, <1>5, <1>6

\* A step of request w leaves the others alone.
Others(w) == \A v \in Request : v # w => call'[v] = call[v]

LEMMA CallStep ==
  ASSUME TypeOK, NEW w \in Request, NEW c \in CallType, Goes(w, c)
  PROVE  /\ call' \in [Request -> CallType]
         /\ call'[w] = c
         /\ Others(w)
BY DEF TypeOK, Goes, Others

\* A map that is read stays what it is unless it is changed.
LEMMA SameMaps ==
  ASSUME UNCHANGED <<maps, listeners>>
  PROVE  /\ Current' = Current
         /\ \A r : Published(r)' = Published(r)
         /\ \A w \in Request : call'[w].old = call[w].old => Old(w)' = Old(w)
BY DEF Current, MapOf, Published, Old

-----------------------------------------------------------------------------
\* The parts that do not tell how far a request in order has come.
Parts ==
  /\ TypeOK /\ NamesInv /\ ServersInv /\ PortsInv /\ CallsInv /\ EvictInv /\ HeldInv
  /\ WorkInv /\ ServedInv /\ ClosedServerHasNoSession

\* A request that touches no runtime and holds none.
PlainStep(w) ==
  /\ UNCHANGED <<maps, listeners, runtime, phase, serving, more, conn>>
  /\ Others(w)
  /\ call[w].pc \notin {"prepare", "evict", "restore", "swap"} /\ call[w].closing = {}
  /\ call'[w].pc \in {"save", "load", "read", "done"}
  /\ call'[w].todo = {} /\ call'[w].closing = {}
  /\ call'[w].old \in {call[w].old, 0} /\ call'[w].mine \in {call[w].mine, 0}
  /\ call'[w].prepared \in {call[w].prepared, NoMap}
  /\ call'[w].awaits \in {call[w].awaits, None}
  /\ unread' = unread /\ abandoned' = abandoned
  /\ overlapped => overlapped'
  /\ revived' = revived

LEMMA PlainKeeps ==
  ASSUME IInv, TypeOK', NEW w \in Request, PlainStep(w)
  PROVE  Parts'
<1>1. \A v \in Request : v # w => call'[v] = call[v]
  BY DEF PlainStep, Others
<1>2. /\ call'[w].pc \in {"save", "load", "read", "done"}
      /\ call'[w].todo = {} /\ call'[w].closing = {}
      /\ call'[w].old \in {call[w].old, 0} /\ call'[w].mine \in {call[w].mine, 0}
      /\ call'[w].prepared \in {call[w].prepared, NoMap}
      /\ call'[w].awaits \in {call[w].awaits, None}
  BY DEF PlainStep
<1>3. /\ UNCHANGED <<maps, listeners, runtime, phase, serving, more, conn, unread, abandoned, revived>>
      /\ overlapped => overlapped'
  BY DEF PlainStep
<1>4. call[w].pc \notin {"prepare", "evict", "restore", "swap"} /\ call[w].closing = {}
  BY DEF PlainStep
<1>5. /\ Current' = Current /\ Made' = Made
      /\ \A r : Published(r)' = Published(r)
      /\ \A v \in Request : v # w => Old(v)' = Old(v)
      /\ \A v \in Request : v # w =>
           \A i : Wanted(v, i)' = Wanted(v, i) /\ IsNext(v, i)' = IsNext(v, i)
  BY <1>1, <1>3, SameMaps DEF Made, Wanted, IsNext
<1>6. NamesInv'
  <2>1. Len(maps) \in Nat
    BY DEF IInv, TypeOK
  <2>2. QED  BY <1>1, <1>2, <1>3, <1>5, <2>1, NoMapFacts DEF IInv, NamesInv
<1>7. ServersInv' /\ PortsInv' /\ ClosedServerHasNoSession'
  BY <1>3, <1>5 DEF IInv, ServersInv, PortsInv, ClosedServerHasNoSession
<1>8. CallsInv'
  BY <1>1, <1>2, <1>5 DEF IInv, CallsInv
<1>9. EvictInv'
  BY <1>1, <1>2, <1>3, <1>5 DEF IInv, EvictInv
<1>10. HeldInv'
  BY <1>1, <1>2, <1>3, <1>4, <1>5 DEF IInv, HeldInv, Preparing
<1>11. WorkInv'
  BY <1>1, <1>2, <1>3, <1>5 DEF IInv, WorkInv, Regular, Preparing, Fits
<1>12. ServedInv'
  BY <1>1, <1>2, <1>3, <1>4, <1>5 DEF IInv, ServedInv, Regular
<1>13. QED
  BY <1>6, <1>7, <1>8, <1>9, <1>10, <1>11, <1>12 DEF Parts

\* What PlainStep needs to know of the record that request w goes to.
LEMMA PlainFrom ==
  ASSUME IInv, NEW w \in Request, NEW c \in CallType, Goes(w, c),
         call[w].pc \notin {"prepare", "evict", "restore", "swap"}, call[w].closing = {},
         \/ /\ c.old = call[w].old /\ c.mine = call[w].mine /\ c.prepared = call[w].prepared
            /\ c.todo = call[w].todo /\ c.closing = call[w].closing /\ c.awaits = call[w].awaits
         \/ /\ c.old = 0 /\ c.mine = 0 /\ c.prepared = NoMap
            /\ c.todo = {} /\ c.closing = {} /\ c.awaits = None,
         c.pc \in {"save", "load", "read", "done"},
         UNCHANGED <<maps, listeners, runtime, phase, serving, more, conn, unread, abandoned, revived>>,
         overlapped => overlapped'
  PROVE  PlainStep(w) /\ call' \in [Request -> CallType] /\ call'[w] = c
<1>1. call' \in [Request -> CallType] /\ call'[w] = c /\ Others(w)
  BY CallStep DEF IInv
<1>2. call[w].todo = {}
  BY DEF IInv, CallsInv, Preparing
<1>3. QED  BY <1>1, <1>2 DEF PlainStep

LEMMA NoCallFields ==
  /\ NoCall.old = 0 /\ NoCall.mine = 0 /\ NoCall.prepared = NoMap
  /\ NoCall.todo = {} /\ NoCall.closing = {} /\ NoCall.awaits = None
  /\ \A d \in Pcs :
       LET c == [NoCall EXCEPT !.pc = d]
       IN /\ c.pc = d /\ c.old = 0 /\ c.mine = 0 /\ c.prepared = NoMap
          /\ c.todo = {} /\ c.closing = {} /\ c.awaits = None
BY DEF NoCall

\* The requests that are not at work on the runtimes.
PlainActions(w) ==
  \/ BeginUpdate(w) \/ LoadListeners(w) \/ Rollback(w) \/ GivesUp(w) \/ Stopped(w)
  \/ \E base \in Base : SaveConfig(w, base)
  \/ \E i \in Id, spec \in Spec \cup {Off} : SaveListener(w, i, spec)

LEMMA PlainParts ==
  ASSUME IInv, NEW w \in Request, PlainActions(w)
  PROVE  Parts'
<1> USE DEF Manager, Servers, Ghosts, ghostVars
<1>1. call[w] \in CallType /\ stored \in [base : Base, specs : Specs] /\ TypeOK
  BY DEF IInv, TypeOK
<1>2. call[w].closing # {} => call[w].pc \in {"abort", "swap", "stop"}
  BY DEF IInv, CallsInv
<1>3. CASE BeginUpdate(w)
  <2> DEFINE c == [NoCall EXCEPT !.pc = "save", !.base = stored.base,
                                 !.previous = stored.specs, !.undo = TRUE]
  <2>0. stored.base \in Base /\ stored.specs \in Specs
    BY <1>1
  <2>1. /\ c \in CallType /\ c.pc = "save"
        /\ c.old = 0 /\ c.mine = 0 /\ c.prepared = NoMap
        /\ c.todo = {} /\ c.closing = {} /\ c.awaits = None
    <3>1. NoCall \in CallType
      BY NoCallType
    <3>2. /\ c \in CallType /\ c.pc = "save"
          /\ c.old = NoCall.old /\ c.mine = NoCall.mine /\ c.prepared = NoCall.prepared
          /\ c.todo = NoCall.todo /\ c.closing = NoCall.closing /\ c.awaits = NoCall.awaits
      BY <3>1, <2>0 DEF CallType, Pcs
    <3>3. QED  BY <3>2, NoCallFields
  <2>2. /\ Goes(w, c) /\ call[w].pc = "idle" /\ (overlapped => overlapped')
        /\ UNCHANGED <<stored, maps, listeners, runtime, phase, serving, more, conn, errors,
                       unread, abandoned, behind, revived>>
        /\ overlapped' \in BOOLEAN
    BY <1>3 DEF BeginUpdate, Begins
  <2> HIDE DEF c
  <2>3. PlainStep(w) /\ call' \in [Request -> CallType]
    BY <1>2, <2>1, <2>2, PlainFrom
  <2>4. TypeOK'
    BY <1>1, <2>2, <2>3 DEF TypeOK
  <2>5. QED  BY <2>3, <2>4, PlainKeeps
<1>4. CASE LoadListeners(w)
  <2> DEFINE c == [call[w] EXCEPT !.pc = "read", !.target = stored.specs]
  <2>1. /\ c \in CallType /\ c.pc = "read"
        /\ c.old = call[w].old /\ c.mine = call[w].mine /\ c.prepared = call[w].prepared
        /\ c.todo = call[w].todo /\ c.closing = call[w].closing /\ c.awaits = call[w].awaits
    BY <1>1 DEF CallType, Pcs
  <2>2. /\ Goes(w, c) /\ call[w].pc = "load"
        /\ UNCHANGED <<stored, maps, listeners, runtime, phase, serving, more, conn, errors,
                       unread, abandoned, overlapped, behind, revived>>
    BY <1>4 DEF LoadListeners
  <2> HIDE DEF c
  <2>3. PlainStep(w) /\ call' \in [Request -> CallType]
    BY <1>2, <2>1, <2>2, PlainFrom
  <2>4. TypeOK'
    BY <1>1, <2>2, <2>3 DEF TypeOK
  <2>5. QED  BY <2>3, <2>4, PlainKeeps
<1>5. CASE Rollback(w)
  <2> DEFINE c == [call[w] EXCEPT !.pc = "read", !.undo = FALSE, !.target = call[w].previous]
  <2>1. /\ c \in CallType /\ c.pc = "read"
        /\ c.old = call[w].old /\ c.mine = call[w].mine /\ c.prepared = call[w].prepared
        /\ c.todo = call[w].todo /\ c.closing = call[w].closing /\ c.awaits = call[w].awaits
    BY <1>1 DEF CallType, Pcs
  <2>2. /\ Goes(w, c) /\ call[w].pc = "abort" /\ call[w].closing = {}
        /\ UNCHANGED <<maps, listeners, runtime, phase, serving, more, conn, errors,
                       unread, abandoned, overlapped, behind, revived>>
        /\ stored' = [stored EXCEPT !.specs = call[w].previous]
    BY <1>5 DEF Rollback, AllClosed
  <2>2a. stored' \in [base : Base, specs : Specs]
    BY <1>1, <2>2 DEF CallType
  <2> HIDE DEF c
  <2>3. PlainStep(w) /\ call' \in [Request -> CallType]
    BY <1>2, <2>1, <2>2, PlainFrom
  <2>4. TypeOK'
    BY <1>1, <2>2, <2>2a, <2>3 DEF TypeOK
  <2>5. QED  BY <2>3, <2>4, PlainKeeps
<1>6. CASE GivesUp(w) \/ Stopped(w)
  <2> DEFINE c == [NoCall EXCEPT !.pc = "done"]
  <2>1. /\ c \in CallType /\ c.pc = "done"
        /\ c.old = 0 /\ c.mine = 0 /\ c.prepared = NoMap
        /\ c.todo = {} /\ c.closing = {} /\ c.awaits = None
    BY NoCallType, NoCallFields DEF Pcs
  <2>2. /\ Goes(w, c) /\ call[w].pc \in {"abort", "stop"} /\ call[w].closing = {}
        /\ UNCHANGED <<stored, maps, listeners, runtime, phase, serving, more, conn, errors,
                       unread, abandoned, overlapped, revived>>
        /\ behind' \in {TRUE, behind}
    BY <1>6 DEF GivesUp, Stopped, AllClosed
  <2> HIDE DEF c
  <2>3. PlainStep(w) /\ call' \in [Request -> CallType]
    BY <2>1, <2>2, PlainFrom
  <2>4. TypeOK'
    BY <1>1, <2>2, <2>3 DEF TypeOK
  <2>5. QED  BY <2>3, <2>4, PlainKeeps
<1>7. ASSUME NEW base \in Base, SaveConfig(w, base) PROVE Parts'
  <2> DEFINE c == [NoCall EXCEPT !.pc = "load", !.base = base]
  <2>1. /\ c \in CallType /\ c.pc = "load"
        /\ c.old = 0 /\ c.mine = 0 /\ c.prepared = NoMap
        /\ c.todo = {} /\ c.closing = {} /\ c.awaits = None
    <3>1. NoCall \in CallType
      BY NoCallType
    <3>2. /\ c \in CallType /\ c.pc = "load"
          /\ c.old = NoCall.old /\ c.mine = NoCall.mine /\ c.prepared = NoCall.prepared
          /\ c.todo = NoCall.todo /\ c.closing = NoCall.closing /\ c.awaits = NoCall.awaits
      BY <3>1 DEF CallType, Pcs
    <3>3. QED  BY <3>2, NoCallFields
  <2>2. /\ Goes(w, c) /\ call[w].pc = "idle" /\ (overlapped => overlapped')
        /\ UNCHANGED <<maps, listeners, runtime, phase, serving, more, conn, errors,
                       unread, abandoned, behind, revived>>
        /\ overlapped' \in BOOLEAN
        /\ stored' = [stored EXCEPT !.base = base]
    BY <1>7 DEF SaveConfig, Begins
  <2>2a. stored' \in [base : Base, specs : Specs]
    BY <1>1, <2>2
  <2> HIDE DEF c
  <2>3. PlainStep(w) /\ call' \in [Request -> CallType]
    BY <1>2, <2>1, <2>2, PlainFrom
  <2>4. TypeOK'
    BY <1>1, <2>2, <2>2a, <2>3 DEF TypeOK
  <2>5. QED  BY <2>3, <2>4, PlainKeeps
<1>8. ASSUME NEW i \in Id, NEW spec \in Spec \cup {Off}, SaveListener(w, i, spec) PROVE Parts'
  <2> DEFINE c == [call[w] EXCEPT !.pc = "load"]
  <2>1. /\ c \in CallType /\ c.pc = "load"
        /\ c.old = call[w].old /\ c.mine = call[w].mine /\ c.prepared = call[w].prepared
        /\ c.todo = call[w].todo /\ c.closing = call[w].closing /\ c.awaits = call[w].awaits
    BY <1>1 DEF CallType, Pcs
  <2>2. /\ Goes(w, c) /\ call[w].pc = "save"
        /\ UNCHANGED <<maps, listeners, runtime, phase, serving, more, conn, errors,
                       unread, abandoned, overlapped, behind, revived>>
        /\ stored' = [stored EXCEPT !.specs[i] = spec]
    BY <1>8 DEF SaveListener
  <2>2a. stored' \in [base : Base, specs : Specs]
    BY <1>1, <2>2 DEF Specs
  <2> HIDE DEF c
  <2>3. PlainStep(w) /\ call' \in [Request -> CallType]
    BY <1>2, <2>1, <2>2, PlainFrom
  <2>4. TypeOK'
    BY <1>1, <2>2, <2>2a, <2>3 DEF TypeOK
  <2>5. QED  BY <2>3, <2>4, PlainKeeps
<1>9. QED  BY <1>3, <1>4, <1>5, <1>6, <1>7, <1>8 DEF PlainActions

-----------------------------------------------------------------------------
\* The servers.

\* No map, no listener and no request changes.
LEMMA SessionStep ==
  ASSUME IInv, TypeOK', \A c \in Conn : conn'[c] # NoConn => conn'[c].at \in Made,
         ClosedServerHasNoSession',
         UNCHANGED <<maps, listeners, runtime, serving, more, call, unread, abandoned,
                     overlapped, revived>>,
         \A r \in Runtime : phase'[r] = phase[r] \/ phase[r] = "closing"
  PROVE  Parts'
<1>1. Current' = Current /\ Made' = Made
  BY DEF Current, MapOf, Made
<1>2. NamesInv'
  BY <1>1 DEF IInv, NamesInv
<1>3. ServersInv'
  BY <1>1 DEF IInv, ServersInv
<1>4. PortsInv' /\ CallsInv' /\ EvictInv' /\ HeldInv'
  BY <1>1 DEF IInv, PortsInv, CallsInv, EvictInv, HeldInv, IsNext, Wanted, Old, MapOf, Published
<1>5. WorkInv' /\ ServedInv'
  BY <1>1 DEF IInv, WorkInv, ServedInv, Regular, Fits, Wanted, Old, MapOf
<1>6. QED  BY <1>2, <1>3, <1>4, <1>5 DEF Parts

LEMMA ConnParts ==
  ASSUME IInv, NEW c \in Conn,
         Register(c) \/ Leaves(c) \/ \E r \in Runtime : Accept(r, c)
  PROVE  Parts'
<1> USE DEF Manager, Servers, Ghosts, ghostVars
<1>1. conn \in [Conn -> {NoConn} \cup [at : Runtime, live : BOOLEAN]]
  BY DEF IInv, TypeOK
<1>2. UNCHANGED <<stored, maps, listeners, runtime, phase, serving, more, call, errors, unread,
                  abandoned, overlapped, behind, revived>>
  BY DEF Register, Leaves, Becomes, Accept
<1>3. PICK d : conn' = [conn EXCEPT ![c] = d]
  BY DEF Register, Leaves, Becomes, Accept
<1>4. \/ d = NoConn
      \/ /\ d \in [at : Runtime, live : BOOLEAN] /\ d.at \in Made
         /\ d.live => ~runtime[d.at].canceled
  <2>1. CASE Leaves(c)
    BY <1>1, <1>3, <2>1 DEF Leaves, Becomes
  <2>2. CASE Register(c)
    <3>1. conn' = [conn EXCEPT ![c] = [conn[c] EXCEPT !.live = TRUE]]
          /\ conn[c] # NoConn /\ ~runtime[conn[c].at].canceled
      BY <2>2 DEF Register, Becomes
    <3>2. d = [conn[c] EXCEPT !.live = TRUE]
      BY <1>1, <1>3, <3>1
    <3>3. conn[c] \in [at : Runtime, live : BOOLEAN] /\ conn[c].at \in Made
      BY <1>1, <3>1 DEF IInv, NamesInv
    <3>4. QED  BY <3>1, <3>2, <3>3
  <2>3. ASSUME NEW r \in Runtime, Accept(r, c)
        PROVE  d \in [at : Runtime, live : BOOLEAN] /\ d.at \in Made /\ ~d.live
    <3>1. d = [at |-> r, live |-> FALSE] /\ r \in Made
      BY <1>1, <1>3, <2>3 DEF Accept, IInv, ServersInv
    <3>2. QED  BY <3>1
  <2>4. QED  BY <2>1, <2>2, <2>3
<1>5. conn' \in [Conn -> {NoConn} \cup [at : Runtime, live : BOOLEAN]]
      /\ conn'[c] = d /\ \A e \in Conn : e # c => conn'[e] = conn[e]
  BY <1>1, <1>3, <1>4
<1>6. TypeOK'
  BY <1>2, <1>5 DEF IInv, TypeOK
<1>7. \A e \in Conn : conn'[e] # NoConn => conn'[e].at \in Made
  BY <1>4, <1>5 DEF IInv, NamesInv
<1>8. ClosedServerHasNoSession'
  <2> SUFFICES ASSUME NEW r \in Runtime, phase[r] = "closed", d = [at |-> r, live |-> TRUE]
               PROVE  r \in abandoned
    BY <1>2, <1>5 DEF IInv, ClosedServerHasNoSession
  <2>1. r \in Made /\ ~runtime[r].canceled
    <3>1. d # NoConn
      BY DEF NoConn
    <3>2. QED  BY <1>4, <3>1
  <2>2. QED  BY <2>1 DEF IInv, ServersInv
<1>9. QED  BY <1>2, <1>6, <1>7, <1>8, SessionStep

LEMMA FinishCloseParts ==
  ASSUME IInv, NEW r \in Runtime, FinishClose(r)
  PROVE  Parts'
<1> USE DEF Manager, Servers, Ghosts, ghostVars
<1>1. /\ phase[r] = "closing" /\ phase' = [phase EXCEPT ![r] = "closed"]
      /\ \A c \in Conn : /\ conn'[c] \in {conn[c], NoConn}
                         /\ conn'[c] # [at |-> r, live |-> TRUE]
      /\ conn' \in [Conn -> {NoConn} \cup [at : Runtime, live : BOOLEAN]]
      /\ UNCHANGED <<stored, maps, listeners, runtime, serving, more, call, errors, unread,
                     abandoned, overlapped, behind, revived>>
  BY DEF FinishClose, NoConn, IInv, TypeOK
<1>2. TypeOK'
  BY <1>1 DEF IInv, TypeOK
<1>3. \A c \in Conn : conn'[c] # NoConn => conn'[c].at \in Made
  BY <1>1 DEF IInv, NamesInv
<1>4. ClosedServerHasNoSession'
  <2>1. \A q \in Runtime : [at |-> q, live |-> TRUE] # NoConn
    BY DEF NoConn
  <2>2. QED  BY <1>1, <2>1 DEF IInv, TypeOK, ClosedServerHasNoSession
<1>5. \A q \in Runtime : phase'[q] = phase[q] \/ phase[q] = "closing"
  BY <1>1 DEF IInv, TypeOK
<1>6. QED  BY <1>1, <1>2, <1>3, <1>4, <1>5, SessionStep

LEMMA AcceptFailsParts ==
  ASSUME IInv, NEW r \in Runtime, AcceptFails(r)
  PROVE  Parts'
<1> USE DEF Manager, Servers, Ghosts, ghostVars
<1>1. /\ serving[r] = "yes"
      /\ serving' = [serving EXCEPT ![r] = "ending"]
      /\ phase' = [phase EXCEPT ![r] = IF @ = "open" THEN "closing" ELSE @]
      /\ abandoned' = abandoned \cup {r} /\ errors' = errors + 1
      /\ UNCHANGED <<stored, maps, listeners, runtime, more, conn, call, unread,
                     overlapped, behind, revived>>
  BY DEF AcceptFails
<1>2. TypeOK'
  <2>1. phase' \in [Runtime -> {"open", "closing", "closed"}]
        /\ serving' \in [Runtime -> {"no", "yes", "ending", "over"}]
        /\ abandoned' \in SUBSET Runtime /\ errors' \in Nat
    BY <1>1 DEF IInv, TypeOK
  <2>2. QED  BY <1>1, <2>1 DEF IInv, TypeOK
<1>3. Current' = Current /\ Made' = Made /\ ~Regular'
  BY <1>1 DEF Current, MapOf, Made, Regular
<1>4. NamesInv' /\ PortsInv' /\ CallsInv' /\ EvictInv'
  BY <1>1, <1>3 DEF IInv, NamesInv, PortsInv, CallsInv, EvictInv, IsNext, Wanted, Old, MapOf
<1>5. ServersInv'
  BY <1>1, <1>3 DEF IInv, TypeOK, ServersInv
<1>6. HeldInv'
  BY <1>1, <1>3 DEF IInv, HeldInv, Published
<1>7. WorkInv' /\ ServedInv'
  BY <1>3 DEF WorkInv, ServedInv
<1>8. ClosedServerHasNoSession'
  BY <1>1 DEF IInv, TypeOK, ClosedServerHasNoSession
<1>9. QED  BY <1>2, <1>4, <1>5, <1>6, <1>7, <1>8 DEF Parts

LEMMA ServeLeavesParts ==
  ASSUME IInv, NEW r \in Runtime, ServeLeaves(r)
  PROVE  Parts'
<1> USE DEF Manager, Servers, Ghosts, ghostVars
<1>1. /\ serving' = [serving EXCEPT ![r] = IF more[r] > 0 THEN "yes" ELSE "over"]
      /\ more' = [more EXCEPT ![r] = IF @ > 0 THEN @ - 1 ELSE 0]
      /\ ~runtime[r].open \/ r \in abandoned
      /\ serving[r] # "no"
      /\ UNCHANGED <<stored, listeners, runtime, phase, conn, call, errors, unread, abandoned,
                     overlapped, behind, revived>>
  BY DEF ServeLeaves, IInv, ServersInv
<1>2. /\ maps' \in Seq(Slots) /\ Len(maps') = Len(maps)
      /\ \A m \in 1 .. Len(maps), i \in Id :
           \/ maps'[m][i] = maps[m][i]
           \/ maps[m][i] = r /\ maps'[m][i] = None
  <2>1. CASE r \in In(Current)
    <3> DEFINE new == [i \in Id |-> IF maps[listeners][i] = r THEN None ELSE maps[listeners][i]]
    <3>1. listeners # 0
      BY <2>1, NoMapFacts DEF Current, MapOf
    <3>2. listeners \in 1 .. Len(maps) /\ maps \in Seq(Slots) /\ maps[listeners] \in Slots
      BY <3>1 DEF IInv, TypeOK
    <3>3. new \in Slots
      BY <3>2 DEF Slots
    <3>4. maps' = [maps EXCEPT ![listeners] = new]
      BY <2>1 DEF ServeLeaves
    <3> HIDE DEF new
    <3>5. maps' \in Seq(Slots) /\ Len(maps') = Len(maps)
          /\ maps'[listeners] = new /\ \A m \in 1 .. Len(maps) : m # listeners => maps'[m] = maps[m]
      BY <3>2, <3>3, <3>4
    <3>6. QED  BY <3>5 DEF new
  <2>2. CASE r \notin In(Current)
    BY <2>2 DEF ServeLeaves, IInv, TypeOK
  <2>3. QED  BY <2>1, <2>2
<1>3. TypeOK'
  <2>1. serving' \in [Runtime -> {"no", "yes", "ending", "over"}] /\ more' \in [Runtime -> Nat]
    BY <1>1 DEF IInv, TypeOK
  <2>2. QED  BY <1>1, <1>2, <2>1 DEF IInv, TypeOK
<1>4. /\ \A i \in Id : Current'[i] = Current[i] \/ (Current[i] = r /\ Current'[i] = None)
      /\ \A w \in Request, i \in Id :
           Old(w)'[i] = Old(w)[i] \/ (Old(w)[i] = r /\ Old(w)'[i] = None)
      /\ \A q : Published(q)' => Published(q)
  <2>1. listeners \in 0 .. Len(maps) /\ \A w \in Request : call[w].old \in 0 .. Len(maps)
    BY DEF IInv, TypeOK, NamesInv, CallType
  <2>2. \A i \in Id : Current'[i] = Current[i] \/ (Current[i] = r /\ Current'[i] = None)
    BY <1>1, <1>2, <2>1 DEF Current, MapOf
  <2>3. \A w \in Request, i \in Id :
           Old(w)'[i] = Old(w)[i] \/ (Old(w)[i] = r /\ Old(w)'[i] = None)
    BY <1>1, <1>2, <2>1 DEF Old, MapOf
  <2>4. \A q : Published(q)' => Published(q)
    BY <1>2 DEF Published, In
  <2>5. QED  BY <2>2, <2>3, <2>4
<1>5. /\ Made' = Made /\ r # None
      /\ \A q : q # r /\ q \in In(Current) => q \in In(Current)'
      /\ In(Current)' \subseteq In(Current)
      /\ \A v \in Request : \A i : Wanted(v, i)' = Wanted(v, i) /\ IsNext(v, i)' = IsNext(v, i)
  BY <1>1, <1>4, ListenersAssumption DEF Made, In, Wanted, IsNext
<1>6. NamesInv'
  BY <1>1, <1>2, <1>5 DEF IInv, NamesInv
<1>7. ServersInv'
  BY <1>1, <1>5 DEF IInv, TypeOK, ServersInv
<1>8. PortsInv' /\ CallsInv' /\ ClosedServerHasNoSession'
  BY <1>1, <1>5 DEF IInv, PortsInv, CallsInv, ClosedServerHasNoSession
<1>9. EvictInv'
  BY <1>1, <1>4, <1>5 DEF IInv, EvictInv
<1>10. HeldInv'
  BY <1>1, <1>4, <1>5 DEF IInv, HeldInv
<1>11. ASSUME Regular, NEW w \in Request, NEW i \in Id, NEW q, Fits(w, i, q)
       PROVE  Fits(w, i, q)' /\ (q = r => FALSE)
  BY <1>1, <1>4, <1>5, <1>11 DEF Fits, Regular, IInv, TypeOK
<1>12. WorkInv'
  <2> SUFFICES ASSUME Regular PROVE WorkInv'
    BY <1>1 DEF WorkInv, Regular
  <2>1. \A w \in Request : call[w].pc = "swap" =>
          /\ \A i \in Id : Fits(w, i, Current[i])
          /\ call[w].closing \cap In(Current) = {}
    BY DEF IInv, WorkInv
  <2>2. \A w \in Request : call[w].pc = "swap" =>
          /\ \A i \in Id : Fits(w, i, Current[i])' /\ Current'[i] = Current[i]
    BY <1>4, <1>11, <2>1
  <2>3. QED  BY <1>1, <1>5, <1>11, <2>1, <2>2 DEF IInv, WorkInv
<1>13. ServedInv'
  BY <1>1, <1>5 DEF IInv, TypeOK, ServedInv, Regular
<1>14. QED
  BY <1>3, <1>6, <1>7, <1>8, <1>9, <1>10, <1>12, <1>13 DEF Parts

-----------------------------------------------------------------------------
\* The requests that work on the runtimes: what changes in runtime.

LEMMA ShutFacts ==
  ASSUME IInv, NEW q \in Made, Shut({q})
  PROVE  /\ runtime' \in [Runtime -> [id : Id \cup {None}, spec : Spec \cup {Off}, base : Base,
                                      open : BOOLEAN, canceled : BOOLEAN]]
         /\ phase' \in [Runtime -> {"open", "closing", "closed"}]
         /\ \A r \in Runtime : /\ r # q => runtime'[r] = runtime[r] /\ phase'[r] = phase[r]
                               /\ runtime'[r].id = runtime[r].id
                               /\ runtime'[r].spec = runtime[r].spec
                               /\ runtime'[r].base = runtime[r].base
                               /\ runtime'[r].open => r # q /\ runtime[r].open
         /\ ~runtime'[q].open /\ runtime'[q].canceled
         /\ phase'[q] = "closed" => phase[q] = "closed"
         /\ Made' = Made /\ q \in Runtime
<1>1. /\ runtime \in [Runtime -> [id : Id \cup {None}, spec : Spec \cup {Off}, base : Base,
                                  open : BOOLEAN, canceled : BOOLEAN]]
      /\ phase \in [Runtime -> {"open", "closing", "closed"}]
  BY DEF IInv, TypeOK
<1>2. q \in Runtime
  BY DEF Made
<1>3. /\ runtime' = [r \in Runtime |->
           IF r \in {q} THEN [runtime[r] EXCEPT !.open = FALSE, !.canceled = TRUE] ELSE runtime[r]]
      /\ phase' = [r \in Runtime |-> IF r \in {q} /\ phase[r] = "open" THEN "closing" ELSE phase[r]]
  BY DEF Shut
<1>4. \A r \in Runtime : r # q => runtime'[r] = runtime[r] /\ phase'[r] = phase[r]
  BY <1>3
<1>5. /\ runtime'[q] = [runtime[q] EXCEPT !.open = FALSE, !.canceled = TRUE]
      /\ phase'[q] = "closed" => phase[q] = "closed"
      /\ phase' \in [Runtime -> {"open", "closing", "closed"}]
  BY <1>1, <1>2, <1>3
<1>6. /\ runtime'[q].id = runtime[q].id /\ runtime'[q].spec = runtime[q].spec
      /\ runtime'[q].base = runtime[q].base /\ runtime'[q].open = FALSE
      /\ runtime'[q].canceled = TRUE
      /\ runtime'[q] \in [id : Id \cup {None}, spec : Spec \cup {Off}, base : Base,
                          open : BOOLEAN, canceled : BOOLEAN]
  BY <1>1, <1>2, <1>5
<1>7. runtime' \in [Runtime -> [id : Id \cup {None}, spec : Spec \cup {Off}, base : Base,
                                open : BOOLEAN, canceled : BOOLEAN]]
  BY <1>1, <1>3, <1>4, <1>6
<1>8. Made' = Made
  BY <1>4, <1>6 DEF Made
<1>9. QED  BY <1>2, <1>4, <1>5, <1>6, <1>7, <1>8

\* A runtime is closed; what is open stays where it is.
LEMMA ShutParts ==
  ASSUME IInv, NEW q \in Made, Shut({q}), UNCHANGED <<serving, more, conn, abandoned>>
  PROVE  ServersInv' /\ PortsInv' /\ ClosedServerHasNoSession'
<1>1. ServersInv'
  <2> SUFFICES ASSUME NEW r \in Runtime
               PROVE  /\ r \notin Made => ~runtime'[r].open /\ phase'[r] = "open" /\ serving'[r] = "no"
                      /\ r \in Made /\ ~runtime'[r].open => runtime'[r].canceled
                      /\ runtime'[r].open /\ r \notin abandoned =>
                           phase'[r] = "open" /\ serving'[r] \in {"no", "yes"}
    BY ShutFacts DEF ServersInv
  <2>1. CASE r = q
    BY <2>1, ShutFacts
  <2>2. CASE r # q
    <3>1. runtime'[r] = runtime[r] /\ phase'[r] = phase[r] /\ serving'[r] = serving[r]
      BY <2>2, ShutFacts
    <3>2. QED  BY <3>1 DEF IInv, ServersInv
  <2>3. QED  BY <2>1, <2>2
<1>2. PortsInv'
  BY ShutFacts DEF IInv, PortsInv
<1>3. ClosedServerHasNoSession'
  BY ShutFacts DEF IInv, ClosedServerHasNoSession
<1>4. QED  BY <1>1, <1>2, <1>3

LEMMA OpenedFacts ==
  ASSUME IInv, NEW i \in Id, NEW r \in Runtime, NEW spec \in Spec \cup {Off}, NEW base \in Base,
         Fresh(r), Opened(r, i, spec, base)
  PROVE  /\ runtime' \in [Runtime -> [id : Id \cup {None}, spec : Spec \cup {Off}, base : Base,
                                      open : BOOLEAN, canceled : BOOLEAN]]
         /\ \A q \in Runtime : q # r => runtime'[q] = runtime[q]
         /\ runtime'[r].id = i /\ runtime'[r].spec = spec /\ runtime'[r].base = base
         /\ runtime'[r].open
         /\ r \notin Made /\ ~runtime[r].open /\ Made' = Made \cup {r}
         /\ phase[r] = "open" /\ serving[r] = "no"
<1>1. runtime \in [Runtime -> [id : Id \cup {None}, spec : Spec \cup {Off}, base : Base,
                               open : BOOLEAN, canceled : BOOLEAN]]
  BY DEF IInv, TypeOK
<1>2. runtime' = [runtime EXCEPT ![r] =
        [id |-> i, spec |-> spec, base |-> base, open |-> TRUE, canceled |-> FALSE]]
  BY DEF Opened
<1>3. /\ runtime' \in [Runtime -> [id : Id \cup {None}, spec : Spec \cup {Off}, base : Base,
                                   open : BOOLEAN, canceled : BOOLEAN]]
      /\ \A q \in Runtime : q # r => runtime'[q] = runtime[q]
      /\ runtime'[r] = [id |-> i, spec |-> spec, base |-> base, open |-> TRUE, canceled |-> FALSE]
  BY <1>1, <1>2
<1>4. r \notin Made
  BY DEF Fresh
<1>5. ~runtime[r].open /\ phase[r] = "open" /\ serving[r] = "no"
  BY <1>4 DEF IInv, ServersInv
<1>6. Made' = Made \cup {r}
  <2>1. \A q \in Runtime : q # r => runtime'[q].id = runtime[q].id
    BY <1>3
  <2>2. runtime'[r].id = i /\ i # None
    BY <1>3, ListenersAssumption
  <2>3. QED  BY <2>1, <2>2 DEF Made
<1>7. QED  BY <1>3, <1>4, <1>5, <1>6

LEMMA OpenedParts ==
  ASSUME IInv, NEW i \in Id, NEW r \in Runtime, NEW spec \in Spec \cup {Off}, NEW base \in Base,
         Fresh(r), Opened(r, i, spec, base), ~Taken(spec.port),
         UNCHANGED <<phase, conn, abandoned>>,
         serving' = serving \/ serving' = [serving EXCEPT ![r] = "yes"]
  PROVE  ServersInv' /\ PortsInv' /\ ClosedServerHasNoSession'
<1>1. \A q \in Runtime : runtime[q].open => q \in Made /\ runtime[q].spec.port # spec.port
  BY DEF Taken, IInv, ServersInv
<1>2. PortsInv'
  <2> SUFFICES ASSUME NEW q \in Runtime, NEW s \in Runtime, runtime'[q].open, runtime'[s].open,
                      runtime'[q].spec.port = runtime'[s].spec.port
               PROVE  q = s
    BY DEF PortsInv
  <2>1. QED  BY <1>1, OpenedFacts DEF IInv, PortsInv
<1>3. ServersInv'
  <2>1. \A q \in Runtime : q # r => serving'[q] = serving[q]
    BY DEF IInv, TypeOK
  <2>2. serving'[r] \in {"no", "yes"}
    <3>1. serving[r] = "no" /\ serving \in [Runtime -> {"no", "yes", "ending", "over"}]
      BY OpenedFacts DEF IInv, TypeOK
    <3>2. QED  BY <3>1
  <2>3. QED  BY <2>1, <2>2, OpenedFacts DEF IInv, ServersInv
<1>4. ClosedServerHasNoSession'
  BY DEF IInv, ClosedServerHasNoSession
<1>5. QED  BY <1>2, <1>3, <1>4

-----------------------------------------------------------------------------
\* The requests that work on the runtimes: what they do to themselves.

LEMMA OthersFacts ==
  ASSUME NEW w \in Request, Others(w)
  PROVE  \A v \in Request : v # w =>
           /\ call'[v] = call[v]
           /\ \A i : Wanted(v, i)' = Wanted(v, i) /\ IsNext(v, i)' = IsNext(v, i)
BY DEF Others, Wanted, IsNext

\* Requests in order: no other is under way.
LEMMA Alone ==
  ASSUME IInv, NEW w \in Request, Regular, call[w].pc \notin Ended,
         NEW v \in Request, v # w
  PROVE  call[v].pc \notin Preparing \cup {"swap"}
BY DEF IInv, OrderInv, Ordered, Regular, Ended, Preparing

\* Only one listener is next.
LEMMA OneNext ==
  ASSUME IInv, NEW w \in Request, NEW i \in Id, NEW j \in Id, IsNext(w, i), IsNext(w, j)
  PROVE  i = j
BY ListenersAssumption DEF IsNext

LEMMA InPrepared ==
  ASSUME IInv, NEW w \in Request
  PROVE  /\ call[w] \in CallType
         /\ call[w].old \in 0 .. Len(maps) /\ Old(w) \in Slots /\ Current \in Slots
         /\ \A i \in Id : Current[i] # None => Current[i] \in Made /\ runtime[Current[i]].id = i
         /\ \A i \in Id : Old(w)[i] # None =>
              Old(w)[i] \in Made /\ runtime[Old(w)[i]].id = i /\ Published(Old(w)[i])
         /\ \A i \in Id : call[w].prepared[i] # None =>
              call[w].prepared[i] \in Made /\ runtime[call[w].prepared[i]].id = i
<1>1. call[w] \in CallType /\ TypeOK
  BY DEF IInv, TypeOK
<1>2. call[w].old \in 0 .. Len(maps) /\ listeners \in 0 .. Len(maps)
  BY <1>1 DEF IInv, NamesInv, CallType, TypeOK
<1>3. Old(w) \in Slots /\ Current \in Slots
  BY <1>1, <1>2, MapTypes
<1>4. ASSUME NEW r, NEW i \in Id, r # None, runtime[r].id = i, r \in Runtime \cup {None}
      PROVE  r \in Made
  BY <1>4, <1>1, MadeFacts
<1>5. \A i \in Id : Current[i] # None => runtime[Current[i]].id = i
  BY <1>2, NoMapFacts DEF IInv, NamesInv, Current, MapOf
<1>6. \A i \in Id : Old(w)[i] # None => runtime[Old(w)[i]].id = i /\ Published(Old(w)[i])
  BY <1>2, NoMapFacts DEF IInv, NamesInv, Old, MapOf, Published, In
<1>7. \A i \in Id : call[w].prepared[i] # None => runtime[call[w].prepared[i]].id = i
  BY DEF IInv, NamesInv
<1>8. \A i \in Id : {Current[i], Old(w)[i], call[w].prepared[i]} \subseteq Runtime \cup {None}
  BY <1>1, <1>3 DEF Slots, CallType
<1>9. QED  BY <1>1, <1>2, <1>3, <1>4, <1>5, <1>6, <1>7, <1>8

\* A step of request w that touches nothing but its own record.
LEMMA RecordKeeps ==
  ASSUME IInv, TypeOK', NEW w \in Request, Others(w),
         UNCHANGED <<maps, listeners, runtime, phase, serving, more, conn, unread, abandoned, overlapped>>,
         revived => revived',
         call'[w].old <= Len(maps), call'[w].mine <= Len(maps),
         \A i \in Id : call'[w].prepared[i] # None => runtime[call'[w].prepared[i]].id = i,
         call'[w].closing \subseteq Made,
         call'[w].awaits # None => call'[w].awaits \in Made,
         call'[w].closing # {} => call'[w].pc = "abort",
         call[w].closing = {}, call[w].pc # "swap", call'[w].pc # "swap",
         \A i \in call'[w].todo : /\ call'[w].pc \in Preparing
                                  /\ call'[w].prepared[i] = None
                                  /\ call'[w].base # Disabled /\ call'[w].target[i] # Off,
         call'[w].pc \in {"evict", "restore"} =>
           /\ call[w].pc \in {"evict", "restore"} /\ call'[w].todo = call[w].todo
           /\ call'[w].target = call[w].target /\ call'[w].old = call[w].old
           /\ call'[w].awaits = call[w].awaits,
         call[w].pc \in Preparing =>
           \A r \in In(call[w].prepared) : ~Published(r) =>
             \/ r \in call'[w].closing
             \/ call'[w].pc \in Preparing /\ r \in In(call'[w].prepared),
         Regular' /\ call'[w].pc \in Preparing =>
           \A i \in Id \ call'[w].todo : Fits(w, i, call[w].prepared[i])'
  PROVE  Parts'
<1>1. \A v \in Request : v # w =>
        /\ call'[v] = call[v]
        /\ \A i : Wanted(v, i)' = Wanted(v, i) /\ IsNext(v, i)' = IsNext(v, i)
  BY OthersFacts
<1>2. /\ Current' = Current /\ Made' = Made
      /\ \A r : Published(r)' = Published(r)
      /\ \A v \in Request : v # w => Old(v)' = Old(v)
      /\ call'[w].old = call[w].old => Old(w)' = Old(w)
  BY <1>1, SameMaps DEF Made
<1>3. NamesInv'
  BY <1>1, <1>2 DEF IInv, NamesInv
<1>4. ServersInv' /\ PortsInv' /\ ClosedServerHasNoSession'
  BY <1>2 DEF IInv, ServersInv, PortsInv, ClosedServerHasNoSession
<1>5. CallsInv'
  <2>1. /\ call'[w].pc \in {"evict", "restore"} => call'[w].awaits # None
        /\ \A i : Wanted(w, i)' = call'[w].target[i]
    BY DEF IInv, CallsInv, Wanted
  <2>2. QED  BY <1>1, <2>1 DEF IInv, CallsInv
<1>6. EvictInv'
  <2>1. call'[w].pc \in {"evict", "restore"} =>
          \A i : Wanted(w, i)' = Wanted(w, i) /\ IsNext(w, i)' = IsNext(w, i)
    BY DEF Wanted, IsNext
  <2>2. QED  BY <1>1, <1>2, <2>1 DEF IInv, EvictInv
<1>7. HeldInv'
  <2> SUFFICES ASSUME ~unread, NEW r \in Runtime, runtime[r].open, r \notin abandoned,
                      r \notin In(Current),
                      \A v \in Request : r \notin call'[v].closing
               PROVE  /\ ~Published(r)
                      /\ \E v \in Request : call'[v].pc \in Preparing /\ r \in In(call'[v].prepared)
    BY <1>2 DEF HeldInv
  <2>1. \A v \in Request : r \notin call[v].closing
    BY <1>1
  <2>2. PICK v \in Request : ~Published(r) /\ call[v].pc \in Preparing /\ r \in In(call[v].prepared)
    BY <2>1 DEF IInv, HeldInv
  <2>3. QED  BY <1>1, <2>2
<1>8. WorkInv'
  <2> SUFFICES ASSUME Regular' PROVE WorkInv'
    BY DEF WorkInv
  <2>1. Regular
    BY DEF Regular
  <2>2. ASSUME NEW v \in Request, v # w
        PROVE  /\ (call[v].pc)' \in Preparing =>
                    \A i \in Id \ (call[v].todo)' : Fits(v, i, call[v].prepared[i])'
               /\ (call[v].pc)' = "swap" =>
                    /\ \A i \in Id : Fits(v, i, Current[i])'
                    /\ (call[v].closing \cap In(Current))' = {}
    <3>1. call'[v] = call[v]
      BY <1>1, <2>2
    <3>2. /\ call[v].pc \in Preparing =>
                \A i \in Id \ call[v].todo : Fits(v, i, call[v].prepared[i])
          /\ call[v].pc = "swap" =>
                /\ \A i \in Id : Fits(v, i, Current[i])
                /\ call[v].closing \cap In(Current) = {}
      BY <2>1 DEF IInv, WorkInv
    <3>3. \A i \in Id : /\ Fits(v, i, call[v].prepared[i]) => Fits(v, i, call[v].prepared[i])'
                        /\ Fits(v, i, Current[i]) => Fits(v, i, Current[i])'
      BY <1>1, <1>2, <2>2, <3>1 DEF Fits
    <3>4. QED  BY <1>2, <3>1, <3>2, <3>3 DEF Preparing
  <2>3. /\ (call[w].pc)' # "swap"
        /\ (call[w].pc)' \in Preparing =>
             \A i \in Id \ (call[w].todo)' : Fits(w, i, call[w].prepared[i])'
    BY DEF Preparing
  <2>4. QED  BY <2>2, <2>3 DEF WorkInv
<1>9. ServedInv'
  BY <1>1, <1>2 DEF IInv, ServedInv, Regular
<1>10. QED
  BY <1>3, <1>4, <1>5, <1>6, <1>7, <1>8, <1>9 DEF Parts

LEMMA ReadOldParts ==
  ASSUME IInv, NEW w \in Request, ReadOld(w)
  PROVE  Parts'
<1> USE DEF Manager, Servers, Ghosts, ghostVars
<1> DEFINE todo == IF call[w].base = Disabled THEN {} ELSE {i \in Id : call[w].target[i] # Off}
           c == [call[w] EXCEPT !.pc = "prepare", !.old = listeners, !.prepared = NoMap, !.todo = todo]
<1>1. call[w] \in CallType /\ TypeOK /\ listeners \in Nat
  BY DEF IInv, TypeOK
<1>1a. /\ todo \subseteq Id
       /\ \A i \in todo : call[w].base # Disabled /\ call[w].target[i] # Off
       /\ \A i \in Id \ todo : call[w].base = Disabled \/ call[w].target[i] = Off
  OBVIOUS
<1>1b. Goes(w, c) 
  BY DEF ReadOld
<1> HIDE DEF todo
<1>2. /\ c \in CallType /\ c.pc = "prepare" /\ c.old = listeners /\ c.prepared = NoMap
      /\ c.todo = todo /\ c.mine = call[w].mine /\ c.closing = call[w].closing
      /\ c.awaits = call[w].awaits /\ c.base = call[w].base /\ c.target = call[w].target
  BY <1>1, <1>1a, NoMapFacts DEF CallType, Pcs
<1>3. /\ Goes(w, c) /\ call[w].pc = "read"
      /\ UNCHANGED <<stored, maps, listeners, runtime, phase, serving, more, conn, errors,
                     unread, abandoned, overlapped, behind, revived>>
  BY <1>1b DEF ReadOld
<1>4. /\ \A i \in todo : i \in Id /\ c.base # Disabled /\ c.target[i] # Off
      /\ \A i \in Id \ todo : c.base = Disabled \/ c.target[i] = Off
  BY <1>1a, <1>2
<1> HIDE DEF c
<1>5. call' \in [Request -> CallType] /\ call'[w] = c /\ Others(w)
  BY <1>1, <1>2, <1>3, CallStep
<1>6. TypeOK'
  BY <1>1, <1>3, <1>5 DEF TypeOK
<1>7. /\ c.old <= Len(maps) /\ c.mine <= Len(maps)
      /\ c.closing = {} /\ call[w].closing = {}
      /\ c.awaits # None => c.awaits \in Made
  <2>1. listeners \in 0 .. Len(maps) /\ Len(maps) \in Nat
    BY DEF IInv, TypeOK
  <2>2. QED  BY <1>2, <1>3, <2>1 DEF IInv, NamesInv, CallsInv
<1>8. \A i \in Id \ c.todo : Fits(w, i, call[w].prepared[i])'
  BY <1>2, <1>4, <1>5, NoMapFacts DEF Fits, Wanted
<1>9. QED
  BY <1>2, <1>3, <1>4, <1>5, <1>6, <1>7, <1>8, NoMapFacts, RecordKeeps DEF Preparing

LEMMA ReuseParts ==
  ASSUME IInv, NEW w \in Request, NEW i \in Id, Reuse(w, i)
  PROVE  Parts'
<1> USE DEF Manager, Servers, Ghosts, ghostVars
<1> DEFINE q == Old(w)[i]
           c == [call[w] EXCEPT !.todo = @ \ {i}, !.prepared[i] = q]
<1>1. /\ call[w] \in CallType /\ TypeOK
      /\ q # None /\ q \in Made /\ runtime[q].id = i /\ q \in Runtime
      /\ runtime[q].spec = Wanted(w, i) /\ runtime[q].base = call[w].base
      /\ i \in call[w].todo /\ call[w].pc = "prepare"
  BY InPrepared DEF IInv, TypeOK, Reuse, Reusable, IsNext, Made
<1>2. /\ c \in CallType /\ c.pc = "prepare" /\ c.old = call[w].old
      /\ c.prepared = [call[w].prepared EXCEPT ![i] = q]
      /\ c.todo = call[w].todo \ {i} /\ c.mine = call[w].mine /\ c.closing = call[w].closing
      /\ c.awaits = call[w].awaits /\ c.base = call[w].base /\ c.target = call[w].target
  BY <1>1 DEF CallType, Slots
<1>3. /\ Goes(w, c)
      /\ revived' = (revived \/ ~runtime[q].open)
      /\ UNCHANGED <<stored, maps, listeners, runtime, phase, serving, more, conn, errors,
                     unread, abandoned, overlapped, behind>>
  BY DEF Reuse
<1> HIDE DEF c, q
<1>4. call' \in [Request -> CallType] /\ call'[w] = c /\ Others(w)
  BY <1>1, <1>2, <1>3, CallStep
<1>5. revived \in BOOLEAN /\ runtime[q].open \in BOOLEAN
  BY <1>1 DEF TypeOK
<1>6. TypeOK'
  <2>1. revived' \in BOOLEAN
    BY <1>3, <1>5
  <2>2. QED  BY <1>1, <1>3, <1>4, <2>1 DEF TypeOK
<1>7. /\ c.prepared[i] = q /\ \A j \in Id : j # i => c.prepared[j] = call[w].prepared[j]
      /\ call[w].prepared[i] = None
      /\ call[w].base # Disabled /\ Wanted(w, i) # Off
      /\ c.closing = {}
      /\ \A j \in c.todo : j \in call[w].todo /\ j \in Id /\ j # i
  BY <1>1, <1>2 DEF CallType, Slots, IInv, CallsInv
<1>8. /\ c.old <= Len(maps) /\ c.mine <= Len(maps)
      /\ \A j \in Id : c.prepared[j] # None => runtime[c.prepared[j]].id = j
      /\ c.awaits # None => c.awaits \in Made
  BY <1>1, <1>2, <1>7 DEF IInv, NamesInv
<1>9. \A j \in c.todo : /\ c.pc \in Preparing /\ c.prepared[j] = None
                        /\ c.base # Disabled /\ c.target[j] # Off
  <2>1. \A j \in call[w].todo : call[w].prepared[j] = None /\ call[w].base # Disabled
                                /\ call[w].target[j] # Off
    BY DEF IInv, CallsInv, Wanted
  <2>2. QED  BY <1>1, <1>2, <1>7, <2>1 DEF Preparing
<1>10. \A r \in In(call[w].prepared) : r \in In(c.prepared)
  BY <1>7 DEF In
<1>11. ASSUME Regular', NEW j \in Id \ c.todo
       PROVE  Fits(w, j, call[w].prepared[j])'
  <2>0. Regular /\ runtime[q].open
    BY <1>3, <1>5, <1>11 DEF Regular
  <2>1. /\ \A k \in Id : Wanted(w, k)' = Wanted(w, k)
        /\ Old(w)' = Old(w) /\ (call[w].base)' = call[w].base
    BY <1>2, <1>3, <1>4 DEF Wanted, Old, MapOf
  <2>2. CASE j = i
    <3>1. listeners = call[w].old /\ \A v \in Request : call[v].pc # "swap"
      <4>1. call[w].pc \notin Ended /\ call[w].pc # "swap"
        BY <1>1 DEF Ended
      <4>2. QED  BY <1>1, <2>0, <4>1, Alone DEF IInv, OrderInv, Ordered, Regular, Preparing
    <3>2. q \in In(Current)
      BY <1>1, <3>1 DEF In, Current, Old, q
    <3>3. serving[q] = "yes"
      BY <1>1, <2>0, <3>1, <3>2 DEF IInv, ServedInv
    <3>4. QED  BY <1>1, <1>3, <1>4, <1>7, <2>0, <2>1, <2>2, <3>3 DEF Fits
  <2>3. CASE j # i
    <3>1. Fits(w, j, call[w].prepared[j])
      BY <1>1, <1>2, <1>11, <2>0, <2>3 DEF IInv, WorkInv, Preparing
    <3>2. QED  BY <1>3, <1>4, <1>7, <2>1, <2>3, <3>1 DEF Fits
  <2>4. QED  BY <2>2, <2>3
<1>12. QED
  BY <1>1, <1>2, <1>3, <1>4, <1>5, <1>6, <1>7, <1>8, <1>9, <1>10, <1>11, RecordKeeps DEF Preparing

\* The error path of request w.
LEMMA AbortedFacts ==
  ASSUME IInv, NEW w \in Request, call[w].pc \in Preparing
  PROVE  LET c == Aborted(w)
         IN /\ c \in CallType /\ c.pc = "abort" /\ c.todo = {} /\ c.awaits = None
            /\ c.old = call[w].old /\ c.mine = call[w].mine /\ c.prepared = call[w].prepared
            /\ c.closing \subseteq Made
            /\ \A r \in In(call[w].prepared) : Published(r) \/ r \in c.closing
            /\ c.old <= Len(maps) /\ c.mine <= Len(maps)
            /\ \A i \in Id : c.prepared[i] # None => runtime[c.prepared[i]].id = i
<1> DEFINE R == {call[w].prepared[i] : i \in {j \in Id : Old(w)[j] # call[w].prepared[j]}} \ {None}
<1>1. call[w] \in CallType /\ R \subseteq Made /\ Made \subseteq Runtime
  BY InPrepared DEF Made
<1>2. \A r \in In(call[w].prepared) : Published(r) \/ r \in R
  BY InPrepared DEF In
<1>3. Aborted(w) = [call[w] EXCEPT !.pc = "abort", !.todo = {}, !.awaits = None, !.closing = R]
  BY DEF Aborted
<1> HIDE DEF R
<1>4. LET c == Aborted(w)
      IN /\ c \in CallType /\ c.pc = "abort" /\ c.todo = {} /\ c.awaits = None
         /\ c.old = call[w].old /\ c.mine = call[w].mine /\ c.prepared = call[w].prepared
         /\ c.closing = R
  BY <1>1, <1>3 DEF CallType, Pcs
<1>5. /\ call[w].old <= Len(maps) /\ call[w].mine <= Len(maps)
      /\ \A i \in Id : call[w].prepared[i] # None => runtime[call[w].prepared[i]].id = i
  BY DEF IInv, NamesInv
<1>6. QED  BY <1>1, <1>2, <1>4, <1>5

LEMMA AbortParts ==
  ASSUME IInv, NEW w \in Request, NEW i \in Id, ListenFails(w, i) \/ RestoreFails(w, i)
  PROVE  Parts'
<1> USE DEF Manager, Servers, Ghosts, ghostVars
<1> DEFINE c == Aborted(w)
<1>1. /\ Goes(w, c) /\ call[w].pc \in {"prepare", "restore"} /\ errors' \in {errors, errors + 1}
      /\ UNCHANGED <<stored, maps, listeners, runtime, phase, serving, more, conn,
                     unread, abandoned, overlapped, behind, revived>>
  BY DEF ListenFails, RestoreFails, Fails
<1>2. /\ c \in CallType /\ c.pc = "abort" /\ c.todo = {} /\ c.awaits = None
      /\ c.old = call[w].old /\ c.mine = call[w].mine /\ c.prepared = call[w].prepared
      /\ c.closing \subseteq Made
      /\ \A r \in In(call[w].prepared) : Published(r) \/ r \in c.closing
      /\ c.old <= Len(maps) /\ c.mine <= Len(maps)
      /\ \A j \in Id : c.prepared[j] # None => runtime[c.prepared[j]].id = j
  BY <1>1, AbortedFacts DEF Preparing
<1> HIDE DEF c
<1>3. call' \in [Request -> CallType] /\ call'[w] = c /\ Others(w)
  BY <1>1, <1>2, CallStep DEF IInv
<1>4. TypeOK'
  BY <1>1, <1>3 DEF IInv, TypeOK
<1>5. call[w].closing = {}
  BY <1>1 DEF IInv, CallsInv
<1>6. QED
  BY <1>1, <1>2, <1>3, <1>4, <1>5, RecordKeeps DEF Preparing

LEMMA ListenFailsAgainParts ==
  ASSUME IInv, NEW w \in Request, NEW i \in Id, ListenFailsAgain(w, i)
  PROVE  Parts'
<1> USE DEF Manager, Servers, Ghosts, ghostVars
<1> DEFINE c == [call[w] EXCEPT !.pc = "restore"]
<1>1. /\ Goes(w, c) /\ call[w].pc = "evict" /\ errors' \in {errors, errors + 1}
      /\ UNCHANGED <<stored, maps, listeners, runtime, phase, serving, more, conn,
                     unread, abandoned, overlapped, behind, revived>>
  BY DEF ListenFailsAgain, Fails
<1>2. /\ c \in CallType /\ c.pc = "restore" /\ c.todo = call[w].todo /\ c.awaits = call[w].awaits
      /\ c.old = call[w].old /\ c.mine = call[w].mine /\ c.prepared = call[w].prepared
      /\ c.closing = call[w].closing /\ c.target = call[w].target /\ c.base = call[w].base
  <2>1. call[w] \in CallType
    BY DEF IInv, TypeOK
  <2>2. QED  BY <2>1 DEF CallType, Pcs
<1> HIDE DEF c
<1>3. call' \in [Request -> CallType] /\ call'[w] = c /\ Others(w)
  BY <1>1, <1>2, CallStep DEF IInv
<1>4. TypeOK'
  BY <1>1, <1>3 DEF IInv, TypeOK
<1>5. /\ call[w].closing = {} /\ call[w].todo \subseteq Id
      /\ \A j \in call[w].todo : /\ call[w].prepared[j] = None /\ call[w].base # Disabled
                                 /\ call[w].target[j] # Off
  BY <1>1 DEF IInv, CallsInv, TypeOK, CallType, Wanted
<1>6. /\ call[w].old <= Len(maps) /\ call[w].mine <= Len(maps)
      /\ \A j \in Id : call[w].prepared[j] # None => runtime[call[w].prepared[j]].id = j
      /\ call[w].awaits # None => call[w].awaits \in Made
  BY DEF IInv, NamesInv
<1>7. ASSUME Regular', NEW j \in Id \ call[w].todo
      PROVE  Fits(w, j, call[w].prepared[j])'
  <2>1. Fits(w, j, call[w].prepared[j])
    BY <1>1, <1>7 DEF IInv, WorkInv, Preparing, Regular
  <2>2. QED
    BY <1>1, <1>2, <1>3, <2>1 DEF Fits, Wanted, Old, MapOf
<1>8. QED
  BY <1>1, <1>2, <1>3, <1>4, <1>5, <1>6, <1>7, RecordKeeps DEF Preparing

-----------------------------------------------------------------------------
\* The requests that close a runtime, or open one.

LEMMA ShutNames ==
  ASSUME IInv, NEW w \in Request, Others(w), NEW q \in Made, Shut({q}),
         UNCHANGED <<maps, conn>>,
         call'[w].old = call[w].old, call'[w].mine = call[w].mine,
         call'[w].prepared = call[w].prepared,
         call'[w].closing \subseteq Made, call'[w].awaits = q
  PROVE  NamesInv'
<1>1. Made' = Made /\ \A r \in Runtime : runtime'[r].id = runtime[r].id
  BY ShutFacts
<1>2. \A m \in 1 .. Len(maps), j \in Id : maps[m][j] \in Runtime \cup {None}
  BY MapTypes DEF IInv, Slots
<1>3. \A v \in Request, j \in Id : call[v].prepared[j] \in Runtime \cup {None}
  BY DEF IInv, TypeOK, CallType, Slots
<1>4. \A m \in 1 .. Len(maps), j \in Id : maps[m][j] # None => runtime'[maps[m][j]].id = j
  BY <1>1, <1>2 DEF IInv, NamesInv
<1>5. \A v \in Request :
        /\ call[v].old <= Len(maps) /\ call[v].mine <= Len(maps)
        /\ \A j \in Id : call[v].prepared[j] # None => runtime'[call[v].prepared[j]].id = j
        /\ call[v].closing \subseteq Made
        /\ call[v].awaits # None => call[v].awaits \in Made
  BY <1>1, <1>3 DEF IInv, NamesInv
<1>6. \A d \in Conn : conn[d] # NoConn => conn[d].at \in Made
  BY DEF IInv, NamesInv
<1>7. \A v \in Request : v # w => call'[v] = call[v]
  BY DEF Others
<1>8. QED
  BY <1>1, <1>4, <1>5, <1>6, <1>7 DEF NamesInv

LEMMA EvictParts ==
  ASSUME IInv, NEW w \in Request, NEW i \in Id, Evict(w, i)
  PROVE  Parts'
<1> USE DEF Manager, Servers, Ghosts, ghostVars
<1> DEFINE q == Old(w)[i]
           c == [call[w] EXCEPT !.pc = "evict", !.awaits = q]
<1>1. /\ Goes(w, c) /\ call[w].pc = "prepare" /\ errors' \in {errors, errors + 1}
      /\ Shut({q}) /\ IsNext(w, i) /\ q # None /\ runtime[q].spec.port = Wanted(w, i).port
      /\ UNCHANGED <<stored, maps, listeners, serving, more, conn,
                     unread, abandoned, overlapped, behind, revived>>
  BY DEF Evict, Fails, OldHasPort
<1>2. q \in Made /\ q \in Runtime /\ runtime[q].id = i /\ call[w] \in CallType /\ TypeOK
  BY <1>1, InPrepared DEF Made, IInv
<1>3. /\ c \in CallType /\ c.pc = "evict" /\ c.todo = call[w].todo /\ c.awaits = q
      /\ c.old = call[w].old /\ c.mine = call[w].mine /\ c.prepared = call[w].prepared
      /\ c.closing = call[w].closing /\ c.target = call[w].target /\ c.base = call[w].base
  BY <1>2 DEF CallType, Pcs
<1> HIDE DEF c
<1>4. call' \in [Request -> CallType] /\ call'[w] = c /\ Others(w)
  BY <1>1, <1>2, <1>3, CallStep
<1>5. /\ \A v \in Request : v # w => call'[v] = call[v]
      /\ \A v \in Request : /\ \A j : Wanted(v, j)' = Wanted(v, j) /\ IsNext(v, j)' = IsNext(v, j)
                            /\ Old(v)' = Old(v)
      /\ Current' = Current /\ \A r : Published(r)' = Published(r)
  BY <1>1, <1>3, <1>4, OthersFacts, SameMaps DEF Wanted, IsNext
<1> HIDE DEF q
<1>6. TypeOK'
  BY <1>1, <1>2, <1>4, ShutFacts DEF TypeOK
<1>7. NamesInv'
  <2>1. call[w].closing \subseteq Made
    BY DEF IInv, NamesInv
  <2>2. QED  BY <1>1, <1>2, <1>3, <1>4, <2>1, ShutNames
<1>8. ServersInv' /\ PortsInv' /\ ClosedServerHasNoSession'
  BY <1>1, <1>2, ShutParts
<1>9. CallsInv'
  BY <1>1, <1>3, <1>4, <1>5 DEF IInv, CallsInv, Preparing
<1>10. EvictInv'
  <2>1. \A r \in Runtime : runtime'[r].spec = runtime[r].spec
    BY <1>1, <1>2, ShutFacts
  <2>2. \A v \in Request, j \in Id : /\ Old(v)[j] \in Runtime \cup {None}
                                     /\ call[v].awaits \in Runtime \cup {None}
    BY <1>2, InPrepared DEF Slots, CallType
  <2>3. \A j \in Id : IsNext(w, j) => j = i
    BY <1>1, OneNext
  <2>4. \A v \in Request : call[v].old = call[w].old => Old(v)[i] = q
    BY DEF Old, q
  <2>5. ASSUME NEW v \in Request, call'[v].pc \in {"evict", "restore"}, NEW j \in Id, IsNext(v, j)
        PROVE  /\ runtime[call'[v].awaits].spec.port = Wanted(v, j).port
               /\ ~unread /\ Old(v)[j] # None => runtime[Old(v)[j]].spec.port = Wanted(v, j).port
               /\ call'[v].awaits \in Runtime
    <3>1. CASE v = w
      BY <1>1, <1>2, <1>3, <1>4, <2>3, <2>5, <3>1 DEF q
    <3>2. CASE v # w
      <4>1. call[v].pc \in {"evict", "restore"} /\ call'[v].awaits = call[v].awaits
        BY <1>5, <2>5, <3>2
      <4>2. call[v].awaits # None
        BY <4>1 DEF IInv, CallsInv
      <4>3. QED  BY <2>2, <2>5, <4>1, <4>2 DEF IInv, EvictInv
    <3>3. QED  BY <3>1, <3>2
  <2>6. ASSUME ~unread, NEW v \in Request, NEW u \in Request, NEW j \in Id,
               call'[v].pc \in {"evict", "restore"}, IsNext(v, j),
               call'[u].pc \in {"evict", "restore"}, IsNext(u, j), call[u].old = call[v].old
        PROVE  Wanted(u, j).port = Wanted(v, j).port
    <3>1. CASE v = w \/ u = w
      <4>1. j = i /\ Old(v)[i] = q /\ Old(u)[i] = q
        BY <2>3, <2>4, <2>6, <3>1
      <4>2. QED  BY <1>1, <2>5, <2>6, <4>1
    <3>2. CASE v # w /\ u # w
      BY <1>5, <2>6, <3>2 DEF IInv, EvictInv
    <3>3. QED  BY <3>1, <3>2
  <2>7. \A v \in Request : (call[v].old)' = call[v].old
    BY <1>3, <1>4, <1>5
  <2>8. QED
    BY <1>1, <1>5, <2>1, <2>2, <2>5, <2>6, <2>7 DEF EvictInv
<1>11. HeldInv'
  <2>1. \A r \in Runtime : runtime'[r].open => runtime[r].open
    BY <1>1, <1>2, ShutFacts
  <2>2. \A v \in Request : /\ (call[v].closing)' = call[v].closing
                           /\ (call[v].prepared)' = call[v].prepared
                           /\ call[v].pc \in Preparing => (call[v].pc)' \in Preparing
    BY <1>3, <1>4, <1>5 DEF Preparing
  <2>3. QED  BY <1>1, <1>5, <2>1, <2>2 DEF IInv, HeldInv
<1>12. WorkInv'
  <2> SUFFICES ASSUME Regular PROVE WorkInv'
    BY <1>1 DEF WorkInv, Regular
  <2>1. ASSUME NEW j \in Id \ call[w].todo
        PROVE  Fits(w, j, call[w].prepared[j])'
    <3>1. Fits(w, j, call[w].prepared[j]) /\ j # i
      BY <1>1, <2>1 DEF IInv, WorkInv, Preparing, IsNext
    <3>2. call[w].prepared[j] # None => call[w].prepared[j] # q
      BY <1>2, <2>1, <3>1, InPrepared
    <3>3. call[w].prepared[j] \in Runtime \cup {None}
      BY <1>2, <2>1 DEF CallType, Slots
    <3>4. call[w].prepared[j] # None =>
            runtime'[call[w].prepared[j]] = runtime[call[w].prepared[j]]
      BY <1>1, <1>2, <3>2, <3>3, ShutFacts
    <3>5. QED  BY <1>1, <1>3, <1>4, <1>5, <3>1, <3>4 DEF Fits
  <2>2. \A v \in Request : v # w => call'[v].pc \notin Preparing \cup {"swap"}
    BY <1>1, <1>5, Alone DEF Ended
  <2>3. QED  BY <1>3, <1>4, <2>1, <2>2 DEF WorkInv
<1>13. ServedInv'
  <2>1. \A r \in Runtime : runtime'[r].open => runtime[r].open
    BY <1>1, <1>2, ShutFacts
  <2>2. \A v \in Request : call[v].pc = "swap" => call'[v].pc = "swap"
    BY <1>1, <1>5
  <2>3. QED  BY <1>1, <1>5, <2>1, <2>2 DEF IInv, ServedInv, Regular
<1>14. QED
  BY <1>6, <1>7, <1>8, <1>9, <1>10, <1>11, <1>12, <1>13 DEF Parts

LEMMA CloseNextParts ==
  ASSUME IInv, NEW w \in Request, NEW q \in Runtime, CloseNext(w, q)
  PROVE  Parts'
<1> USE DEF Manager, Servers, Ghosts, ghostVars
<1> DEFINE c == [call[w] EXCEPT !.closing = @ \ {q}, !.awaits = q]
<1>1. /\ Goes(w, c) /\ call[w].pc \in {"abort", "swap", "stop"} /\ q \in call[w].closing
      /\ Shut({q})
      /\ UNCHANGED <<stored, maps, listeners, serving, more, conn, errors,
                     unread, abandoned, overlapped, behind, revived>>
  BY DEF CloseNext
<1>2. q \in Made /\ call[w] \in CallType /\ TypeOK
  BY <1>1 DEF IInv, NamesInv, TypeOK
<1>3. /\ c \in CallType /\ c.pc = call[w].pc /\ c.todo = call[w].todo /\ c.awaits = q
      /\ c.old = call[w].old /\ c.mine = call[w].mine /\ c.prepared = call[w].prepared
      /\ c.closing = call[w].closing \ {q} /\ c.target = call[w].target /\ c.base = call[w].base
  BY <1>2 DEF CallType
<1> HIDE DEF c
<1>4. call' \in [Request -> CallType] /\ call'[w] = c /\ Others(w)
  BY <1>1, <1>2, <1>3, CallStep
<1>5. /\ \A v \in Request : v # w => call'[v] = call[v]
      /\ \A v \in Request : /\ \A j : Wanted(v, j)' = Wanted(v, j) /\ IsNext(v, j)' = IsNext(v, j)
                            /\ Old(v)' = Old(v)
      /\ Current' = Current /\ \A r : Published(r)' = Published(r)
  BY <1>1, <1>3, <1>4, OthersFacts, SameMaps DEF Wanted, IsNext
<1>6. TypeOK'
  BY <1>1, <1>2, <1>4, ShutFacts DEF TypeOK
<1>7. NamesInv'
  <2>1. c.closing \subseteq Made
    BY <1>3 DEF IInv, NamesInv
  <2>2. QED  BY <1>1, <1>2, <1>3, <1>4, <2>1, ShutNames
<1>8. ServersInv' /\ PortsInv' /\ ClosedServerHasNoSession'
  BY <1>1, <1>2, ShutParts
<1>9. CallsInv'
  BY <1>1, <1>3, <1>4, <1>5 DEF IInv, CallsInv, Preparing
<1>10. EvictInv'
  <2>1. \A r \in Runtime : runtime'[r].spec = runtime[r].spec
    BY <1>1, <1>2, ShutFacts
  <2>2. \A v \in Request, j \in Id : /\ Old(v)[j] \in Runtime \cup {None}
                                     /\ call[v].awaits \in Runtime \cup {None}
    BY <1>2, InPrepared DEF Slots, CallType
  <2>3. \A v \in Request : call'[v].pc \in {"evict", "restore"} =>
          v # w /\ call'[v] = call[v] /\ call[v].awaits # None
    BY <1>1, <1>3, <1>4, <1>5 DEF IInv, CallsInv
  <2>4. QED
    BY <1>1, <1>5, <2>1, <2>2, <2>3 DEF IInv, EvictInv
<1>11. HeldInv'
  <2>1. \A r \in Runtime : runtime'[r].open => runtime[r].open /\ r # q
    BY <1>1, <1>2, ShutFacts
  <2>2. \A v \in Request : /\ \A r : r # q /\ r \in call[v].closing => r \in (call[v].closing)'
                           /\ (call[v].prepared)' = call[v].prepared
                           /\ (call[v].pc)' = call[v].pc
    BY <1>3, <1>4, <1>5
  <2>3. QED  BY <1>1, <1>5, <2>1, <2>2 DEF IInv, HeldInv
<1>12. WorkInv'
  <2> SUFFICES ASSUME Regular PROVE WorkInv'
    BY <1>1 DEF WorkInv, Regular
  <2>1. \A v \in Request : v # w => call'[v].pc \notin Preparing \cup {"swap"}
    BY <1>1, <1>5, Alone DEF Ended
  <2>2. call'[w].pc \notin Preparing /\ call'[w].closing = call[w].closing \ {q}
    BY <1>1, <1>3, <1>4 DEF Preparing
  <2>3. ASSUME call[w].pc = "swap", NEW j \in Id
        PROVE  Fits(w, j, Current[j])'
    <3>1. Fits(w, j, Current[j]) /\ q \notin In(Current)
      BY <1>1, <2>3 DEF IInv, WorkInv
    <3>2. Current[j] \in Runtime \cup {None}
      BY InPrepared DEF Slots
    <3>3. Current[j] # None => Current[j] # q /\ runtime'[Current[j]] = runtime[Current[j]]
      BY <1>1, <1>2, <3>1, <3>2, ShutFacts DEF In
    <3>4. QED  BY <1>1, <1>3, <1>4, <1>5, <3>1, <3>3 DEF Fits
  <2>4. call[w].pc = "swap" => call[w].closing \cap In(Current) = {}
    BY DEF IInv, WorkInv
  <2>5. QED  BY <1>3, <1>4, <1>5, <2>1, <2>2, <2>3, <2>4 DEF WorkInv, In
<1>13. ServedInv'
  <2>1. \A r \in Runtime : runtime'[r].open => runtime[r].open
    BY <1>1, <1>2, ShutFacts
  <2>2. \A v \in Request : call'[v].pc = call[v].pc
    BY <1>3, <1>4, <1>5
  <2>3. QED  BY <1>1, <1>5, <2>1, <2>2 DEF IInv, ServedInv, Regular
<1>14. QED
  BY <1>6, <1>7, <1>8, <1>9, <1>10, <1>11, <1>12, <1>13 DEF Parts

LEMMA ListenParts ==
  ASSUME IInv, NEW w \in Request, NEW i \in Id, NEW r \in Runtime, Listen(w, i, r)
  PROVE  Parts'
<1> USE DEF Manager, Servers, Ghosts, ghostVars
<1> DEFINE c == [call[w] EXCEPT !.pc = "prepare", !.todo = @ \ {i}, !.prepared[i] = r]
<1>1. /\ Goes(w, c) /\ call[w].pc \in {"prepare", "evict"} /\ IsNext(w, i)
      /\ Fresh(r) /\ ~Taken(Wanted(w, i).port) /\ Opened(r, i, Wanted(w, i), call[w].base)
      /\ UNCHANGED <<stored, maps, listeners, phase, serving, more, conn, errors,
                     unread, abandoned, overlapped, behind, revived>>
  BY DEF Listen
<1>2. call[w] \in CallType /\ TypeOK /\ i \in call[w].todo
  BY <1>1 DEF IInv, TypeOK, IsNext
<1>3. /\ c \in CallType /\ c.pc = "prepare" /\ c.todo = call[w].todo \ {i}
      /\ c.prepared = [call[w].prepared EXCEPT ![i] = r] /\ c.awaits = call[w].awaits
      /\ c.old = call[w].old /\ c.mine = call[w].mine
      /\ c.closing = call[w].closing /\ c.target = call[w].target /\ c.base = call[w].base
  BY <1>2 DEF CallType, Pcs, Slots
<1> HIDE DEF c
<1>4. call' \in [Request -> CallType] /\ call'[w] = c /\ Others(w)
  BY <1>1, <1>2, <1>3, CallStep
<1>5. /\ \A v \in Request : v # w => call'[v] = call[v]
      /\ \A v \in Request, j \in Id : Wanted(v, j)' = Wanted(v, j)
      /\ \A v \in Request : v # w => \A j \in Id : IsNext(v, j)' = IsNext(v, j)
      /\ \A v \in Request : Old(v)' = Old(v)
      /\ Current' = Current /\ \A q : Published(q)' = Published(q)
  BY <1>1, <1>3, <1>4, OthersFacts, SameMaps DEF Wanted
<1>6. Wanted(w, i) \in Spec \cup {Off} /\ call[w].base \in Base
  BY <1>2 DEF CallType, Specs, Wanted
<1>7. /\ \A q \in Runtime : q # r => runtime'[q] = runtime[q]
      /\ runtime'[r].id = i /\ runtime'[r].spec = Wanted(w, i) /\ runtime'[r].base = call[w].base
      /\ runtime'[r].open
      /\ r \notin Made /\ Made' = Made \cup {r} /\ serving[r] = "no"
  BY <1>1, <1>6, OpenedFacts
<1>8. /\ c.prepared[i] = r /\ \A j \in Id : j # i => c.prepared[j] = call[w].prepared[j]
      /\ call[w].prepared[i] = None
      /\ call[w].base # Disabled /\ Wanted(w, i) # Off
      /\ call[w].closing = {}
  BY <1>1, <1>2, <1>3 DEF CallType, Slots, IInv, CallsInv
<1>9. \A q \in Made : q \in Runtime /\ q # r /\ runtime'[q] = runtime[q]
  BY <1>7 DEF Made
<1>10. r # None
  BY ListenersAssumption
<1>11. TypeOK'
  <2>1. runtime' \in [Runtime -> [id : Id \cup {None}, spec : Spec \cup {Off}, base : Base,
                                  open : BOOLEAN, canceled : BOOLEAN]]
    BY <1>1, <1>6, OpenedFacts
  <2>2. QED  BY <1>1, <1>2, <1>4, <2>1 DEF TypeOK
<1>12. NamesInv'
  <2>1. \A m \in 1 .. Len(maps), j \in Id : maps[m][j] # None =>
          maps[m][j] \in Made /\ runtime[maps[m][j]].id = j
    <3>1. \A m \in 1 .. Len(maps), j \in Id : maps[m][j] \in Runtime \cup {None}
      BY <1>2, MapTypes DEF Slots
    <3>2. QED  BY <1>2, <3>1, MadeFacts DEF IInv, NamesInv
  <2>2. \A v \in Request, j \in Id : (call[v].prepared[j])' # None =>
          runtime'[call'[v].prepared[j]].id = j
    BY <1>4, <1>5, <1>7, <1>8, <1>9, InPrepared
  <2>3. \A v \in Request : /\ call'[v].old <= Len(maps) /\ call'[v].mine <= Len(maps)
                           /\ call'[v].closing \subseteq Made
                           /\ call'[v].awaits # None => call'[v].awaits \in Made
    BY <1>3, <1>4, <1>5 DEF IInv, NamesInv
  <2>4. \A d \in Conn : conn[d] # NoConn => conn[d].at \in Made
    BY DEF IInv, NamesInv
  <2>5. QED  BY <1>1, <1>7, <1>9, <2>1, <2>2, <2>3, <2>4 DEF NamesInv
<1>13. ServersInv' /\ PortsInv' /\ ClosedServerHasNoSession'
  BY <1>1, <1>6, OpenedParts
<1>14. CallsInv'
  <2>1. \A j \in call[w].todo : call[w].prepared[j] = None /\ call[w].base # Disabled
                                /\ Wanted(w, j) # Off /\ j \in Id
    BY <1>2 DEF IInv, CallsInv, CallType
  <2>2. \A j \in c.todo : j \in Id /\ c.prepared[j] = None /\ c.base # Disabled
                          /\ Wanted(w, j)' # Off
    BY <1>3, <1>5, <1>8, <2>1
  <2>3. \A v \in Request : v # w => \A j \in call[v].todo : j \in Id
    BY <1>2 DEF TypeOK, CallType
  <2>4. ASSUME NEW v \in Request, v # w
        PROVE  /\ (call[v].closing)' # {} => (call[v].pc)' \in {"abort", "swap", "stop"}
               /\ \A j \in (call[v].todo)' :
                    /\ (call[v].pc)' \in Preparing /\ (call[v].prepared[j])' = None
                    /\ (call[v].base)' # Disabled /\ Wanted(v, j)' # Off
               /\ (call[v].pc)' \in {"evict", "restore"} => (call[v].awaits)' # None
               /\ (call[v].pc)' = "swap" => (call[v].mine)' # 0
    <3>1. call'[v] = call[v] /\ \A j \in call[v].todo : Wanted(v, j)' = Wanted(v, j)
      BY <1>5, <2>3, <2>4
    <3>2. QED  BY <3>1, <2>4 DEF IInv, CallsInv, Preparing
  <2>5. /\ c.closing = {} /\ c.pc = "prepare" /\ call'[w] = c
    BY <1>3, <1>4, <1>8
  <2>6. QED  BY <2>2, <2>4, <2>5 DEF CallsInv, Preparing
<1>15. EvictInv'
  <2>1. ASSUME NEW v \in Request, call'[v].pc \in {"evict", "restore"}
        PROVE  /\ v # w /\ call'[v] = call[v]
               /\ runtime'[call[v].awaits] = runtime[call[v].awaits]
               /\ \A j \in Id : Old(v)[j] # None => runtime'[Old(v)[j]] = runtime[Old(v)[j]]
    BY <1>3, <1>4, <1>5, <1>9, <2>1, InPrepared DEF IInv, CallsInv, NamesInv
  <2>2. QED
    BY <1>1, <1>5, <2>1 DEF IInv, EvictInv
<1>16. HeldInv'
  <2> SUFFICES ASSUME ~unread, NEW q \in Runtime, runtime'[q].open, q \notin abandoned
               PROVE  \/ q \in In(Current)
                      \/ \E v \in Request : q \in (call[v].closing)'
                      \/ /\ ~Published(q)
                         /\ \E v \in Request : (call[v].pc)' \in Preparing
                                               /\ q \in In((call[v].prepared)')
    BY <1>1, <1>5 DEF HeldInv, In
  <2>1. CASE q = r
    <3>1. ~Published(r)
      <4>1. \A m \in 1 .. Len(maps), j \in Id : maps[m][j] \in Runtime \cup {None}
        BY <1>2, MapTypes DEF Slots
      <4>2. \A m \in 1 .. Len(maps), j \in Id : maps[m][j] # None => maps[m][j] \in Made
        BY <1>2, <4>1, MadeFacts DEF IInv, NamesInv
      <4>3. QED  BY <1>7, <4>2 DEF Published, In
    <3>2. (call[w].pc)' \in Preparing /\ r \in In((call[w].prepared)')
      BY <1>3, <1>4, <1>8, <1>10 DEF Preparing, In
    <3>3. QED  BY <2>1, <3>1, <3>2
  <2>2. CASE q # r
    <3>1. runtime[q].open
      BY <1>7, <2>2
    <3>2. \A v \in Request : /\ (call[v].closing)' = call[v].closing
                             /\ call[v].pc \in Preparing => (call[v].pc)' \in Preparing
                             /\ q \in In(call[v].prepared) => q \in In((call[v].prepared)')
      <4>1. \A v \in Request : v # w => call'[v] = call[v]
        BY <1>5
      <4>2. /\ (call[w].closing)' = call[w].closing /\ (call[w].pc)' \in Preparing
            /\ (call[w].prepared)' = c.prepared
        BY <1>3, <1>4 DEF Preparing
      <4>3. q \in In(call[w].prepared) => q \in In(c.prepared)
        BY <1>8 DEF In
      <4>4. QED  BY <4>1, <4>2, <4>3 DEF In
    <3>3. QED  BY <3>1, <3>2 DEF IInv, HeldInv
  <2>3. QED  BY <2>1, <2>2
<1>17. WorkInv'
  <2> SUFFICES ASSUME Regular PROVE WorkInv'
    BY <1>1 DEF WorkInv, Regular
  <2>1. \A v \in Request : v # w => call'[v].pc \notin Preparing \cup {"swap"}
    BY <1>1, <1>5, Alone DEF Ended
  <2>2. ASSUME NEW j \in Id \ c.todo
        PROVE  Fits(w, j, call[w].prepared[j])'
    <3>0. (call[w].base)' = call[w].base /\ (call[w].prepared)' = c.prepared
      BY <1>3, <1>4
    <3>1. CASE j = i
      <4>1. Old(w)[i] # r
        BY <1>7, <1>10, InPrepared
      <4>2. Fits(w, i, r)'
        BY <1>1, <1>5, <1>7, <1>8, <1>10, <3>0, <4>1 DEF Fits
      <4>3. QED  BY <1>8, <3>0, <3>1, <4>2 DEF Fits
    <3>2. CASE j # i
      <4>1. Fits(w, j, call[w].prepared[j])
        BY <1>1, <1>3, <2>2, <3>2 DEF IInv, WorkInv, Preparing
      <4>2. call[w].prepared[j] # None =>
              runtime'[call[w].prepared[j]] = runtime[call[w].prepared[j]]
        BY <1>9, <2>2, InPrepared
      <4>3. QED  BY <1>1, <1>5, <1>8, <3>0, <3>2, <4>1, <4>2 DEF Fits
    <3>3. QED  BY <3>1, <3>2
  <2>3. QED  BY <1>3, <1>4, <2>1, <2>2 DEF WorkInv
<1>18. ServedInv'
  <2>1. r \notin In(Current)
    BY <1>7, InPrepared DEF In
  <2>2. In(Current) \subseteq Runtime
    BY <1>2, MapTypes
  <2>3. \A q \in In(Current) : runtime'[q] = runtime[q]
    BY <1>7, <2>1, <2>2
  <2>4. \A v \in Request : call[v].pc = "swap" => call'[v].pc = "swap"
    BY <1>1, <1>5
  <2>5. QED  BY <1>1, <1>5, <2>3, <2>4 DEF IInv, ServedInv, Regular
<1>19. QED
  BY <1>11, <1>12, <1>13, <1>14, <1>15, <1>16, <1>17, <1>18 DEF Parts

\* restoreRuntime writes into the current map, or makes one.
LEMMA RestoredMaps ==
  ASSUME IInv, NEW w \in Request, NEW i \in Id, NEW r \in Runtime, restoreRuntime(w, i, r),
         \A v \in Request : (call[v].old)' = call[v].old
  PROVE  /\ maps' \in Seq(Slots) /\ listeners' \in 0 .. Len(maps') /\ Len(maps) <= Len(maps')
         /\ \A m \in 1 .. Len(maps'), j \in Id :
              \/ j = i /\ maps'[m][j] = r
              \/ maps'[m][j] = None
              \/ m \in 1 .. Len(maps) /\ maps'[m][j] = maps[m][j]
         /\ (Current[i])' = r /\ \A j \in Id : j # i => (Current[j])' = Current[j]
         /\ \A v \in Request, j \in Id :
              \/ (Old(v)[j])' = Old(v)[j]
              \/ j = i /\ call[v].old = listeners /\ (Old(v)[j])' = r
<1>1. /\ maps \in Seq(Slots) /\ listeners \in 0 .. Len(maps) /\ Len(maps) \in Nat
      /\ \A v \in Request : call[v].old \in 0 .. Len(maps)
      /\ \A m \in 1 .. Len(maps) : maps[m] \in Slots
  BY InPrepared, MapTypes DEF IInv, TypeOK
<1>2. CASE listeners = 0
  <2> DEFINE new == [NoMap EXCEPT ![i] = r]
  <2>1. maps' = Append(maps, new) /\ listeners' = Len(maps) + 1
    BY <1>2 DEF restoreRuntime
  <2>2. new \in Slots /\ new[i] = r /\ \A j \in Id : j # i => new[j] = None
    BY DEF Slots, NoMap
  <2> HIDE DEF new
  <2>3. /\ maps' \in Seq(Slots) /\ Len(maps') = Len(maps) + 1
        /\ maps'[Len(maps) + 1] = new
        /\ \A m \in 1 .. Len(maps) : maps'[m] = maps[m]
    BY <1>1, <2>1, <2>2, AppendProperties
  <2>4. Current = NoMap /\ Current' = new
    BY <1>1, <1>2, <2>1, <2>3 DEF Current, MapOf
  <2>5. \A v \in Request : Old(v)' = Old(v)
    BY <1>1, <2>3 DEF Old, MapOf
  <2>6. \A m \in 1 .. Len(maps'), j \in Id :
          \/ j = i /\ maps'[m][j] = r
          \/ maps'[m][j] = None
          \/ m \in 1 .. Len(maps) /\ maps'[m][j] = maps[m][j]
    <3>1. \A m \in 1 .. Len(maps') : m \in 1 .. Len(maps) \/ m = Len(maps) + 1
      BY <1>1, <2>3
    <3>2. QED  BY <2>2, <2>3, <3>1
  <2>7. QED  BY <1>1, <2>1, <2>2, <2>3, <2>4, <2>5, <2>6, NoMapFacts
<1>3. CASE listeners # 0
  <2> DEFINE new == [maps[listeners] EXCEPT ![i] = r]
  <2>1. maps' = [maps EXCEPT ![listeners] = new] /\ listeners' = listeners
    BY <1>3 DEF restoreRuntime
  <2>2. listeners \in 1 .. Len(maps) /\ maps[listeners] \in Slots
    BY <1>1, <1>3
  <2>3. new \in Slots /\ new[i] = r /\ \A j \in Id : j # i => new[j] = maps[listeners][j]
    BY <2>2 DEF Slots
  <2> HIDE DEF new
  <2>4. /\ maps' \in Seq(Slots) /\ Len(maps') = Len(maps)
        /\ maps'[listeners] = new
        /\ \A m \in 1 .. Len(maps) : m # listeners => maps'[m] = maps[m]
    BY <1>1, <2>1, <2>2, <2>3
  <2>5. Current = maps[listeners] /\ Current' = new
    BY <1>3, <2>1, <2>4 DEF Current, MapOf
  <2>6. \A v \in Request : call[v].old # listeners => Old(v)' = Old(v)
    BY <1>1, <2>4 DEF Old, MapOf
  <2>7. \A v \in Request : call[v].old = listeners => Old(v)' = new /\ Old(v) = maps[listeners]
    BY <1>3, <2>1, <2>4 DEF Old, MapOf
  <2>8. QED  BY <1>1, <2>1, <2>2, <2>3, <2>4, <2>5, <2>6, <2>7
<1>4. QED  BY <1>2, <1>3

LEMMA restoreRuntimeParts ==
  ASSUME IInv, NEW w \in Request, NEW i \in Id, NEW r \in Runtime, restoreRuntime(w, i, r)
  PROVE  Parts'
<1> USE DEF Manager, Servers, Ghosts, ghostVars
<1> DEFINE c == Aborted(w)
           spec == runtime[call[w].awaits].spec
           base == runtime[call[w].awaits].base
<1>1. /\ Goes(w, c) /\ call[w].pc = "restore" /\ IsNext(w, i)
      /\ Fresh(r) /\ ~Taken(Wanted(w, i).port) /\ Opened(r, i, spec, base)
      /\ serving' = [serving EXCEPT ![r] = "yes"]
      /\ unread' = (unread \/ listeners # call[w].old)
      /\ UNCHANGED <<stored, phase, more, conn, errors, abandoned, overlapped, behind, revived>>
  BY DEF restoreRuntime
<1>2. call[w] \in CallType /\ TypeOK /\ unread \in BOOLEAN
  BY DEF IInv, TypeOK
<1>3. /\ c \in CallType /\ c.pc = "abort" /\ c.todo = {} /\ c.awaits = None
      /\ c.old = call[w].old /\ c.mine = call[w].mine /\ c.prepared = call[w].prepared
      /\ c.closing \subseteq Made
      /\ \A q \in In(call[w].prepared) : Published(q) \/ q \in c.closing
      /\ c.old <= Len(maps) /\ c.mine <= Len(maps)
      /\ \A j \in Id : c.prepared[j] # None => runtime[c.prepared[j]].id = j
  BY <1>1, AbortedFacts DEF Preparing
<1> HIDE DEF c
<1>4. call' \in [Request -> CallType] /\ call'[w] = c /\ Others(w)
  BY <1>1, <1>2, <1>3, CallStep
<1>5. /\ \A v \in Request : v # w => call'[v] = call[v]
      /\ \A v \in Request : v # w => \A j \in Id : Wanted(v, j)' = Wanted(v, j)
                                                   /\ IsNext(v, j)' = IsNext(v, j)
      /\ \A v \in Request : (call[v].old)' = call[v].old
  BY <1>3, <1>4, OthersFacts
<1>6. /\ maps' \in Seq(Slots) /\ listeners' \in 0 .. Len(maps') /\ Len(maps) <= Len(maps')
      /\ \A m \in 1 .. Len(maps'), j \in Id :
           \/ j = i /\ maps'[m][j] = r
           \/ maps'[m][j] = None
           \/ m \in 1 .. Len(maps) /\ maps'[m][j] = maps[m][j]
      /\ (Current[i])' = r /\ \A j \in Id : j # i => (Current[j])' = Current[j]
      /\ \A v \in Request, j \in Id :
           \/ (Old(v)[j])' = Old(v)[j]
           \/ j = i /\ call[v].old = listeners /\ (Old(v)[j])' = r
  BY <1>5, RestoredMaps
<1>7. /\ call[w].awaits \in Runtime /\ spec \in Spec \cup {Off} /\ base \in Base
      /\ spec.port = Wanted(w, i).port
  BY <1>1, <1>2 DEF IInv, CallsInv, EvictInv, TypeOK, CallType
<1> HIDE DEF spec, base
<1>8. /\ \A q \in Runtime : q # r => runtime'[q] = runtime[q]
      /\ runtime'[r].id = i /\ runtime'[r].spec = spec /\ runtime'[r].open
      /\ r \notin Made /\ Made' = Made \cup {r} /\ serving[r] = "no"
  BY <1>1, <1>7, OpenedFacts
<1>9. \A q \in Made : q \in Runtime /\ q # r /\ runtime'[q] = runtime[q]
  BY <1>8 DEF Made
<1>10. r # None
  BY ListenersAssumption
<1>11. TypeOK'
  <2>1. runtime' \in [Runtime -> [id : Id \cup {None}, spec : Spec \cup {Off}, base : Base,
                                  open : BOOLEAN, canceled : BOOLEAN]]
    BY <1>1, <1>7, OpenedFacts
  <2>2. serving' \in [Runtime -> {"no", "yes", "ending", "over"}] /\ unread' \in BOOLEAN
    BY <1>1, <1>2 DEF TypeOK
  <2>3. QED  BY <1>1, <1>2, <1>4, <1>6, <2>1, <2>2 DEF TypeOK
<1>12. \A m \in 1 .. Len(maps), j \in Id : maps[m][j] # None =>
         maps[m][j] \in Made /\ runtime[maps[m][j]].id = j
  <2>1. \A m \in 1 .. Len(maps), j \in Id : maps[m][j] \in Runtime \cup {None}
    BY <1>2, MapTypes DEF Slots
  <2>2. QED  BY <1>2, <2>1, MadeFacts DEF IInv, NamesInv
<1>13. NamesInv'
  <2>1. \A m \in 1 .. Len(maps'), j \in Id : maps'[m][j] # None => runtime'[maps'[m][j]].id = j
    BY <1>6, <1>8, <1>9, <1>12
  <2>2. \A v \in Request : (call[v].prepared)' = call[v].prepared
    BY <1>3, <1>4, <1>5
  <2>3. \A v \in Request, j \in Id : (call[v].prepared[j])' # None =>
          (runtime[call[v].prepared[j]])'.id = j
    BY <1>9, <2>2, InPrepared
  <2>4. \A v \in Request : /\ (call[v].old)' <= Len(maps') /\ (call[v].mine)' <= Len(maps')
                           /\ (call[v].closing)' \subseteq Made
                           /\ (call[v].awaits)' # None => (call[v].awaits)' \in Made
    <3>1. \A v \in Request : /\ (call[v].old)' <= Len(maps) /\ (call[v].mine)' <= Len(maps)
                             /\ (call[v].closing)' \subseteq Made
                             /\ (call[v].awaits)' # None => (call[v].awaits)' \in Made
      BY <1>3, <1>4, <1>5 DEF IInv, NamesInv
    <3>2. \A v \in Request : call'[v].old \in Nat /\ call'[v].mine \in Nat
      BY <1>4 DEF CallType
    <3>3. Len(maps) \in Nat /\ Len(maps') \in Nat
      BY <1>2, <1>6 DEF TypeOK
    <3>4. QED  BY <1>6, <3>1, <3>2, <3>3
  <2>5. \A d \in Conn : conn[d] # NoConn => conn[d].at \in Made
    BY DEF IInv, NamesInv
  <2>6. QED  BY <1>1, <1>8, <2>1, <2>3, <2>4, <2>5 DEF NamesInv
<1>14. ServersInv' /\ PortsInv' /\ ClosedServerHasNoSession'
  BY <1>1, <1>7, OpenedParts
<1>15. CallsInv'
  <2>1. \A v \in Request : v # w => \A j \in call[v].todo : j \in Id
    BY <1>2 DEF TypeOK, CallType
  <2>2. QED  BY <1>3, <1>4, <1>5, <2>1 DEF IInv, CallsInv
<1>16. EvictInv'
  <2>1. ASSUME NEW v \in Request, (call[v].pc)' \in {"evict", "restore"}
        PROVE  /\ v # w /\ call'[v] = call[v]
               /\ runtime'[call[v].awaits] = runtime[call[v].awaits]
               /\ \A j \in Id : Old(v)[j] # None => runtime'[Old(v)[j]] = runtime[Old(v)[j]]
    BY <1>3, <1>4, <1>5, <1>9, <2>1, InPrepared DEF IInv, CallsInv, NamesInv
  <2>2. ASSUME ~unread', NEW v \in Request, (call[v].pc)' \in {"evict", "restore"},
               NEW j \in Id, IsNext(v, j), (Old(v)[j])' # None
        PROVE  (runtime[Old(v)[j]])'.spec.port = Wanted(v, j).port
    <3>1. ~unread /\ listeners = call[w].old
      BY <1>1, <1>2, <2>2
    <3>2. CASE (Old(v)[j])' = Old(v)[j]
      BY <2>1, <2>2, <3>1, <3>2 DEF IInv, EvictInv
    <3>3. CASE j = i /\ call[v].old = listeners /\ (Old(v)[j])' = r
      <4>1. Wanted(v, i).port = Wanted(w, i).port
        BY <1>1, <2>1, <2>2, <3>1, <3>3 DEF IInv, EvictInv
      <4>2. QED  BY <1>7, <1>8, <3>3, <4>1
    <3>4. QED  BY <1>6, <3>2, <3>3
  <2>3. ~unread' => ~unread
    BY <1>1, <1>2
  <2>4. QED  BY <1>5, <2>1, <2>2, <2>3 DEF IInv, EvictInv
<1>17. HeldInv'
  <2> SUFFICES ASSUME ~unread, listeners = call[w].old,
                      NEW q \in Runtime, runtime'[q].open, q \notin abandoned, q # r
               PROVE  \/ q \in In(Current')
                      \/ \E v \in Request : q \in (call[v].closing)'
                      \/ /\ ~Published(q)
                         /\ \E v \in Request : (call[v].pc)' \in Preparing
                                               /\ q \in In((call[v].prepared)')
    <3>1. r \in In(Current')
      BY <1>6, <1>10 DEF In
    <3>2. \A q : q # r /\ Published(q)' => Published(q)
      BY <1>6 DEF Published, In
    <3>3. QED  BY <1>1, <1>2, <3>1, <3>2 DEF HeldInv, In
  <2>1. runtime[q].open
    BY <1>8
  <2>2. CASE q \in In(Current)
    <3>1. PICK j \in Id : Current[j] = q /\ q # None
      BY <2>2 DEF In
    <3>2. j # i
      <4>1. SUFFICES ASSUME j = i PROVE FALSE
        OBVIOUS
      <4>2. Old(w)[i] = q
        BY <3>1, <4>1 DEF Old, Current
      <4>3. runtime[q].spec.port = Wanted(w, i).port
        BY <1>1, <3>1, <4>2 DEF IInv, EvictInv
      <4>4. q \in Made
        BY <3>1, InPrepared
      <4>5. QED  BY <1>1, <2>1, <4>3, <4>4 DEF Taken
    <3>3. QED  BY <1>6, <3>1, <3>2 DEF In
  <2>3. ASSUME NEW v \in Request, q \in call[v].closing
        PROVE  q \in (call[v].closing)'
    BY <1>1, <1>5, <2>3 DEF IInv, CallsInv
  <2>4. ASSUME ~Published(q), NEW v \in Request, call[v].pc \in Preparing, q \in In(call[v].prepared)
        PROVE  \/ q \in (call[v].closing)'
               \/ (call[v].pc)' \in Preparing /\ q \in In((call[v].prepared)')
    BY <1>3, <1>4, <1>5, <2>4 DEF In
  <2>5. QED  BY <2>1, <2>2, <2>3, <2>4 DEF IInv, HeldInv
<1>18. WorkInv'
  <2> SUFFICES ASSUME Regular PROVE WorkInv'
    BY <1>1 DEF WorkInv, Regular
  <2>1. \A v \in Request : v # w => call'[v].pc \notin Preparing \cup {"swap"}
    BY <1>1, <1>5, Alone DEF Ended
  <2>2. call'[w].pc \notin Preparing \cup {"swap"}
    BY <1>3, <1>4 DEF Preparing
  <2>3. QED  BY <2>1, <2>2 DEF WorkInv
<1>19. ServedInv'
  <2> SUFFICES ASSUME Regular, NEW q \in Runtime, q \in In(Current'), runtime'[q].open
               PROVE  serving'[q] = "yes" \/ \E v \in Request : call'[v].pc = "swap"
    BY <1>1 DEF ServedInv, Regular, In
  <2>1. CASE q = r
    BY <1>1, <2>1 DEF IInv, TypeOK
  <2>2. CASE q # r
    <3>1. q \in In(Current) /\ runtime[q].open
      BY <1>6, <1>8, <2>2 DEF In
    <3>2. serving[q] = "yes" \/ \E v \in Request : call[v].pc = "swap"
      BY <3>1 DEF IInv, ServedInv
    <3>3. \A v \in Request : call[v].pc = "swap" => call'[v].pc = "swap"
      BY <1>1, <1>5
    <3>4. QED  BY <1>1, <1>2, <2>2, <3>2, <3>3 DEF TypeOK
  <2>3. QED  BY <2>1, <2>2
<1>20. QED
  BY <1>11, <1>13, <1>14, <1>15, <1>16, <1>17, <1>18, <1>19 DEF Parts

-----------------------------------------------------------------------------
\* The requests that replace the map, and the one that serves it.

LEMMA PublishParts ==
  ASSUME IInv, NEW w \in Request, Publish(w)
  PROVE  Parts'
<1> USE DEF Manager, Servers, Ghosts, ghostVars
<1> DEFINE R == {Old(w)[i] : i \in {j \in Id : Old(w)[j] # call[w].prepared[j]}} \ {None}
           c == [call[w] EXCEPT !.pc = "swap", !.mine = Len(maps) + 1, !.awaits = None, !.closing = R]
<1>1. /\ Goes(w, c) /\ call[w].pc = "prepare" /\ call[w].todo = {}
      /\ maps' = Append(maps, call[w].prepared) /\ listeners' = Len(maps) + 1
      /\ unread' = (unread \/ listeners # call[w].old)
      /\ UNCHANGED <<stored, runtime, phase, serving, more, conn, errors, abandoned, overlapped,
                     behind, revived>>
  BY DEF Publish
<1>2. /\ call[w] \in CallType /\ TypeOK /\ unread \in BOOLEAN /\ Len(maps) \in Nat
      /\ call[w].prepared \in Slots /\ maps \in Seq(Slots) /\ listeners \in 0 .. Len(maps)
  BY DEF IInv, TypeOK, CallType
<1>3. /\ R \subseteq Made /\ R \subseteq Runtime
      /\ \A i \in Id : Old(w)[i] # None => Old(w)[i] = call[w].prepared[i] \/ Old(w)[i] \in R
      /\ R \cap In(call[w].prepared) = {}
  <2>1. \A i, j \in Id : Old(w)[i] # None /\ Old(w)[i] = call[w].prepared[j] => i = j
    BY InPrepared
  <2>2. QED  BY <2>1, InPrepared DEF In, Made
<1> HIDE DEF R
<1>4. /\ c \in CallType /\ c.pc = "swap" /\ c.todo = {} /\ c.awaits = None /\ c.mine = Len(maps) + 1
      /\ c.old = call[w].old /\ c.prepared = call[w].prepared /\ c.closing = R
      /\ c.base = call[w].base /\ c.target = call[w].target
  <2> DEFINE n == Len(maps) + 1
  <2>1. n \in Nat
    BY <1>2
  <2>2. c = [call[w] EXCEPT !.pc = "swap", !.mine = n, !.awaits = None, !.closing = R]
    OBVIOUS
  <2> HIDE DEF n, c
  <2>3. /\ c \in CallType /\ c.pc = "swap" /\ c.todo = call[w].todo /\ c.awaits = None /\ c.mine = n
        /\ c.old = call[w].old /\ c.prepared = call[w].prepared /\ c.closing = R
        /\ c.base = call[w].base /\ c.target = call[w].target
    BY <1>2, <1>3, <2>1, <2>2 DEF CallType, Pcs
  <2>4. QED  BY <1>1, <2>3 DEF n
<1> HIDE DEF c
<1>5. call' \in [Request -> CallType] /\ call'[w] = c /\ Others(w)
  BY <1>1, <1>2, <1>4, CallStep
<1>6. /\ maps' \in Seq(Slots) /\ Len(maps') = Len(maps) + 1 /\ listeners' \in 1 .. Len(maps')
      /\ maps'[Len(maps) + 1] = call[w].prepared
      /\ \A m \in 1 .. Len(maps) : maps'[m] = maps[m]
      /\ \A m \in 1 .. Len(maps') : m \in 1 .. Len(maps) \/ m = Len(maps) + 1
  BY <1>1, <1>2, AppendProperties
<1>7. /\ \A v \in Request : v # w => call'[v] = call[v]
      /\ \A v \in Request : v # w => \A j \in Id : Wanted(v, j)' = Wanted(v, j)
                                                   /\ IsNext(v, j)' = IsNext(v, j)
      /\ \A v \in Request : (call[v].old)' = call[v].old
      /\ \A j \in Id : Wanted(w, j)' = Wanted(w, j)
  BY <1>4, <1>5, OthersFacts DEF Wanted
<1>8. /\ Current' = call[w].prepared
      /\ \A v \in Request : Old(v)' = Old(v)
      /\ \A q : Published(q)' => Published(q) \/ q \in In(call[w].prepared)
      /\ Made' = Made
  <2>1. Current' = call[w].prepared
    BY <1>1, <1>2, <1>6 DEF Current, MapOf
  <2>2. \A v \in Request : call[v].old \in 0 .. Len(maps)
    BY InPrepared
  <2>3. \A v \in Request : Old(v)' = Old(v)
    BY <1>6, <1>7, <2>2 DEF Old, MapOf
  <2>4. \A q : Published(q)' => Published(q) \/ q \in In(call[w].prepared)
    BY <1>6 DEF Published, In
  <2>5. QED  BY <1>1, <2>1, <2>3, <2>4 DEF Made
<1>9. TypeOK'
  BY <1>1, <1>2, <1>5, <1>6 DEF TypeOK
<1>10. NamesInv'
  <2>1. \A m \in 1 .. Len(maps'), j \in Id : maps'[m][j] # None => runtime[maps'[m][j]].id = j
    BY <1>6, InPrepared DEF IInv, NamesInv
  <2>2. \A v \in Request : /\ (call[v].old)' <= Len(maps') /\ (call[v].mine)' <= Len(maps')
                           /\ \A j \in Id : (call[v].prepared[j])' # None =>
                                (runtime[call[v].prepared[j]])'.id = j
                           /\ (call[v].closing)' \subseteq Made
                           /\ (call[v].awaits)' # None => (call[v].awaits)' \in Made
    <3>1. \A v \in Request : call[v].old <= Len(maps') /\ (v # w => call[v].mine <= Len(maps'))
      BY <1>2, <1>6 DEF IInv, NamesInv, TypeOK, CallType
    <3>2. QED  BY <1>1, <1>2, <1>3, <1>4, <1>5, <1>6, <1>7, <3>1 DEF IInv, NamesInv
  <2>3. QED  BY <1>1, <1>8, <2>1, <2>2 DEF IInv, NamesInv
<1>11. ServersInv' /\ PortsInv' /\ ClosedServerHasNoSession'
  BY <1>1, <1>8 DEF IInv, ServersInv, PortsInv, ClosedServerHasNoSession
<1>12. CallsInv'
  <2>1. \A v \in Request : v # w => \A j \in call[v].todo : j \in Id
    BY <1>2 DEF TypeOK, CallType
  <2>2. c.mine # 0
    BY <1>2, <1>4
  <2>3. QED  BY <1>4, <1>5, <1>7, <2>1, <2>2 DEF IInv, CallsInv
<1>13. EvictInv'
  <2>1. \A v \in Request : (call[v].pc)' \in {"evict", "restore"} => v # w /\ call'[v] = call[v]
    BY <1>4, <1>5, <1>7
  <2>2. ~unread' => ~unread
    BY <1>1, <1>2
  <2>3. QED  BY <1>1, <1>7, <1>8, <2>1, <2>2 DEF IInv, EvictInv
<1>14. HeldInv'
  <2> SUFFICES ASSUME ~unread', NEW q \in Runtime, runtime'[q].open, q \notin abandoned',
                      q \notin In(Current)',
                      \A v \in Request : q \notin (call[v].closing)'
               PROVE  /\ ~Published(q)'
                      /\ \E v \in Request : (call[v].pc)' \in Preparing
                                            /\ q \in In(call[v].prepared)'
    BY DEF HeldInv, Preparing
  <2>1. ~unread /\ listeners = call[w].old /\ runtime[q].open /\ q \notin abandoned
    BY <1>1, <1>2
  <2>2. q \notin In(call[w].prepared) /\ q \notin R
    BY <1>4, <1>5, <1>8 DEF In
  <2>3. q \notin In(Current)
    BY <1>3, <2>1, <2>2 DEF In, Current, Old
  <2>4. \A v \in Request : q \notin call[v].closing
    BY <1>1, <1>7 DEF IInv, CallsInv
  <2>5. ~Published(q) /\ \E v \in Request : call[v].pc \in Preparing /\ q \in In(call[v].prepared)
    BY <2>1, <2>3, <2>4 DEF IInv, HeldInv
  <2>6. PICK v \in Request : call[v].pc \in Preparing /\ q \in In(call[v].prepared) /\ v # w
    BY <2>2, <2>5
  <2>7. call'[v] = call[v]
    BY <1>7, <2>6
  <2>8. QED  BY <1>8, <2>2, <2>5, <2>6, <2>7 DEF In
<1>15. WorkInv'
  <2> SUFFICES ASSUME Regular PROVE WorkInv'
    BY <1>1 DEF WorkInv, Regular
  <2>1. \A v \in Request : v # w => call'[v].pc \notin Preparing \cup {"swap"}
    BY <1>1, <1>7, Alone DEF Ended
  <2>2. ASSUME NEW j \in Id
        PROVE  Fits(w, j, Current[j])'
    <3>1. Fits(w, j, call[w].prepared[j])
      BY <1>1 DEF IInv, WorkInv, Preparing
    <3>2. (call[w].base)' = call[w].base
      BY <1>4, <1>5
    <3>3. QED  BY <1>1, <1>7, <1>8, <3>1, <3>2 DEF Fits
  <2>3. (call[w].closing \cap In(Current))' = {}
    BY <1>3, <1>4, <1>5, <1>8 DEF In
  <2>4. call'[w].pc \notin Preparing
    BY <1>4, <1>5 DEF Preparing
  <2>5. QED  BY <2>1, <2>2, <2>3, <2>4 DEF WorkInv
<1>16. ServedInv'
  BY <1>4, <1>5 DEF ServedInv
<1>17. QED
  BY <1>9, <1>10, <1>11, <1>12, <1>13, <1>14, <1>15, <1>16 DEF Parts

LEMMA ServeNewParts ==
  ASSUME IInv, NEW w \in Request, ServeNew(w)
  PROVE  Parts'
<1> USE DEF Manager, Servers, Ghosts, ghostVars
<1> DEFINE new == {maps[call[w].mine][i] : i \in {j \in Id : maps[call[w].mine][j] # Old(w)[j]}}
           has == {r \in Runtime : serving[r] \in {"yes", "ending"}}
           c == [NoCall EXCEPT !.pc = "done"]
<1>1. /\ Goes(w, c) /\ call[w].pc = "swap" /\ call[w].closing = {}
      /\ serving' = [r \in Runtime |-> IF r \in new \ has THEN "yes" ELSE serving[r]]
      /\ more' = [r \in Runtime |-> more[r] + IF r \in new \cap has THEN 1 ELSE 0]
      /\ behind' = FALSE
      /\ UNCHANGED <<stored, maps, listeners, runtime, phase, conn, errors,
                     unread, abandoned, overlapped, revived>>
  BY DEF ServeNew, AllClosed
<1>2. /\ c \in CallType /\ c.pc = "done"
      /\ c.old = 0 /\ c.mine = 0 /\ c.prepared = NoMap
      /\ c.todo = {} /\ c.closing = {} /\ c.awaits = None
  BY NoCallType, NoCallFields DEF Pcs
<1> HIDE DEF c
<1>3. call' \in [Request -> CallType] /\ call'[w] = c /\ Others(w)
  BY <1>1, <1>2, CallStep DEF IInv
<1>4. call[w] \in CallType /\ TypeOK /\ call[w].mine \in 1 .. Len(maps)
  BY <1>1 DEF IInv, TypeOK, CallType, NamesInv, CallsInv
<1>5. \A r \in new \cap Runtime : r \in Made
  <2>1. maps[call[w].mine] \in Slots
    BY <1>4, MapTypes
  <2>2. \A j \in Id : maps[call[w].mine][j] # None => maps[call[w].mine][j] \in Made
    BY <1>4, <2>1, MadeFacts DEF IInv, NamesInv, Slots
  <2>3. QED  BY <2>2, ListenersAssumption
<1>6. /\ \A v \in Request : v # w =>
           /\ call'[v] = call[v]
           /\ \A j : Wanted(v, j)' = Wanted(v, j) /\ IsNext(v, j)' = IsNext(v, j)
      /\ Current' = Current /\ \A q : Published(q)' = Published(q) /\ Made' = Made
      /\ \A v \in Request : v # w => Old(v)' = Old(v)
  BY <1>1, <1>3, OthersFacts, SameMaps DEF Made
<1>7. /\ more' \in [Runtime -> Nat]
      /\ serving' \in [Runtime -> {"no", "yes", "ending", "over"}]
      /\ \A r \in Runtime : serving'[r] # serving[r] =>
           r \in new /\ serving[r] \in {"no", "over"} /\ serving'[r] = "yes"
      /\ \A r \in Runtime : r \in new /\ serving[r] \in {"no", "yes"} => serving'[r] = "yes"
  BY <1>1, <1>4 DEF TypeOK
<1>8. TypeOK'
  BY <1>1, <1>3, <1>4, <1>7 DEF TypeOK
<1>9. NamesInv'
  <2>1. Len(maps) \in Nat
    BY <1>4 DEF TypeOK
  <2>2. QED  BY <1>1, <1>2, <1>3, <1>6, <2>1, NoMapFacts DEF IInv, NamesInv
<1>10. ServersInv' /\ PortsInv' /\ ClosedServerHasNoSession'
  <2>1. ServersInv'
    BY <1>1, <1>5, <1>6, <1>7 DEF IInv, ServersInv
  <2>2. QED  BY <1>1, <2>1 DEF IInv, PortsInv, ClosedServerHasNoSession
<1>11. CallsInv'
  BY <1>2, <1>3, <1>6 DEF IInv, CallsInv
<1>12. EvictInv'
  BY <1>1, <1>2, <1>3, <1>6 DEF IInv, EvictInv
<1>13. HeldInv'
  BY <1>1, <1>2, <1>3, <1>6 DEF IInv, HeldInv, Preparing
<1>14. WorkInv'
  <2> SUFFICES ASSUME Regular PROVE WorkInv'
    BY <1>1 DEF WorkInv, Regular
  <2>1. \A v \in Request : call'[v].pc \notin Preparing \cup {"swap"}
    BY <1>1, <1>2, <1>3, <1>6, Alone DEF Ended, Preparing
  <2>2. QED  BY <2>1 DEF WorkInv
<1>15. ServedInv'
  <2> SUFFICES ASSUME Regular, NEW q \in Runtime, q \in In(Current), runtime[q].open
               PROVE  serving'[q] = "yes"
    BY <1>1, <1>6 DEF ServedInv, Regular
  <2>1. PICK i \in Id : Current[i] = q /\ q # None
    BY DEF In
  <2>2. Fits(w, i, q) /\ listeners = call[w].mine
    BY <1>1, <2>1 DEF IInv, WorkInv, OrderInv, Ordered, Regular
  <2>3. Current = maps[call[w].mine]
    BY <1>4, <2>2 DEF Current, MapOf
  <2>4. serving[q] = "yes" \/ (serving[q] = "no" /\ q \in new)
    BY <2>1, <2>2, <2>3 DEF Fits
  <2>5. QED  BY <1>7, <2>4
<1>16. QED
  BY <1>8, <1>9, <1>10, <1>11, <1>12, <1>13, <1>14, <1>15 DEF Parts

LEMMA StopParts ==
  ASSUME IInv, NEW w \in Request, Stop(w)
  PROVE  Parts'
<1> USE DEF Manager, Servers, Ghosts, ghostVars
<1> DEFINE R == In(Current)
           c == [NoCall EXCEPT !.pc = "stop", !.closing = R]
<1>1. /\ Goes(w, c) /\ call[w].pc = "idle" /\ listeners' = 0 /\ behind' = TRUE
      /\ overlapped' = (overlapped \/ \E v \in Request : call[v].pc \notin Ended)
      /\ UNCHANGED <<stored, maps, runtime, phase, serving, more, conn, errors,
                     unread, abandoned, revived>>
  BY DEF Stop, Begins
<1>2. R \subseteq Made /\ R \subseteq Runtime
  BY InPrepared DEF In, Made
<1> HIDE DEF R
<1>3. /\ c \in CallType /\ c.pc = "stop"
      /\ c.old = 0 /\ c.mine = 0 /\ c.prepared = NoMap
      /\ c.todo = {} /\ c.closing = R /\ c.awaits = None
  <2>1. NoCall \in CallType
    BY NoCallType
  <2>2. /\ c \in CallType /\ c.pc = "stop" /\ c.closing = R
        /\ c.old = NoCall.old /\ c.mine = NoCall.mine /\ c.prepared = NoCall.prepared
        /\ c.todo = NoCall.todo /\ c.awaits = NoCall.awaits
    BY <1>2, <2>1 DEF CallType, Pcs
  <2>3. QED  BY <2>2, NoCallFields
<1> HIDE DEF c
<1>4. call' \in [Request -> CallType] /\ call'[w] = c /\ Others(w)
  BY <1>1, <1>3, CallStep DEF IInv
<1>5. /\ \A v \in Request : v # w =>
           /\ call'[v] = call[v]
           /\ \A j : Wanted(v, j)' = Wanted(v, j) /\ IsNext(v, j)' = IsNext(v, j)
           /\ Old(v)' = Old(v)
      /\ Current' = NoMap /\ Made' = Made /\ \A q : Published(q)' = Published(q)
  BY <1>1, <1>4, OthersFacts DEF Current, MapOf, Made, Old, Published
<1>6. TypeOK /\ overlapped \in BOOLEAN /\ overlapped' \in BOOLEAN /\ Len(maps) \in Nat
  BY <1>1 DEF IInv, TypeOK
<1>7. TypeOK'
  BY <1>1, <1>4, <1>6 DEF TypeOK
<1>8. NamesInv'
  BY <1>1, <1>2, <1>3, <1>4, <1>5, <1>6, NoMapFacts DEF IInv, NamesInv
<1>9. ServersInv' /\ PortsInv' /\ ClosedServerHasNoSession'
  BY <1>1, <1>5 DEF IInv, ServersInv, PortsInv, ClosedServerHasNoSession
<1>10. CallsInv'
  BY <1>3, <1>4, <1>5 DEF IInv, CallsInv
<1>11. EvictInv'
  BY <1>1, <1>3, <1>4, <1>5 DEF IInv, EvictInv
<1>12. HeldInv'
  <2> SUFFICES ASSUME ~unread, NEW q \in Runtime, runtime[q].open, q \notin abandoned,
                      q \notin R, \A v \in Request : v # w => q \notin call[v].closing
               PROVE  /\ ~Published(q)
                      /\ \E v \in Request : v # w /\ call[v].pc \in Preparing
                                            /\ q \in In(call[v].prepared)
    BY <1>1, <1>3, <1>4, <1>5 DEF HeldInv
  <2>1. \A v \in Request : q \notin call[v].closing
    BY <1>1 DEF IInv, CallsInv
  <2>2. call[w].pc \notin Preparing
    BY <1>1 DEF Preparing
  <2>3. QED  BY <2>1, <2>2 DEF IInv, HeldInv, R
<1>13. WorkInv'
  <2>1. Regular' => \A v \in Request : call'[v].pc \notin Preparing \cup {"swap"}
    BY <1>1, <1>3, <1>4, <1>5 DEF Regular, Ended, Preparing
  <2>2. QED  BY <2>1 DEF WorkInv
<1>14. ServedInv'
  BY <1>5, NoMapFacts DEF ServedInv, In
<1>15. QED
  BY <1>7, <1>8, <1>9, <1>10, <1>11, <1>12, <1>13, <1>14 DEF Parts

-----------------------------------------------------------------------------
\* Requests in order.

LEMMA OrderStep ==
  ASSUME IInv, NEW w \in Request, Others(w),
         ~overlapped' => ~overlapped,
         ~overlapped' => \A v \in Request : v # w => call[v].pc \in Ended,
         ~overlapped' => Ordered(w)'
  PROVE  OrderInv'
<1> SUFFICES ASSUME ~overlapped' PROVE OrderInv'
  BY DEF OrderInv
<1>1. \A v \in Request : v # w => call'[v].pc \in Ended
  BY DEF Others
<1>2. \A v \in Request : v # w => Ordered(v)'
  BY <1>1 DEF Ordered, Ended, Preparing
<1>3. QED  BY <1>1, <1>2 DEF OrderInv

\* A step of a request that is under way already.
LEMMA OrderRuns ==
  ASSUME IInv, NEW w \in Request, Others(w), call[w].pc \notin Ended,
         overlapped' = overlapped,
         ~overlapped /\ Ordered(w) => Ordered(w)'
  PROVE  OrderInv'
<1>1. ~overlapped => Ordered(w) /\ \A v \in Request : v # w => call[v].pc \in Ended
  BY DEF IInv, OrderInv
<1>2. QED  BY <1>1, OrderStep

LEMMA ServersOrder ==
  ASSUME IInv, ServerNext
  PROVE  OrderInv'
<1> USE DEF Manager, Servers, Ghosts, ghostVars
<1>1. UNCHANGED <<stored, listeners, call, overlapped, behind>>
  BY DEF ServerNext, FinishClose, AcceptFails, ServeLeaves, Register, Leaves, Accept, Becomes
<1>2. QED  BY <1>1 DEF IInv, OrderInv, Ordered

LEMMA GoesTo ==
  ASSUME IInv, NEW w \in Request, NEW c, Goes(w, c)
  PROVE  call'[w] = c /\ Others(w)
BY DEF IInv, TypeOK, Goes, Others

RequestNext(w) ==
  \/ BeginUpdate(w) \/ Stop(w)
  \/ \E base \in Base : SaveConfig(w, base)
  \/ \E i \in Id, spec \in Spec \cup {Off} : SaveListener(w, i, spec)
  \/ LoadListeners(w) \/ ReadOld(w)
  \/ \E r \in Runtime : CloseNext(w, r)
  \/ Rollback(w) \/ GivesUp(w) \/ Publish(w) \/ ServeNew(w) \/ Stopped(w)
  \/ \E i \in Id :
       \/ Reuse(w, i) \/ Evict(w, i) \/ ListenFails(w, i)
       \/ ListenFailsAgain(w, i) \/ RestoreFails(w, i)
       \/ \E r \in Runtime : Listen(w, i, r) \/ restoreRuntime(w, i, r)

LEMMA RequestOrder ==
  ASSUME IInv, NEW w \in Request, RequestNext(w)
  PROVE  OrderInv'
<1> USE DEF Manager, Servers, Ghosts, ghostVars
<1>1. call[w] \in CallType /\ TypeOK
  BY DEF IInv, TypeOK
<1>2. stored \in [base : Base, specs : Specs] /\ overlapped \in BOOLEAN
  BY <1>1 DEF TypeOK
<1>3. CASE BeginUpdate(w)
  <2> DEFINE c == [NoCall EXCEPT !.pc = "save", !.base = stored.base,
                                 !.previous = stored.specs, !.undo = TRUE]
  <2>1. c.pc = "save" /\ c.base = stored.base
    BY DEF NoCall
  <2>2. /\ Goes(w, c) /\ UNCHANGED stored
        /\ overlapped' = (overlapped \/ \E v \in Request : call[v].pc \notin Ended)
    BY <1>3 DEF BeginUpdate, Begins
  <2> HIDE DEF c
  <2>3. call'[w] = c /\ Others(w)
    BY <2>2, GoesTo
  <2>4. Ordered(w)'
    BY <2>1, <2>2, <2>3 DEF Ordered, Preparing
  <2>5. QED  BY <1>2, <2>2, <2>3, <2>4, OrderStep
<1>4. CASE Stop(w)
  <2> DEFINE c == [NoCall EXCEPT !.pc = "stop", !.closing = In(Current)]
  <2>1. c.pc = "stop"
    BY DEF NoCall
  <2>2. /\ Goes(w, c) /\ behind' = TRUE
        /\ overlapped' = (overlapped \/ \E v \in Request : call[v].pc \notin Ended)
    BY <1>4 DEF Stop, Begins
  <2> HIDE DEF c
  <2>3. call'[w] = c /\ Others(w)
    BY <2>2, GoesTo
  <2>4. Ordered(w)'
    BY <2>1, <2>2, <2>3 DEF Ordered, Preparing
  <2>5. QED  BY <1>2, <2>2, <2>3, <2>4, OrderStep
<1>5. ASSUME NEW base \in Base, SaveConfig(w, base) PROVE OrderInv'
  <2> DEFINE c == [NoCall EXCEPT !.pc = "load", !.base = base]
  <2>1. c.pc = "load" /\ c.base = base
    BY DEF NoCall
  <2>2. /\ Goes(w, c) /\ stored' = [stored EXCEPT !.base = base]
        /\ overlapped' = (overlapped \/ \E v \in Request : call[v].pc \notin Ended)
    BY <1>5 DEF SaveConfig, Begins
  <2> HIDE DEF c
  <2>3. call'[w] = c /\ Others(w) /\ stored'.base = base
    BY <1>2, <2>2, GoesTo
  <2>4. Ordered(w)'
    BY <2>1, <2>3 DEF Ordered, Preparing
  <2>5. QED  BY <1>2, <2>2, <2>3, <2>4, OrderStep
<1>6. ASSUME NEW i \in Id, NEW spec \in Spec \cup {Off}, SaveListener(w, i, spec) PROVE OrderInv'
  <2> DEFINE c == [call[w] EXCEPT !.pc = "load"]
  <2>1. c.pc = "load" /\ c.base = call[w].base
    BY <1>1 DEF CallType
  <2>2. /\ Goes(w, c) /\ call[w].pc = "save" /\ stored' = [stored EXCEPT !.specs[i] = spec]
        /\ overlapped' = overlapped
    BY <1>6 DEF SaveListener
  <2> HIDE DEF c
  <2>3. call'[w] = c /\ Others(w) /\ stored'.base = stored.base
    BY <1>2, <2>2, GoesTo
  <2>4. Ordered(w) => Ordered(w)'
    BY <2>1, <2>2, <2>3 DEF Ordered, Preparing, Ended
  <2>5. QED  BY <2>2, <2>3, <2>4, OrderRuns DEF Ended
<1>7. CASE LoadListeners(w)
  <2> DEFINE c == [call[w] EXCEPT !.pc = "read", !.target = stored.specs]
  <2>1. c.pc = "read" /\ c.base = call[w].base /\ c.target = stored.specs
    BY <1>1 DEF CallType
  <2>2. Goes(w, c) /\ call[w].pc = "load" /\ UNCHANGED <<stored, overlapped>>
    BY <1>7 DEF LoadListeners
  <2> HIDE DEF c
  <2>3. call'[w] = c /\ Others(w)
    BY <2>2, GoesTo
  <2>4. Ordered(w) => Ordered(w)'
    BY <2>1, <2>2, <2>3 DEF Ordered, Preparing, Ended
  <2>5. QED  BY <2>2, <2>3, <2>4, OrderRuns DEF Ended
<1>8. CASE ReadOld(w)
  <2>1. /\ call[w].pc = "read" /\ UNCHANGED <<stored, listeners, overlapped>>
        /\ \E t : Goes(w, [call[w] EXCEPT !.pc = "prepare", !.old = listeners,
                                          !.prepared = NoMap, !.todo = t])
    BY <1>8 DEF ReadOld
  <2>2. PICK t : Goes(w, [call[w] EXCEPT !.pc = "prepare", !.old = listeners,
                                         !.prepared = NoMap, !.todo = t])
    BY <2>1
  <2> DEFINE c == [call[w] EXCEPT !.pc = "prepare", !.old = listeners,
                                  !.prepared = NoMap, !.todo = t]
  <2>3. c.pc = "prepare" /\ c.base = call[w].base /\ c.target = call[w].target /\ c.old = listeners
    BY <1>1 DEF CallType
  <2> HIDE DEF c
  <2>4. call'[w] = c /\ Others(w)
    BY <2>2, GoesTo DEF c
  <2>5. Ordered(w) => Ordered(w)'
    BY <2>1, <2>3, <2>4 DEF Ordered, Preparing, Ended
  <2>6. QED  BY <2>1, <2>4, <2>5, OrderRuns DEF Ended
<1>9. ASSUME NEW c, Goes(w, c), call[w].pc \in Preparing,
             c.pc \in Preparing \cup {"abort"}, c.base = call[w].base,
             c.target = call[w].target, c.old = call[w].old,
             UNCHANGED <<stored, overlapped>>,
             c.pc = "abort" \/ listeners' = listeners
      PROVE  OrderInv'
  <2>1. call'[w] = c /\ Others(w)
    BY <1>9, GoesTo
  <2>2. Ordered(w) => Ordered(w)'
    BY <1>9, <2>1 DEF Ordered, Preparing, Ended
  <2>3. QED  BY <1>9, <2>1, <2>2, OrderRuns DEF Ended, Preparing
<1>10. ASSUME NEW i \in Id, Reuse(w, i) PROVE OrderInv'
  <2> DEFINE c == [call[w] EXCEPT !.todo = @ \ {i}, !.prepared[i] = Old(w)[i]]
  <2>1. /\ c.pc = call[w].pc /\ c.base = call[w].base /\ c.target = call[w].target
        /\ c.old = call[w].old
    BY <1>1 DEF CallType
  <2>2. Goes(w, c) /\ call[w].pc = "prepare" /\ UNCHANGED <<stored, listeners, overlapped>>
    BY <1>10 DEF Reuse
  <2>3. QED  BY <1>9, <2>1, <2>2 DEF Preparing
<1>11. ASSUME NEW i \in Id, NEW r \in Runtime, Listen(w, i, r) PROVE OrderInv'
  <2> DEFINE c == [call[w] EXCEPT !.pc = "prepare", !.todo = @ \ {i}, !.prepared[i] = r]
  <2>1. /\ c.pc = "prepare" /\ c.base = call[w].base /\ c.target = call[w].target
        /\ c.old = call[w].old
    BY <1>1 DEF CallType
  <2>2. /\ Goes(w, c) /\ call[w].pc \in {"prepare", "evict"}
        /\ UNCHANGED <<stored, listeners, overlapped>>
    BY <1>11 DEF Listen
  <2>3. QED  BY <1>9, <2>1, <2>2 DEF Preparing
<1>12. ASSUME NEW i \in Id, Evict(w, i) PROVE OrderInv'
  <2> DEFINE c == [call[w] EXCEPT !.pc = "evict", !.awaits = Old(w)[i]]
  <2>1. /\ c.pc = "evict" /\ c.base = call[w].base /\ c.target = call[w].target
        /\ c.old = call[w].old
    BY <1>1 DEF CallType
  <2>2. Goes(w, c) /\ call[w].pc = "prepare" /\ UNCHANGED <<stored, listeners, overlapped>>
    BY <1>12 DEF Evict, Fails
  <2>3. QED  BY <1>9, <2>1, <2>2 DEF Preparing
<1>13. ASSUME NEW i \in Id, ListenFailsAgain(w, i) PROVE OrderInv'
  <2> DEFINE c == [call[w] EXCEPT !.pc = "restore"]
  <2>1. /\ c.pc = "restore" /\ c.base = call[w].base /\ c.target = call[w].target
        /\ c.old = call[w].old
    BY <1>1 DEF CallType
  <2>2. Goes(w, c) /\ call[w].pc = "evict" /\ UNCHANGED <<stored, listeners, overlapped>>
    BY <1>13 DEF ListenFailsAgain, Fails
  <2>3. QED  BY <1>9, <2>1, <2>2 DEF Preparing
<1>14. ASSUME NEW i \in Id,
              ListenFails(w, i) \/ RestoreFails(w, i) \/ \E r \in Runtime : restoreRuntime(w, i, r)
       PROVE  OrderInv'
  <2> DEFINE c == Aborted(w)
  <2>1. /\ c.pc = "abort" /\ c.base = call[w].base /\ c.target = call[w].target
        /\ c.old = call[w].old
    BY <1>1 DEF CallType, Aborted
  <2>2. Goes(w, c) /\ call[w].pc \in {"prepare", "restore"} /\ UNCHANGED <<stored, overlapped>>
    BY <1>14 DEF ListenFails, RestoreFails, restoreRuntime, Fails
  <2>3. QED  BY <1>9, <2>1, <2>2 DEF Preparing
<1>15. ASSUME NEW r \in Runtime, CloseNext(w, r) PROVE OrderInv'
  <2> DEFINE c == [call[w] EXCEPT !.closing = @ \ {r}, !.awaits = r]
  <2>1. /\ c.pc = call[w].pc /\ c.base = call[w].base /\ c.target = call[w].target
        /\ c.old = call[w].old /\ c.mine = call[w].mine
    BY <1>1 DEF CallType
  <2>2. /\ Goes(w, c) /\ call[w].pc \in {"abort", "swap", "stop"}
        /\ UNCHANGED <<stored, listeners, overlapped, behind>>
    BY <1>15 DEF CloseNext
  <2> HIDE DEF c
  <2>3. call'[w] = c /\ Others(w)
    BY <2>2, GoesTo
  <2>4. Ordered(w) => Ordered(w)'
    BY <2>1, <2>2, <2>3 DEF Ordered
  <2>5. QED  BY <2>2, <2>3, <2>4, OrderRuns DEF Ended
<1>16. CASE Rollback(w)
  <2> DEFINE c == [call[w] EXCEPT !.pc = "read", !.undo = FALSE, !.target = call[w].previous]
  <2>1. c.pc = "read" /\ c.base = call[w].base /\ c.target = call[w].previous
    BY <1>1 DEF CallType
  <2>2. /\ Goes(w, c) /\ call[w].pc = "abort" /\ UNCHANGED overlapped
        /\ stored' = [stored EXCEPT !.specs = call[w].previous]
    BY <1>16 DEF Rollback
  <2> HIDE DEF c
  <2>3. /\ call'[w] = c /\ Others(w)
        /\ stored'.base = stored.base /\ stored'.specs = call[w].previous
    BY <1>2, <2>2, GoesTo
  <2>4. Ordered(w) => Ordered(w)'
    BY <2>1, <2>2, <2>3 DEF Ordered, Preparing, Ended
  <2>5. QED  BY <2>2, <2>3, <2>4, OrderRuns DEF Ended
<1>17. CASE GivesUp(w) \/ ServeNew(w) \/ Stopped(w)
  <2>1. Goes(w, [NoCall EXCEPT !.pc = "done"]) /\ call[w].pc \notin Ended /\ UNCHANGED overlapped
    BY <1>17 DEF GivesUp, ServeNew, Stopped, Ended
  <2>2. call'[w].pc = "done" /\ Others(w)
    BY <2>1, GoesTo DEF NoCall
  <2>3. Ordered(w)'
    BY <2>2 DEF Ordered, Preparing, Ended
  <2>4. QED  BY <2>1, <2>2, <2>3, OrderRuns
<1>18. CASE Publish(w)
  <2>1. PICK R : Goes(w, [call[w] EXCEPT !.pc = "swap", !.mine = Len(maps) + 1,
                                         !.awaits = None, !.closing = R])
    BY <1>18 DEF Publish
  <2> DEFINE c == [call[w] EXCEPT !.pc = "swap", !.mine = Len(maps) + 1,
                                  !.awaits = None, !.closing = R]
  <2>2. /\ c.pc = "swap" /\ c.base = call[w].base /\ c.target = call[w].target
        /\ c.old = call[w].old /\ c.mine = Len(maps) + 1
    BY <1>1 DEF CallType
  <2> HIDE DEF c
  <2>3. /\ call[w].pc = "prepare" /\ listeners' = Len(maps) + 1 /\ UNCHANGED <<stored, overlapped>>
    BY <1>18 DEF Publish
  <2>4. call'[w] = c /\ Others(w)
    BY <2>1, GoesTo DEF c
  <2>5. call[w].old # Len(maps) + 1
    BY InPrepared, <1>1 DEF TypeOK
  <2>6. Ordered(w) => Ordered(w)'
    BY <2>2, <2>3, <2>4, <2>5 DEF Ordered, Preparing, Ended
  <2>7. QED  BY <2>3, <2>4, <2>6, OrderRuns DEF Ended
<1>19. QED
  BY <1>3, <1>4, <1>5, <1>6, <1>7, <1>8, <1>10, <1>11, <1>12, <1>13, <1>14, <1>15, <1>16,
     <1>17, <1>18 DEF RequestNext

-----------------------------------------------------------------------------
\* What the gateway is like once no request is under way.

Settled ==
  \A i \in Id :
    LET r == Current[i]
        spec == IF stored.base = Disabled THEN Off ELSE stored.specs[i]
    IN IF spec = Off THEN r = None
       ELSE /\ r # None /\ runtime[r].open /\ serving[r] = "yes"
            /\ runtime[r].spec = spec /\ runtime[r].base = stored.base

LEMMA ServersSettled ==
  ASSUME IInv, ServerNext
  PROVE  SettledIsStored'
<1> USE DEF Manager, Servers, Ghosts, ghostVars
<1> SUFFICES ASSUME Idle', ~overlapped', ~behind', ~revived', abandoned' = {}
             PROVE  Settled'
  BY DEF SettledIsStored, Settled
<1>1. UNCHANGED <<stored, listeners, runtime, call, overlapped, behind, revived>>
  BY DEF ServerNext, FinishClose, AcceptFails, ServeLeaves, Register, Leaves, Accept, Becomes
<1>2. abandoned = {} /\ \A r \in Runtime : ~AcceptFails(r)
  BY DEF ServerNext, FinishClose, AcceptFails, ServeLeaves, Register, Leaves, Accept, Becomes
<1>3. Settled
  BY <1>1, <1>2 DEF IInv, Idle, SettledIsStored, Settled
<1>4. CASE UNCHANGED <<maps, serving>>
  BY <1>1, <1>3, <1>4 DEF Settled, Current, MapOf
<1>5. ASSUME NEW r \in Runtime, ServeLeaves(r)
      PROVE  Settled'
  <2>1. ~runtime[r].open /\ serving' = [serving EXCEPT ![r] = IF more[r] > 0 THEN "yes" ELSE "over"]
    BY <1>2, <1>5 DEF ServeLeaves, IInv, ServersInv
  <2>2. r \notin In(Current)
    BY <1>3, <2>1 DEF Settled, In
  <2>3. maps' = maps
    BY <1>5, <2>2 DEF ServeLeaves
  <2>4. \A q \in Runtime : q # r => serving'[q] = serving[q]
    BY <2>1 DEF IInv, TypeOK
  <2>5. \A i \in Id : Current[i] \in Runtime \cup {None} /\ (Current[i] = r => FALSE)
    <3>1. Current \in Slots /\ r # None
      BY MapTypes, ListenersAssumption DEF IInv
    <3>2. QED  BY <2>2, <3>1 DEF Slots, In
  <2>6. Current' = Current
    BY <1>1, <2>3 DEF Current, MapOf
  <2>7. QED  BY <1>1, <1>3, <2>4, <2>5, <2>6 DEF Settled
<1>6. QED
  BY <1>2, <1>4, <1>5 DEF ServerNext, FinishClose, Register, Leaves, Accept, Becomes

LEMMA ServeNewSettled ==
  ASSUME IInv, NEW w \in Request, ServeNew(w)
  PROVE  SettledIsStored'
<1> USE DEF Manager, Servers, Ghosts, ghostVars
<1> SUFFICES ASSUME ~overlapped', ~revived', abandoned' = {}
             PROVE  Settled'
  BY DEF SettledIsStored, Settled
<1> DEFINE new == {maps[call[w].mine][i] : i \in {j \in Id : maps[call[w].mine][j] # Old(w)[j]}}
           has == {r \in Runtime : serving[r] \in {"yes", "ending"}}
<1>1. /\ call[w].pc = "swap"
      /\ serving' = [r \in Runtime |-> IF r \in new \ has THEN "yes" ELSE serving[r]]
      /\ UNCHANGED <<stored, maps, listeners, runtime, abandoned, overlapped, revived>>
  BY DEF ServeNew
<1>2. Regular /\ Current' = Current
  BY <1>1 DEF Regular, Current, MapOf
<1>3. /\ call[w].base = stored.base /\ call[w].target = stored.specs
      /\ listeners = call[w].mine /\ call[w].mine # 0
      /\ \A i \in Id : Fits(w, i, Current[i])
  BY <1>1, <1>2 DEF IInv, OrderInv, Ordered, WorkInv, CallsInv, Regular, Ended
<1>4. Current = maps[call[w].mine] /\ Current \in Slots
  BY <1>3, MapTypes DEF IInv, Current, MapOf
<1>5. ASSUME NEW i \in Id, Current[i] # None,
             serving[Current[i]] = "yes" \/ (serving[Current[i]] = "no" /\ Old(w)[i] # Current[i])
      PROVE  serving'[Current[i]] = "yes"
  <2>1. Current[i] \in Runtime
    BY <1>4, <1>5 DEF Slots
  <2>2. Old(w)[i] # Current[i] => Current[i] \in new
    BY <1>4
  <2>3. QED  BY <1>1, <1>5, <2>1, <2>2
<1> HIDE DEF new
<1>6. ASSUME NEW i \in Id
      PROVE  LET r == Current[i]
                 spec == IF stored.base = Disabled THEN Off ELSE stored.specs[i]
             IN IF spec = Off THEN r = None
                ELSE /\ r # None /\ runtime[r].open /\ serving'[r] = "yes"
                     /\ runtime[r].spec = spec /\ runtime[r].base = stored.base
  BY <1>3, <1>5 DEF Fits, Wanted
<1>7. QED  BY <1>1, <1>2, <1>6 DEF Settled

LEMMA RequestSettled ==
  ASSUME IInv, NEW w \in Request, RequestNext(w)
  PROVE  SettledIsStored'
<1> USE DEF Manager, Servers, Ghosts, ghostVars
<1>1. call[w] \in CallType /\ TypeOK
  BY DEF IInv, TypeOK
<1>2. CASE GivesUp(w)
  BY <1>2 DEF GivesUp, SettledIsStored
<1>3. CASE Stopped(w)
  <2>1. ~overlapped => behind
    BY <1>3 DEF Stopped, IInv, OrderInv, Ordered
  <2>2. QED  BY <1>3, <2>1 DEF Stopped, SettledIsStored
<1>4. CASE ServeNew(w)
  BY <1>4, ServeNewSettled
<1>5. ASSUME call'[w].pc \notin Ended
      PROVE  SettledIsStored'
  BY <1>5 DEF SettledIsStored, Idle
<1>6. call \in [Request -> CallType]
  BY <1>1 DEF TypeOK
<1>7. CASE BeginUpdate(w)
  <2>1. call'[w].pc = "save"
    BY <1>6, <1>7 DEF Goes, BeginUpdate, NoCall
  <2>2. QED  BY <1>5, <2>1 DEF Ended
<1>8. CASE Stop(w)
  <2>1. call'[w].pc = "stop"
    BY <1>6, <1>8 DEF Goes, Stop, NoCall
  <2>2. QED  BY <1>5, <2>1 DEF Ended
<1>9. ASSUME NEW base \in Base, SaveConfig(w, base)
      PROVE  SettledIsStored'
  <2>1. call'[w].pc = "load"
    BY <1>6, <1>9 DEF Goes, SaveConfig, NoCall
  <2>2. QED  BY <1>5, <2>1 DEF Ended
<1>10. ASSUME NEW i \in Id, NEW spec \in Spec \cup {Off}, SaveListener(w, i, spec)
       PROVE  SettledIsStored'
  <2>1. call'[w].pc = "load"
    BY <1>1, <1>6, <1>10 DEF Goes, SaveListener, CallType
  <2>2. QED  BY <1>5, <2>1 DEF Ended
<1>11. CASE LoadListeners(w) \/ Rollback(w)
  <2>1. call'[w].pc = "read"
    <3>1. CASE LoadListeners(w)
      BY <1>1, <1>6, <3>1 DEF Goes, LoadListeners, CallType
    <3>2. CASE Rollback(w)
      BY <1>1, <1>6, <3>2 DEF Goes, Rollback, CallType
    <3>3. QED  BY <1>11, <3>1, <3>2
  <2>2. QED  BY <1>5, <2>1 DEF Ended
<1>12. CASE ReadOld(w)
  <2>1. call'[w].pc = "prepare"
    BY <1>1, <1>6, <1>12 DEF Goes, ReadOld, CallType
  <2>2. QED  BY <1>5, <2>1 DEF Ended
<1>13. CASE Publish(w)
  <2>1. call'[w].pc = "swap"
    BY <1>1, <1>6, <1>13 DEF Goes, Publish, CallType
  <2>2. QED  BY <1>5, <2>1 DEF Ended
<1>14. ASSUME NEW r \in Runtime, CloseNext(w, r)
       PROVE  SettledIsStored'
  <2>1. call'[w].pc = call[w].pc /\ call[w].pc \in {"abort", "swap", "stop"}
    BY <1>1, <1>6, <1>14 DEF Goes, CloseNext, CallType
  <2>2. QED  BY <1>5, <2>1 DEF Ended
<1>15. ASSUME NEW i \in Id, Reuse(w, i) \/ \E r \in Runtime : Listen(w, i, r)
       PROVE  SettledIsStored'
  <2>1. call'[w].pc = "prepare"
    <3>1. CASE Reuse(w, i)
      BY <1>1, <1>6, <3>1 DEF Goes, Reuse, CallType
    <3>2. ASSUME NEW r \in Runtime, Listen(w, i, r)
          PROVE  call'[w].pc = "prepare"
      BY <1>1, <1>6, <3>2 DEF Goes, Listen, CallType
    <3>3. QED  BY <1>15, <3>1, <3>2
  <2>2. QED  BY <1>5, <2>1 DEF Ended
<1>16. ASSUME NEW i \in Id, Evict(w, i) \/ ListenFailsAgain(w, i)
       PROVE  SettledIsStored'
  <2>1. call'[w].pc \in {"evict", "restore"}
    <3>1. CASE Evict(w, i)
      BY <1>1, <1>6, <3>1 DEF Goes, Evict, CallType
    <3>2. CASE ListenFailsAgain(w, i)
      BY <1>1, <1>6, <3>2 DEF Goes, ListenFailsAgain, CallType
    <3>3. QED  BY <1>16, <3>1, <3>2
  <2>2. QED  BY <1>5, <2>1 DEF Ended
<1>17. ASSUME NEW i \in Id,
              ListenFails(w, i) \/ RestoreFails(w, i) \/ \E r \in Runtime : restoreRuntime(w, i, r)
       PROVE  SettledIsStored'
  <2>1. call'[w].pc = Aborted(w).pc
    BY <1>6, <1>17 DEF Goes, ListenFails, RestoreFails, restoreRuntime
  <2>2. Aborted(w).pc = "abort"
    BY <1>1 DEF Aborted, CallType
  <2>3. QED  BY <1>5, <2>1, <2>2 DEF Ended
<1>18. QED
  BY <1>2, <1>3, <1>4, <1>7, <1>8, <1>9, <1>10, <1>11, <1>12, <1>13, <1>14, <1>15, <1>16, <1>17
     DEF RequestNext

-----------------------------------------------------------------------------
\* The invariant.

LEMMA InitInv ==
  Init => IInv
<1> SUFFICES ASSUME Init PROVE IInv
  OBVIOUS
<1>1. PICK base \in Base \ {Disabled}, specs \in First, m \in [Id -> Runtime \cup {None}] :
        /\ \A i, j \in Id : m[i] = m[j] /\ m[i] # None => i = j
        /\ \A i \in Id : (m[i] = None) = (specs[i] = Off)
        /\ \A r \in In(m), q \in Runtime \ In(m) : r < q
        /\ \A i, j \in Id : i < j /\ m[i] # None /\ m[j] # None => m[i] < m[j]
        /\ stored = [base |-> base, specs |-> specs]
        /\ maps = <<m>>
        /\ runtime = [r \in Runtime |->
             IF r \in In(m)
             THEN LET i == CHOOSE i \in Id : m[i] = r
                  IN [id |-> i, spec |-> specs[i], base |-> base, open |-> TRUE, canceled |-> FALSE]
             ELSE NoRuntime]
        /\ serving = [r \in Runtime |-> IF r \in In(m) THEN "yes" ELSE "no"]
  BY DEF Init
<1>2. /\ listeners = 1 /\ more = [r \in Runtime |-> 0] /\ phase = [r \in Runtime |-> "open"]
      /\ conn = [c \in Conn |-> NoConn] /\ call = [w \in Request |-> NoCall]
      /\ errors = 0 /\ unread = FALSE /\ abandoned = {} /\ overlapped = FALSE
      /\ behind = FALSE /\ revived = FALSE
  BY DEF Init
<1>3. /\ m \in Slots /\ maps \in Seq(Slots) /\ Len(maps) = 1 /\ maps[1] = m /\ Current = m
      /\ specs \in Specs /\ Distinct(specs)
  <2>1. m \in Slots
    BY DEF Slots
  <2>2. maps = <<m>>
    BY <1>1
  <2>3. maps \in Seq(Slots) /\ Len(maps) = 1 /\ maps[1] = m
    BY <2>1, <2>2
  <2>4. Current = m
    BY <1>2, <2>3 DEF Current, MapOf
  <2>5. specs \in Specs /\ Distinct(specs)
    BY FirstAssumption
  <2>6. QED  BY <2>1, <2>3, <2>4, <2>5
<1>4. ASSUME NEW i \in Id, m[i] # None
      PROVE  /\ m[i] \in Runtime /\ m[i] \in In(m)
             /\ runtime[m[i]] = [id |-> i, spec |-> specs[i], base |-> base,
                                 open |-> TRUE, canceled |-> FALSE]
             /\ runtime[m[i]].id = i /\ runtime[m[i]].spec = specs[i]
             /\ runtime[m[i]].base = base /\ runtime[m[i]].open
             /\ serving[m[i]] = "yes" /\ specs[i] # Off
  <2>1. m[i] \in Runtime /\ m[i] \in In(m)
    BY <1>4 DEF In
  <2>2. (CHOOSE j \in Id : m[j] = m[i]) = i
    BY <1>1, <1>4
  <2>3. runtime[m[i]] = [id |-> i, spec |-> specs[i], base |-> base,
                         open |-> TRUE, canceled |-> FALSE]
    BY <1>1, <2>1, <2>2
  <2>4. serving[m[i]] = "yes" /\ specs[i] # Off
    BY <1>1, <1>4, <2>1
  <2>5. QED  BY <2>1, <2>3, <2>4
<1>5. \A r \in Runtime : r \notin In(m) => runtime[r] = NoRuntime /\ serving[r] = "no"
  BY <1>1
<1>6. \A r : r \in In(m) <=> \E i \in Id : m[i] = r /\ r # None
  BY DEF In
<1>7. /\ \A r \in Runtime : /\ runtime[r].open <=> r \in In(m)
                            /\ r \in Made <=> r \in In(m)
      /\ runtime \in [Runtime -> [id : Id \cup {None}, spec : Spec \cup {Off}, base : Base,
                                  open : BOOLEAN, canceled : BOOLEAN]]
  <2>1. NoRuntime \in [id : Id \cup {None}, spec : Spec \cup {Off}, base : Base,
                       open : BOOLEAN, canceled : BOOLEAN]
        /\ NoRuntime.id = None /\ NoRuntime.open = FALSE
    BY ListenersAssumption DEF NoRuntime
  <2>2. \A r \in Runtime : r \in In(m) =>
          /\ runtime[r] \in [id : Id \cup {None}, spec : Spec \cup {Off}, base : Base,
                             open : BOOLEAN, canceled : BOOLEAN]
          /\ runtime[r].open /\ runtime[r].id # None
    <3>1. \A i \in Id : specs[i] \in Spec \cup {Off}
      BY <1>3 DEF Specs
    <3>2. ASSUME NEW i \in Id, m[i] # None
          PROVE  /\ runtime[m[i]] \in [id : Id \cup {None}, spec : Spec \cup {Off}, base : Base,
                                       open : BOOLEAN, canceled : BOOLEAN]
                 /\ runtime[m[i]].open /\ runtime[m[i]].id # None
      <4>1. runtime[m[i]] = [id |-> i, spec |-> specs[i], base |-> base,
                             open |-> TRUE, canceled |-> FALSE]
        BY <1>4, <3>2
      <4>2. i # None
        BY ListenersAssumption
      <4>3. QED  BY <3>1, <4>1, <4>2
    <3>3. QED  BY <1>6, <3>2
  <2>3. \A r \in Runtime : r \notin In(m) =>
          /\ runtime[r] \in [id : Id \cup {None}, spec : Spec \cup {Off}, base : Base,
                             open : BOOLEAN, canceled : BOOLEAN]
          /\ runtime[r].open = FALSE /\ runtime[r].id = None
    BY <1>5, <2>1
  <2>4. runtime = [r \in Runtime |-> runtime[r]]
    BY <1>1
  <2>5. QED  BY <2>2, <2>3, <2>4 DEF Made
<1>8. \A w \in Request : call[w] = NoCall /\ call[w].pc = "idle"
  BY <1>2 DEF NoCall
<1>9. TypeOK
  <2>1. serving \in [Runtime -> {"no", "yes", "ending", "over"}]
    BY <1>1
  <2>2. stored \in [base : Base, specs : Specs]
    BY <1>1, <1>3
  <2>3. call \in [Request -> CallType]
    BY <1>2, NoCallType
  <2>4. listeners \in 0 .. Len(maps) /\ maps \in Seq(Slots)
    BY <1>2, <1>3
  <2>5. /\ phase \in [Runtime -> {"open", "closing", "closed"}]
        /\ more \in [Runtime -> Nat]
        /\ conn \in [Conn -> {NoConn} \cup [at : Runtime, live : BOOLEAN]]
        /\ errors \in Nat /\ abandoned \in SUBSET Runtime
        /\ {unread, overlapped, behind, revived} \subseteq BOOLEAN
    BY <1>2
  <2>6. QED  BY <1>7, <2>1, <2>2, <2>3, <2>4, <2>5 DEF TypeOK
<1>10. NamesInv
  <2>1. \A k \in 1 .. Len(maps), i \in Id : maps[k][i] # None => runtime[maps[k][i]].id = i
    <3>1. \A k \in 1 .. Len(maps) : maps[k] = m
      BY <1>3
    <3>2. \A i \in Id : m[i] # None => runtime[m[i]].id = i
      BY <1>4
    <3>3. QED  BY <3>1, <3>2
  <2>2. QED  BY <1>2, <1>3, <1>8, <2>1, NoCallFields, NoMapFacts DEF NamesInv
<1>11. ServersInv
  <2>1. \A r \in Runtime : r \in In(m) => serving[r] = "yes"
    BY <1>1
  <2>2. QED  BY <1>2, <1>5, <1>7, <2>1 DEF ServersInv
<1>12. PortsInv
  <2> SUFFICES ASSUME NEW i \in Id, NEW j \in Id, m[i] # None, m[j] # None,
                      runtime[m[i]].spec.port = runtime[m[j]].spec.port
               PROVE  m[i] = m[j]
    BY <1>6, <1>7 DEF PortsInv
  <2>1. specs[i].port = specs[j].port /\ specs[i] # Off /\ specs[j] # Off
    BY <1>4
  <2>2. QED  BY <1>3, <2>1 DEF Distinct
<1>13. CallsInv /\ EvictInv
  BY <1>8, NoCallFields DEF CallsInv, EvictInv
<1>14. HeldInv
  BY <1>3, <1>7 DEF HeldInv
<1>15. OrderInv /\ WorkInv
  <2>1. \A w \in Request : Ordered(w)
    BY <1>8 DEF Ordered, Ended, Preparing
  <2>2. QED  BY <1>8, <2>1 DEF OrderInv, WorkInv, Preparing, Ended
<1>16. ServedInv
  BY <1>1, <1>3 DEF ServedInv
<1>17. ClosedServerHasNoSession
  BY <1>2 DEF ClosedServerHasNoSession
<1>18. SettledIsStored
  <2>1. /\ stored.base = base /\ base # Disabled /\ stored.specs = specs
    BY <1>1
  <2>2. \A i \in Id : /\ m[i] = None <=> specs[i] = Off
                      /\ m[i] # None => /\ runtime[m[i]].open /\ serving[m[i]] = "yes"
                                        /\ runtime[m[i]].spec = specs[i]
                                        /\ runtime[m[i]].base = base
    BY <1>1, <1>4
  <2>3. QED  BY <1>3, <2>1, <2>2 DEF SettledIsStored
<1>19. QED
  BY <1>9, <1>10, <1>11, <1>12, <1>13, <1>14, <1>15, <1>16, <1>17, <1>18 DEF IInv

LEMMA NextInv ==
  IInv /\ [Next]_vars => IInv'
<1> SUFFICES ASSUME IInv, [Next]_vars PROVE IInv'
  OBVIOUS
<1>1. CASE ServerNext
  <2>1. Parts'
    BY <1>1, ConnParts, FinishCloseParts, AcceptFailsParts, ServeLeavesParts DEF ServerNext
  <2>2. QED  BY <1>1, <2>1, ServersOrder, ServersSettled DEF IInv, Parts
<1>2. ASSUME NEW w \in Request, RequestNext(w)
      PROVE  IInv'
  <2>1. CASE PlainActions(w)
    <3>1. Parts'
      BY <2>1, PlainParts
    <3>2. QED  BY <1>2, <3>1, RequestOrder, RequestSettled DEF IInv, Parts
  <2>2. CASE ~PlainActions(w)
    <3>1. Parts'
      BY <1>2, <2>2, ReadOldParts, ReuseParts, AbortParts, ListenFailsAgainParts, EvictParts,
         CloseNextParts, ListenParts, restoreRuntimeParts, PublishParts, ServeNewParts, StopParts
         DEF RequestNext, PlainActions
    <3>2. QED  BY <1>2, <3>1, RequestOrder, RequestSettled DEF IInv, Parts
  <2>3. QED  BY <2>1, <2>2
<1>3. CASE UNCHANGED vars
  <2>1. UNCHANGED <<stored, maps, listeners, runtime, phase, serving, more, conn, call, errors,
                    unread, abandoned, overlapped, behind, revived>>
    BY <1>3 DEF vars, ghostVars
  <2>2. /\ Current' = Current /\ Made' = Made /\ \A r : Published(r)' = Published(r)
        /\ \A w \in Request : /\ Old(w)' = Old(w)
                              /\ \A i : Wanted(w, i)' = Wanted(w, i) /\ IsNext(w, i)' = IsNext(w, i)
    BY <2>1 DEF Current, MapOf, Made, Published, Old, Wanted, IsNext
  <2>3. TypeOK' /\ NamesInv' /\ ServersInv' /\ PortsInv'
    BY <2>1, <2>2 DEF IInv, TypeOK, NamesInv, ServersInv, PortsInv
  <2>4. CallsInv' /\ EvictInv' /\ HeldInv'
    BY <2>1, <2>2 DEF IInv, CallsInv, EvictInv, HeldInv
  <2>5. OrderInv' /\ WorkInv' /\ ServedInv'
    BY <2>1, <2>2 DEF IInv, OrderInv, Ordered, WorkInv, ServedInv, Regular, Fits
  <2>6. ClosedServerHasNoSession' /\ SettledIsStored'
    BY <2>1, <2>2 DEF IInv, Idle, ClosedServerHasNoSession, SettledIsStored
  <2>7. QED  BY <2>3, <2>4, <2>5, <2>6 DEF IInv
<1>4. QED
  BY <1>1, <1>2, <1>3 DEF Next, RequestNext

\* The invariant of the gateway that the theorems below rest on.
THEOREM Invariance ==
  ListenersSpec => []IInv
BY InitInv, NextInv, PTL DEF ListenersSpec

\* All state stays within its types: a runtime has one of the ids, its server
\* opens, closes and is closed, and every request is at one of its steps.
THEOREM TypeCorrect ==
  ListenersSpec => []TypeOK
<1>1. IInv => TypeOK
  BY DEF IInv
<1>2. QED  BY <1>1, Invariance, PTL

\* Whatever requests run at once, whatever ports are taken and whenever Accept
\* fails: a listener that accepts on its port is in the manager's map or in the
\* hands of a request, unless a request has replaced a map that it had not read
\* or the listener's own Accept has failed.
THEOREM NothingForgotten ==
  ListenersSpec => []ForgottenHasACause
<1>1. IInv => ForgottenHasACause
  <2> SUFFICES ASSUME IInv, NEW r \in Made, runtime[r].open, ~unread, r \notin abandoned,
                      r \notin In(Current)
               PROVE  \E w \in Request : r \in In(call[w].prepared) \cup call[w].closing
    BY DEF ForgottenHasACause
  <2>1. r \in Runtime
    BY DEF Made
  <2>2. QED  BY <2>1 DEF IInv, HeldInv
<1>2. QED  BY <1>1, Invariance, PTL

\* closeAll leaves no session behind on a closed server, also none that was
\* accepted before the close and registers after it.
THEOREM SessionsClosed ==
  ListenersSpec => []ClosedServerHasNoSession
<1>1. IInv => ClosedServerHasNoSession
  BY DEF IInv
<1>2. QED  BY <1>1, Invariance, PTL

\* Requests that come one at a time leave each listener running exactly as the
\* stored settings say, through evictions, rollbacks and restored runtimes,
\* unless the last one failed or one took a closed runtime for a running one.
THEOREM SettlesAsStored ==
  ListenersSpec => []SettledIsStored
<1>1. IInv => SettledIsStored
  BY DEF IInv
<1>2. QED  BY <1>1, Invariance, PTL
=============================================================================
