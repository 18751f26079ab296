----------------------------- MODULE Listeners -----------------------------
(***************************************************************************)
(* The SOCKS5 gateway's listeners (services/socks5/socks5.go): Manager,    *)
(* whose map is replaced by every change of the settings, the servers that *)
(* accept on the listeners, and their sessions (session_registry.go), with *)
(* the handlers of api/socks5.go that call it.                             *)
(*                                                                         *)
(* The map is a Go map, so what ApplyListeners reads as old is the very    *)
(* object that is current, and changes with it: maps holds the objects,    *)
(* and a variable of the code that is a map is an index into it.           *)
(* A listener's spec is its endpoint, port, with all else that is set for  *)
(* it, or Off when it is disabled or absent; base is what all of them      *)
(* share.  Which bind fails, and when Accept does, is left open.           *)
(***************************************************************************)
EXTENDS Naturals, Sequences

CONSTANTS
  Id,        \* listener ids, in the order of their names
  Spec,      \* specs of enabled listeners: records with a port
  Off,       \* a disabled listener
  First,     \* the specs at the start
  Base,      \* settings that all listeners share
  Disabled,  \* those that disable the gateway
  Request,   \* one handler goroutine each
  Runtime,   \* names for listenerRuntimes
  Conn,      \* names for connections of clients
  None,
  MaxErrors  \* bound on failures of Listen and Accept

ASSUME ListenersAssumption ==
  /\ Id \subseteq Nat /\ Runtime \subseteq Nat
  /\ Off \notin Spec
  /\ Disabled \in Base
  /\ None \notin Runtime \cup Id
  /\ MaxErrors \in Nat

Specs == [Id -> Spec \cup {Off}]
Distinct(specs) ==
  \A i, j \in Id : specs[i] # Off /\ specs[j] # Off /\ specs[i].port = specs[j].port => i = j

ASSUME FirstAssumption == First \subseteq {s \in Specs : Distinct(s)}

VARIABLES
  stored,    \* the saved settings
  maps, listeners,  \* map objects; m.listeners, 0 when it is nil
  runtime,   \* the listenerRuntimes
  phase,     \* how far each runtime's Server.Close is
  serving,   \* each runtime's serveRuntime
  more,      \* how many others it has by now
  conn,      \* connections
  call,      \* handler goroutines
  errors,
  \* Why the map may not tell the truth:
  unread,    \* ApplyListeners replaced a map that it had not read
  abandoned, \* runtimes whose Accept failed
  overlapped,\* two requests were under way at once
  behind,    \* the last request to end did not apply the stored settings
  revived    \* ApplyListeners took a closed runtime for a running one

ghostVars == <<errors, unread, abandoned, overlapped, behind, revived>>
vars == <<stored, maps, listeners, runtime, phase, serving, more, conn, call, ghostVars>>

NoMap == [i \in Id |-> None]
MapOf(m) == IF m = 0 THEN NoMap ELSE maps[m]
Current == MapOf(listeners)
In(map) == {map[i] : i \in Id} \ {None}

NoRuntime == [id |-> None, spec |-> Off, base |-> Disabled, open |-> FALSE, canceled |-> FALSE]
Made == {r \in Runtime : runtime[r].id # None}
Taken(p) == \E r \in Made : runtime[r].spec.port = p /\ runtime[r].open

NoConn == [at |-> None, live |-> FALSE]

NoCall == [pc |-> "idle", base |-> Disabled, previous |-> [i \in Id |-> Off],
           undo |-> FALSE, target |-> [i \in Id |-> Off], old |-> 0, mine |-> 0,
           prepared |-> NoMap, todo |-> {}, closing |-> {}, awaits |-> None]

\* The gateway as StartFromSettings has left it.
Init ==
  /\ \E base \in Base \ {Disabled}, specs \in First, m \in [Id -> Runtime \cup {None}] :
       /\ \A i, j \in Id : m[i] = m[j] /\ m[i] # None => i = j
       /\ \A i \in Id : (m[i] = None) = (specs[i] = Off)
       /\ \A r \in In(m), q \in Runtime \ In(m) : r < q
       /\ \A i, j \in Id : i < j /\ m[i] # None /\ m[j] # None => m[i] < m[j]
       /\ stored = [base |-> base, specs |-> specs]
       /\ maps = <<m>>
       /\ runtime = [r \in Runtime |->
            IF r \in In(m)
            THEN LET i == CHOOSE i \in Id : m[i] = r
                 IN [id |-> i, spec |-> specs[i], base |-> base, open |-> TRUE, canceled |-> FALSE]
            ELSE NoRuntime]
       /\ serving = [r \in Runtime |-> IF r \in In(m) THEN "yes" ELSE "no"]
  /\ more = [r \in Runtime |-> 0]
  /\ listeners = 1
  /\ phase = [r \in Runtime |-> "open"]
  /\ conn = [c \in Conn |-> NoConn]
  /\ call = [w \in Request |-> NoCall]
  /\ errors = 0
  /\ unread = FALSE
  /\ abandoned = {}
  /\ overlapped = FALSE
  /\ behind = FALSE
  /\ revived = FALSE

Manager == <<maps, listeners>>
Servers == <<runtime, phase, serving, more, conn>>
Ghosts == ghostVars

-----------------------------------------------------------------------------
\* closeListenerRuntime on all of R up to Server.Close: no connection is
\* accepted or registered from here on.  Its rest is FinishClose.
Shut(R) ==
  /\ runtime' = [r \in Runtime |->
       IF r \in R THEN [runtime[r] EXCEPT !.open = FALSE, !.canceled = TRUE] ELSE runtime[r]]
  /\ phase' = [r \in Runtime |-> IF r \in R /\ phase[r] = "open" THEN "closing" ELSE phase[r]]

\* registry.closeAll, and a wait of at most five seconds for its connections.
FinishClose(r) ==
  /\ phase[r] = "closing"
  /\ phase' = [phase EXCEPT ![r] = "closed"]
  /\ conn' = [c \in Conn |-> IF conn[c] = [at |-> r, live |-> TRUE] THEN NoConn ELSE conn[c]]
  /\ UNCHANGED <<stored, Manager, runtime, serving, more, call, Ghosts>>

\* Accept fails, for want of file descriptors say: the server is closed, but
\* neither is the context cancelled nor the listener closed.
AcceptFails(r) ==
  /\ serving[r] = "yes" /\ runtime[r].open
  /\ errors < MaxErrors /\ errors' = errors + 1
  /\ abandoned' = abandoned \cup {r}
  /\ serving' = [serving EXCEPT ![r] = "ending"]
  /\ phase' = [phase EXCEPT ![r] = IF @ = "open" THEN "closing" ELSE @]
  /\ UNCHANGED <<stored, Manager, runtime, more, conn, call, unread, overlapped, behind, revived>>

\* The end of serveRuntime: Accept has failed, also because the listener was
\* closed, and so the server is closed.
ServeLeaves(r) ==
  /\ serving[r] = "ending" \/ (serving[r] = "yes" /\ ~runtime[r].open)
  /\ phase[r] = "closed"
  /\ serving' = [serving EXCEPT ![r] = IF more[r] > 0 THEN "yes" ELSE "over"]
  /\ more' = [more EXCEPT ![r] = IF @ > 0 THEN @ - 1 ELSE 0]
  /\ maps' = IF r \in In(Current)
             THEN [maps EXCEPT ![listeners] = [i \in Id |-> IF @[i] = r THEN None ELSE @[i]]]
             ELSE maps
  /\ UNCHANGED <<stored, listeners, runtime, phase, conn, call, Ghosts>>

-----------------------------------------------------------------------------
\* Serve accepts a connection and counts it, unless its server is closing.
Accept(r, c) ==
  /\ serving[r] = "yes" /\ runtime[r].open /\ phase[r] = "open"
  /\ conn[c] = NoConn
  /\ conn' = [conn EXCEPT ![c] = [at |-> r, live |-> FALSE]]
  /\ UNCHANGED <<stored, Manager, runtime, phase, serving, more, call, Ghosts>>

Becomes(c, state) ==
  /\ conn' = [conn EXCEPT ![c] = state]
  /\ UNCHANGED <<stored, Manager, runtime, phase, serving, more, call, Ghosts>>

\* Mutant of Register: the registry does not look at the context.
RegisterAnyway(c) ==
  /\ conn[c] # NoConn /\ ~conn[c].live
  /\ Becomes(c, [conn[c] EXCEPT !.live = TRUE])

\* registry.register: not once the context is cancelled.
Register(c) ==
  /\ conn[c] # NoConn /\ ~conn[c].live
  /\ ~runtime[conn[c].at].canceled
  /\ Becomes(c, [conn[c] EXCEPT !.live = TRUE])

\* It is refused, or ends.
Leaves(c) == conn[c] # NoConn /\ Becomes(c, NoConn)

-----------------------------------------------------------------------------
Goes(w, c) == call' = [call EXCEPT ![w] = c]
Ended == {"idle", "done"}

\* A handler starts.
Begins(w) ==
  /\ call[w].pc = "idle"
  /\ overlapped' = (overlapped \/ \E v \in Request : call[v].pc \notin Ended)

\* CreateSocks5Listener, UpdateSocks5Listener and DeleteSocks5Listener read the
\* settings ...
BeginUpdate(w) ==
  /\ Begins(w)
  /\ Goes(w, [NoCall EXCEPT !.pc = "save", !.base = stored.base,
                            !.previous = stored.specs, !.undo = TRUE])
  /\ UNCHANGED <<stored, Manager, Servers, errors, unread, abandoned, behind, revived>>

\* ... and save the one listener they are about, under listenersMu.
SaveListener(w, i, spec) ==
  /\ call[w].pc = "save"
  /\ stored.specs[i] # spec
  /\ Distinct([stored.specs EXCEPT ![i] = spec])
  /\ stored' = [stored EXCEPT !.specs[i] = spec]
  /\ Goes(w, [call[w] EXCEPT !.pc = "load"])
  /\ UNCHANGED <<Manager, Servers, Ghosts>>

\* UpdateSocks5Settings saves what the listeners share.
SaveConfig(w, base) ==
  /\ Begins(w)
  /\ stored.base # base
  /\ stored' = [stored EXCEPT !.base = base]
  /\ Goes(w, [NoCall EXCEPT !.pc = "load", !.base = base])
  /\ UNCHANGED <<Manager, Servers, errors, unread, abandoned, behind, revived>>

\* Stop takes the map away.
Stop(w) ==
  /\ Begins(w)
  /\ listeners' = 0
  /\ behind' = TRUE
  /\ Goes(w, [NoCall EXCEPT !.pc = "stop", !.closing = In(Current)])
  /\ UNCHANGED <<stored, maps, Servers, errors, unread, abandoned, revived>>

\* Apply.
LoadListeners(w) ==
  /\ call[w].pc = "load"
  /\ Goes(w, [call[w] EXCEPT !.pc = "read", !.target = stored.specs])
  /\ UNCHANGED <<stored, Manager, Servers, Ghosts>>

\* ApplyListeners reads the map.
ReadOld(w) ==
  /\ call[w].pc = "read"
  /\ Goes(w, [call[w] EXCEPT !.pc = "prepare", !.old = listeners, !.prepared = NoMap,
       !.todo = IF call[w].base = Disabled THEN {} ELSE {i \in Id : call[w].target[i] # Off}])
  /\ UNCHANGED <<stored, Manager, Servers, Ghosts>>

Old(w) == MapOf(call[w].old)
IsNext(w, i) == i \in call[w].todo /\ \A j \in call[w].todo : i <= j
Wanted(w, i) == call[w].target[i]
OldHasPort(w, i) == Old(w)[i] # None /\ runtime[Old(w)[i]].spec.port = Wanted(w, i).port
\* Mutant of Reusable: the comparison sees the endpoint only.
ReusablePort(w, i) == OldHasPort(w, i)

Reusable(w, i) ==
  /\ Old(w)[i] # None
  /\ runtime[Old(w)[i]].spec = Wanted(w, i) /\ runtime[Old(w)[i]].base = call[w].base

\* The next listener keeps its runtime.
Reuse(w, i) ==
  /\ call[w].pc = "prepare" /\ IsNext(w, i) /\ Reusable(w, i)
  /\ Goes(w, [call[w] EXCEPT !.todo = @ \ {i}, !.prepared[i] = Old(w)[i]])
  /\ revived' = (revived \/ ~runtime[Old(w)[i]].open)
  /\ UNCHANGED <<stored, Manager, Servers, errors, unread, abandoned, overlapped, behind>>

\* The runtime it has begun to close is closed.
Waited(w) == call[w].awaits # None => phase[call[w].awaits] = "closed"

\* Fresh names are taken in order.
Fresh(r) == r \notin Made /\ \A q \in Runtime \ Made : r <= q
Opened(r, i, spec, base) ==
  runtime' = [runtime EXCEPT ![r] =
    [id |-> i, spec |-> spec, base |-> base, open |-> TRUE, canceled |-> FALSE]]

\* It gets a new one, perhaps after its old one was closed for it.
Listen(w, i, r) ==
  /\ IsNext(w, i)
  /\ \/ call[w].pc = "prepare" /\ ~Reusable(w, i)
     \/ call[w].pc = "evict" /\ Waited(w)
  /\ Fresh(r) /\ ~Taken(Wanted(w, i).port)
  /\ Opened(r, i, Wanted(w, i), call[w].base)
  /\ Goes(w, [call[w] EXCEPT !.pc = "prepare", !.todo = @ \ {i}, !.prepared[i] = r])
  /\ UNCHANGED <<stored, Manager, phase, serving, more, conn, Ghosts>>

\* Listen fails: the port is taken, or for another reason.
Fails(p) ==
  /\ \/ Taken(p) /\ errors' = errors
     \/ ~Taken(p) /\ errors < MaxErrors /\ errors' = errors + 1
  /\ UNCHANGED <<unread, abandoned, overlapped, behind>>

\* Mutant of Aborted: the error path returns at once.
AbortedKeepingNew(w) ==
  [call[w] EXCEPT !.pc = "abort", !.todo = {}, !.awaits = None, !.closing = {}]

\* The error path: what is new in prepared is closed.
Aborted(w) ==
  [call[w] EXCEPT !.pc = "abort", !.todo = {}, !.awaits = None,
    !.closing = {call[w].prepared[i] : i \in {j \in Id : Old(w)[j] # call[w].prepared[j]}} \ {None}]

\* The listener's own old runtime holds the port: it is closed first.
Evict(w, i) ==
  /\ call[w].pc = "prepare" /\ IsNext(w, i) /\ OldHasPort(w, i) /\ ~Reusable(w, i)
  /\ Fails(Wanted(w, i).port)
  /\ Shut({Old(w)[i]})
  /\ Goes(w, [call[w] EXCEPT !.pc = "evict", !.awaits = Old(w)[i]])
  /\ UNCHANGED <<stored, Manager, serving, more, conn, revived>>

\* The error path without an old runtime on the port ...
ListenFails(w, i) ==
  /\ call[w].pc = "prepare" /\ IsNext(w, i) /\ ~OldHasPort(w, i)
  /\ Fails(Wanted(w, i).port)
  /\ Goes(w, Aborted(w))
  /\ UNCHANGED <<stored, Manager, Servers, revived>>

\* ... and the one after an eviction, which calls restoreRuntime: it writes
\* into the map that is current by now.
ListenFailsAgain(w, i) ==
  /\ call[w].pc = "evict" /\ Waited(w) /\ IsNext(w, i)
  /\ Fails(Wanted(w, i).port)
  /\ Goes(w, [call[w] EXCEPT !.pc = "restore"])
  /\ UNCHANGED <<stored, Manager, Servers, revived>>

restoreRuntime(w, i, r) ==
  /\ call[w].pc = "restore" /\ IsNext(w, i)
  /\ Fresh(r) /\ ~Taken(Wanted(w, i).port)
  /\ Opened(r, i, runtime[call[w].awaits].spec, runtime[call[w].awaits].base)
  /\ serving' = [serving EXCEPT ![r] = "yes"]
  /\ listeners' = IF listeners = 0 THEN Len(maps) + 1 ELSE listeners
  /\ maps' = IF listeners = 0 THEN Append(maps, [NoMap EXCEPT ![i] = r])
             ELSE [maps EXCEPT ![listeners][i] = r]
  /\ unread' = (unread \/ listeners # call[w].old)
  /\ Goes(w, Aborted(w))
  /\ UNCHANGED <<stored, phase, more, conn, errors, abandoned, overlapped, behind, revived>>

RestoreFails(w, i) ==
  /\ call[w].pc = "restore" /\ IsNext(w, i)
  /\ Fails(Wanted(w, i).port)
  /\ Goes(w, Aborted(w))
  /\ UNCHANGED <<stored, Manager, Servers, revived>>

\* closeListenerRuntime, one after the other.
CloseNext(w, r) ==
  /\ call[w].pc \in {"abort", "swap", "stop"} /\ Waited(w)
  /\ r \in call[w].closing
  /\ Shut({r})
  /\ Goes(w, [call[w] EXCEPT !.closing = @ \ {r}, !.awaits = r])
  /\ UNCHANGED <<stored, Manager, serving, more, conn, Ghosts>>

AllClosed(w) == call[w].closing = {} /\ Waited(w)

\* ApplyListeners has returned its error: rollbackSocks5Listeners.
Rollback(w) ==
  /\ call[w].pc = "abort" /\ AllClosed(w) /\ call[w].undo
  /\ stored' = [stored EXCEPT !.specs = call[w].previous]
  /\ Goes(w, [call[w] EXCEPT !.pc = "read", !.undo = FALSE, !.target = call[w].previous])
  /\ UNCHANGED <<Manager, Servers, Ghosts>>

\* The settings have no rollback, and nobody looks at the rollback's error.
GivesUp(w) ==
  /\ call[w].pc = "abort" /\ AllClosed(w) /\ ~call[w].undo
  /\ Goes(w, [NoCall EXCEPT !.pc = "done"])
  /\ behind' = TRUE
  /\ UNCHANGED <<stored, Manager, Servers, errors, unread, abandoned, overlapped, revived>>

\* ApplyListeners publishes its map.
Publish(w) ==
  /\ call[w].pc = "prepare" /\ call[w].todo = {}
  /\ maps' = Append(maps, call[w].prepared)
  /\ listeners' = Len(maps) + 1
  /\ unread' = (unread \/ listeners # call[w].old)
  /\ Goes(w, [call[w] EXCEPT !.pc = "swap", !.mine = Len(maps) + 1, !.awaits = None,
       !.closing = {Old(w)[i] : i \in {j \in Id : Old(w)[j] # call[w].prepared[j]}} \ {None}])
  /\ UNCHANGED <<stored, Servers, errors, abandoned, overlapped, behind, revived>>

\* The new runtimes of the map are served only now, and so are those that the old
\* map has lost in the meantime: they are served again.
ServeNew(w) ==
  /\ call[w].pc = "swap" /\ AllClosed(w)
  /\ LET new == {maps[call[w].mine][i] : i \in {j \in Id : maps[call[w].mine][j] # Old(w)[j]}}
         has == {r \in Runtime : serving[r] \in {"yes", "ending"}}
     IN /\ serving' = [r \in Runtime |-> IF r \in new \ has THEN "yes" ELSE serving[r]]
        /\ more' = [r \in Runtime |-> more[r] + IF r \in new \cap has THEN 1 ELSE 0]
  /\ Goes(w, [NoCall EXCEPT !.pc = "done"])
  /\ behind' = FALSE
  /\ UNCHANGED <<stored, Manager, runtime, phase, conn, errors, unread, abandoned, overlapped, revived>>

Stopped(w) ==
  /\ call[w].pc = "stop" /\ AllClosed(w)
  /\ Goes(w, [NoCall EXCEPT !.pc = "done"])
  /\ UNCHANGED <<stored, Manager, Servers, Ghosts>>

ServerNext ==
  \/ \E r \in Runtime :
       FinishClose(r) \/ AcceptFails(r) \/ ServeLeaves(r)
  \/ \E c \in Conn : Register(c) \/ Leaves(c) \/ \E r \in Runtime : Accept(r, c)

Next ==
  \/ ServerNext
  \/ \E w \in Request :
       \/ BeginUpdate(w) \/ Stop(w)
       \/ \E base \in Base : SaveConfig(w, base)
       \/ \E i \in Id, spec \in Spec \cup {Off} : SaveListener(w, i, spec)
       \/ LoadListeners(w) \/ ReadOld(w)
       \/ \E r \in Runtime : CloseNext(w, r)
       \/ Rollback(w) \/ GivesUp(w) \/ Publish(w) \/ ServeNew(w) \/ Stopped(w)
       \/ \E i \in Id :
            \/ Reuse(w, i) \/ Evict(w, i) \/ ListenFails(w, i)
            \/ ListenFailsAgain(w, i) \/ RestoreFails(w, i)
            \/ \E r \in Runtime : Listen(w, i, r) \/ restoreRuntime(w, i, r)

ListenersSpec == Init /\ [][Next]_vars

-----------------------------------------------------------------------------
\* A listener that accepts on a port is in the manager's map, or in the hands
\* of a request that will put it there or close it.  Two causes leave one that
\* no later request can find: requests that did not read each other's map, and
\* a failed Accept, which forgets the listener with its port still bound.
ForgottenHasACause ==
  \A r \in Made : runtime[r].open =>
    \/ r \in In(Current)
    \/ \E w \in Request : r \in In(call[w].prepared) \cup call[w].closing
    \/ unread \/ r \in abandoned

\* A closed server has closed every session it accepted, also one that was
\* accepted while it closed; the exception is a server whose Accept failed.
ClosedServerHasNoSession ==
  \A r \in Runtime, c \in Conn :
    phase[r] = "closed" /\ conn[c] = [at |-> r, live |-> TRUE]
      => r \in abandoned

Idle == \A w \in Request : call[w].pc \in Ended

\* Requests that come one at a time leave the gateway as the settings say,
\* unless one of them failed or took a listener for running that an earlier
\* failure had closed.
SettledIsStored ==
  Idle /\ ~overlapped /\ ~behind /\ ~revived /\ abandoned = {} =>
    \A i \in Id :
      LET r == Current[i]
          spec == IF stored.base = Disabled THEN Off ELSE stored.specs[i]
      IN IF spec = Off THEN r = None
         ELSE /\ r # None /\ runtime[r].open /\ serving[r] = "yes"
              /\ runtime[r].spec = spec /\ runtime[r].base = stored.base
=============================================================================
