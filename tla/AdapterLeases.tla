--------------------------- MODULE AdapterLeases ---------------------------
(***************************************************************************)
(* What the SOCKS5 adapter pool promises to its users, without the pool:   *)
(* outbound adapters are created, used by any number of connections at a   *)
(* time, and closed at most once, when no connection uses them.            *)
(* AdapterPool implements it.                                              *)
(***************************************************************************)
CONSTANTS Conn, Entry, None

VARIABLES life, user

leaseVars == <<life, user>>

TypeOK ==
  /\ life \in [Entry -> {"absent", "live", "closed"}]
  /\ user \in [Conn -> Entry \cup {None}]

Init ==
  /\ life = [e \in Entry |-> "absent"]
  /\ user = [c \in Conn |-> None]

\* Connection c starts to use adapter e, which may have to be created first.
Use(c, e) ==
  /\ user[c] = None
  /\ life[e] # "closed"
  /\ user' = [user EXCEPT ![c] = e]
  /\ life' = [life EXCEPT ![e] = "live"]

\* Connection c no longer uses its adapter.
Leave(c) ==
  /\ user[c] # None
  /\ user' = [user EXCEPT ![c] = None]
  /\ UNCHANGED life

\* An adapter nobody uses is closed, for good.
Close(e) ==
  /\ life[e] = "live"
  /\ \A c \in Conn : user[c] # e
  /\ life' = [life EXCEPT ![e] = "closed"]
  /\ UNCHANGED user

Next ==
  \/ \E c \in Conn : (\E e \in Entry : Use(c, e)) \/ Leave(c)
  \/ \E e \in Entry : Close(e)

Spec == Init /\ [][Next]_leaseVars
=============================================================================
