--------------------------- MODULE SessionStream ---------------------------
(***************************************************************************)
(* One browser tab: its login state and its event stream                   *)
(* (contexts/AuthContext.jsx, the 401 rule of api/request.js), and the     *)
(* server's side of the stream: the broker (services/sse/sse.go) and the   *)
(* handler (api/sse.go).                                                   *)
(*                                                                         *)
(* The access token lives in localStorage, which every tab of the browser  *)
(* shares.  A heartbeat only re-arms a timer that is armed already, so the *)
(* broker's ticker is left out; that a heartbeat comes too late is         *)
(* HeartbeatExpires, which may happen at any time.                         *)
(***************************************************************************)
EXTENDS Naturals, Sequences

CONSTANTS
  Event,        \* what the broker broadcasts
  NotifierCap,  \* room of SSEBroker.Notifier (100)
  WireCap,      \* room of a client's channel (50)
  MaxRestarts   \* bound on the restarts of the server

ASSUME StreamAssumption ==
  /\ NotifierCap \in Nat \ {0}
  /\ WireCap \in Nat \ {0}
  /\ MaxRestarts \in Nat

VARIABLES
  token,      \* localStorage's accessToken, as the server would judge it
  foreign,    \* another tab has removed the token since this tab connected
  booted,     \* isInitialized
  authed,     \* isAuthenticated
  call,       \* the login code's pending request
  source,     \* eventSource
  urlToken,   \* the token in eventSource's URL
  heartbeat,  \* heartbeatTimeout is armed
  reconnect,  \* reconnectTimeout is armed
  up,         \* the server runs
  restarts,
  registered, \* the source's request has its channel in broker.clients
  notifier,   \* broker.Notifier
  wire        \* that channel

tabVars == <<booted, authed, call>>
streamVars == <<source, urlToken, heartbeat, reconnect, registered, wire>>
serverVars == <<up, restarts, notifier>>
sessionVars == <<token, foreign, tabVars, streamVars, serverVars>>

Token == {"none", "valid", "revoked"}

SessionInit ==
  /\ token \in {"none", "valid"}
  /\ foreign = FALSE
  /\ booted = FALSE
  /\ authed = FALSE
  /\ call = "none"
  /\ source = "none"
  /\ urlToken = "none"
  /\ heartbeat = FALSE
  /\ reconnect = FALSE
  /\ up = TRUE
  /\ restarts = 0
  /\ registered = FALSE
  /\ notifier = <<>>
  /\ wire = <<>>

-----------------------------------------------------------------------------
\* The source is closed, or replaced: what was under way on it is lost.
Unplug == registered' = FALSE /\ wire' = <<>>

\* connectSSE with no open source.
OpenSource ==
  /\ source' = IF token = "none" THEN "none" ELSE "connecting"
  /\ urlToken' = token
  /\ foreign' = (foreign /\ token = "none")
  /\ Unplug

connectSSE ==
  IF source = "open" \/ token = "none"
  THEN UNCHANGED <<source, urlToken, registered, wire, foreign>>
  ELSE OpenSource

CloseSource ==
  /\ source' = "none"
  /\ urlToken' = "none"
  /\ Unplug

\* Mutant of disconnectSSE: the timer of a reconnection survives.
DisconnectKeepingTimer ==
  /\ CloseSource
  /\ heartbeat' = FALSE
  /\ UNCHANGED reconnect

disconnectSSE ==
  /\ CloseSource
  /\ heartbeat' = FALSE
  /\ reconnect' = FALSE

\* The document is loaded again: everything but localStorage starts afresh.
Reload ==
  /\ booted' = FALSE
  /\ authed' = FALSE
  /\ call' = "none"
  /\ foreign' = FALSE
  /\ heartbeat' = FALSE
  /\ reconnect' = FALSE
  /\ CloseSource

-----------------------------------------------------------------------------
\* initAuth, up to its request.
InitAuth ==
  /\ ~booted /\ call = "none"
  /\ booted' = (token = "none")
  /\ call' = IF token = "none" THEN "none" ELSE "boot"
  /\ UNCHANGED <<token, foreign, authed, streamVars, serverVars>>

InitAuthOk ==
  /\ call = "boot"
  /\ call' = "none"
  /\ booted' = TRUE
  /\ authed' = TRUE
  /\ connectSSE
  /\ UNCHANGED <<token, heartbeat, reconnect, serverVars>>

InitAuthFails ==
  /\ call = "boot"
  /\ call' = "none"
  /\ booted' = TRUE
  /\ token' = "none"
  /\ UNCHANGED <<foreign, authed, streamVars, serverVars>>

\* The login form has one request at a time; call is "challenged" while it
\* shows the second step.
performLogin ==
  /\ booted /\ ~authed
  /\ call = "none" /\ call' = "login"
  /\ UNCHANGED <<token, foreign, booted, authed, streamVars, serverVars>>

handleMfaSubmit ==
  /\ call = "challenged" /\ call' = "mfa"
  /\ UNCHANGED <<token, foreign, booted, authed, streamVars, serverVars>>

handleBackToCredentials ==
  /\ call = "challenged" /\ call' = "none"
  /\ UNCHANGED <<token, foreign, booted, authed, streamVars, serverVars>>

\* login or verifyMfa is answered with a token: the first half of finalizeAuth.
LoginAccepted ==
  /\ \/ call = "login" /\ call' = "userinfo"
     \/ call = "mfa" /\ call' = "mfa_userinfo"
  /\ token' = "valid"
  /\ foreign' = FALSE
  /\ UNCHANGED <<booted, authed, streamVars, serverVars>>

\* login is answered with a second-factor challenge.
LoginChallenged ==
  /\ call = "login"
  /\ call' = "challenged"
  /\ token' = "none"
  /\ authed' = FALSE
  /\ disconnectSSE
  /\ UNCHANGED <<foreign, booted, serverVars>>

LoginRejected ==
  /\ \/ call = "login" /\ call' = "none"
     \/ call = "mfa" /\ call' = "challenged"
  /\ UNCHANGED <<token, foreign, booted, authed, streamVars, serverVars>>

\* The second half of finalizeAuth.
FinalizeAuth ==
  /\ call \in {"userinfo", "mfa_userinfo"}
  /\ call' = "none"
  /\ authed' = TRUE
  /\ connectSSE
  /\ UNCHANGED <<token, booted, heartbeat, reconnect, serverVars>>

\* getUserInfo fails: the token stays in localStorage unless it was refused.
FinalizeAuthFails ==
  /\ \/ call = "userinfo" /\ call' = "none"
     \/ call = "mfa_userinfo" /\ call' = "challenged"
  /\ token' \in {token, "none"}
  /\ UNCHANGED <<foreign, booted, authed, streamVars, serverVars>>

Logout ==
  /\ authed /\ call = "none"
  /\ call' = "logout"
  /\ UNCHANGED <<token, foreign, booted, authed, streamVars, serverVars>>

\* logout's finally block, whatever logoutApi answered.
LogoutDone ==
  /\ call = "logout"
  /\ call' = "none"
  /\ token' = "none"
  /\ authed' = FALSE
  /\ disconnectSSE
  /\ UNCHANGED <<foreign, booted, serverVars>>

\* request.js: an answer 401 or 403 to any request of the signed-in tab.
Unauthorized ==
  /\ authed /\ up
  /\ token # "valid"
  /\ token' = "none"
  /\ Reload
  /\ UNCHANGED serverVars

UserReloads ==
  /\ booted
  /\ Reload
  /\ UNCHANGED <<token, serverVars>>

-----------------------------------------------------------------------------
\* The token runs out, or is withdrawn by the server.
Expire ==
  /\ token = "valid"
  /\ token' = "revoked"
  /\ urlToken' = IF urlToken = "valid" THEN "revoked" ELSE urlToken
  /\ UNCHANGED <<foreign, tabVars, source, heartbeat, reconnect, registered, wire, serverVars>>

\* Another tab signs in or out.
OtherTab ==
  /\ token' \in {"none", "valid"}
  /\ foreign' = (foreign \/ token' = "none")
  /\ UNCHANGED <<tabVars, streamVars, serverVars>>

\* The JWT middleware lets the request through and StreamSSE adds its channel.
StreamSSE ==
  /\ source = "connecting" /\ ~registered
  /\ up /\ urlToken = "valid"
  /\ registered' = TRUE
  /\ UNCHANGED <<token, foreign, tabVars, source, urlToken, heartbeat, reconnect, wire, serverVars>>

OnOpen ==
  /\ source = "connecting" /\ registered
  /\ source' = "open"
  /\ heartbeat' = TRUE
  /\ UNCHANGED <<token, foreign, tabVars, urlToken, reconnect, registered, wire, serverVars>>

\* sendSSEAuthError and the listener of auth_error, which removes whatever
\* token is there by now and loads the login page.
OnAuthError ==
  /\ source = "connecting" /\ ~registered
  /\ up /\ urlToken = "revoked"
  /\ token' = "none"
  /\ Reload
  /\ UNCHANGED serverVars

\* Mutant of OnError: nobody tries again.
OnErrorGivesUp ==
  /\ source # "none"
  /\ CloseSource
  /\ UNCHANGED <<token, foreign, tabVars, heartbeat, reconnect, serverVars>>

OnError ==
  /\ source # "none"
  /\ CloseSource
  /\ reconnect' = TRUE
  /\ UNCHANGED <<token, foreign, tabVars, heartbeat, serverVars>>

ReconnectFires ==
  /\ reconnect
  /\ reconnect' = FALSE
  /\ connectSSE
  /\ UNCHANGED <<token, tabVars, heartbeat, serverVars>>

\* The callback of resetHeartbeat.
HeartbeatExpires ==
  /\ heartbeat
  /\ heartbeat' = FALSE
  /\ OpenSource
  /\ UNCHANGED <<token, tabVars, reconnect, serverVars>>

\* An event reaches the tab; every listener calls resetHeartbeat.
Receive(e) ==
  /\ source = "open" /\ wire # <<>>
  /\ e = Head(wire)
  /\ wire' = Tail(wire)
  /\ heartbeat' = TRUE
  /\ UNCHANGED <<token, foreign, tabVars, source, urlToken, reconnect, registered, serverVars>>

-----------------------------------------------------------------------------
\* BroadcastProgress: the send blocks while the channel is full.
Broadcast(e) ==
  /\ up /\ Len(notifier) < NotifierCap
  /\ notifier' = Append(notifier, e)
  /\ UNCHANGED <<token, foreign, tabVars, streamVars, up, restarts>>

Reaches == registered /\ Len(wire) < WireCap

\* Mutant of Forward: the broker waits for a slow client.
ForwardWaiting ==
  /\ notifier # <<>>
  /\ registered => Len(wire) < WireCap
  /\ notifier' = Tail(notifier)
  /\ wire' = IF registered THEN Append(wire, Head(notifier)) ELSE wire
  /\ UNCHANGED <<token, foreign, tabVars, source, urlToken, heartbeat, reconnect, registered, up, restarts>>

\* Listen: a client whose channel is full misses the event.
Forward ==
  /\ notifier # <<>>
  /\ notifier' = Tail(notifier)
  /\ wire' = IF Reaches THEN Append(wire, Head(notifier)) ELSE wire
  /\ UNCHANGED <<token, foreign, tabVars, source, urlToken, heartbeat, reconnect, registered, up, restarts>>

Crash ==
  /\ up /\ restarts < MaxRestarts
  /\ up' = FALSE
  /\ restarts' = restarts + 1
  /\ notifier' = <<>>
  /\ Unplug
  /\ UNCHANGED <<token, foreign, tabVars, source, urlToken, heartbeat, reconnect>>

Start ==
  /\ ~up
  /\ up' = TRUE
  /\ UNCHANGED <<token, foreign, tabVars, streamVars, restarts, notifier>>

\* What happens to the tab alone, and what loads its document again.
TabStep ==
  \/ InitAuth \/ InitAuthOk \/ InitAuthFails
  \/ performLogin \/ handleMfaSubmit \/ handleBackToCredentials \/ LoginAccepted \/ LoginChallenged \/ LoginRejected
  \/ FinalizeAuth \/ FinalizeAuthFails \/ Logout \/ LogoutDone
  \/ Expire \/ OtherTab
  \/ StreamSSE \/ OnOpen \/ OnError \/ ReconnectFires \/ HeartbeatExpires

TabReloads == Unauthorized \/ UserReloads \/ OnAuthError

-----------------------------------------------------------------------------
SessionTypeOK ==
  /\ token \in Token /\ urlToken \in Token
  /\ {foreign, booted, authed, heartbeat, reconnect, up, registered} \subseteq BOOLEAN
  /\ call \in {"none", "boot", "login", "challenged", "mfa",
              "userinfo", "mfa_userinfo", "logout"}
  /\ source \in {"none", "connecting", "open"}
  /\ restarts \in 0 .. MaxRestarts
  /\ notifier \in Seq(Event) /\ Len(notifier) <= NotifierCap
  /\ wire \in Seq(Event) /\ Len(wire) <= WireCap
  /\ registered => source # "none"

\* A tab nobody is signed in to has no stream and no timer that would open
\* one: no order of logouts, refused tokens, challenges, errors and timers
\* leaves a stream of the old session behind.
LoggedOutIsQuiet ==
  ~authed => source = "none" /\ ~heartbeat /\ ~reconnect

\* A signed-in tab gets its stream back after every error, silence and restart
\* of the server, or is signed out; it stays deaf in one case only: another
\* tab removed the token, and connectSSE found none.
SignedInTabListens == authed ~> (source = "open" \/ ~authed \/ foreign)

\* A tab that stops reading cannot hold up the server: the send of the task
\* manager, which blocks with its mutex held, always finds room again.
SlowTabBlocksNobody == (Len(notifier) = NotifierCap) ~> (Len(notifier) < NotifierCap)
=============================================================================
