-------------------------- MODULE TemplateSessions --------------------------
(***************************************************************************)
(* The edit sessions of the template assistant, as the server keeps them   *)
(* in memory for one owner (services/ai/template_edit_session_store.go and *)
(* its handlers in api/template.go).  A stream creates a session and       *)
(* drives it to a preview; an accept, a discard and the 15 minutes' expiry *)
(* may come at any time.                                                   *)
(*                                                                         *)
(* Texts are abstract, and what the model and the validation answer is a   *)
(* choice between a candidate and a failure.                               *)
(***************************************************************************)
EXTENDS Naturals, FiniteSets

CONSTANTS
  Session,    \* the session ids handed out
  MaxActive   \* maxActivePerOwner

ASSUME SessionsAssumption == IsFiniteSet(Session) /\ MaxActive \in Nat \ {0}

VARIABLES
  status,   \* the status of each session; "none" before Create
  stream    \* what the session's stream does to it next, "over" at its end

editSessionVars == <<status, stream>>

Final == {"accepted", "discarded", "failed"}
Status == {"created", "streaming", "operations_ready", "validating", "preview_ready"} \cup Final

Stored(s) == status[s] \in Status

SessionsInit ==
  /\ status = [s \in Session |-> "none"]
  /\ stream = [s \in Session |-> "over"]

\* The successful steps of a stream, in order.
Following ==
  [created |-> "streaming", streaming |-> "operations_ready",
   operations_ready |-> "validating", validating |-> "preview_ready",
   preview_ready |-> "accepted"]

isTransitionAllowed(from, to) ==
  \/ from = to
  \/ from \notin Final /\ to \in {"failed", "discarded", Following[from]}

\* UpdateForOwner's check: an expired session is gone.
CanUpdate(s, to) == Stored(s) /\ isTransitionAllowed(status[s], to)

\* Mutant of UpdateForOwner: the status found is not looked at.
UpdateBlindly(s, to) ==
  status' = IF Stored(s) THEN [status EXCEPT ![s] = to] ELSE status

\* UpdateForOwner; a refused update changes nothing.
UpdateForOwner(s, to) ==
  status' = IF CanUpdate(s, to) THEN [status EXCEPT ![s] = to] ELSE status

activeSessionCount == Cardinality({s \in Session : Stored(s) /\ status[s] \notin Final})

-----------------------------------------------------------------------------
\* StartTemplateAIEditSessionStream up to its first event.
Create(s) ==
  /\ status[s] = "none"
  /\ activeSessionCount < MaxActive
  /\ status' = [status EXCEPT ![s] = "created"]
  /\ stream' = [stream EXCEPT ![s] = "streaming"]

\* The stream's next update; it ends when that is refused, and after the
\* preview.
StreamAdvances(s) ==
  /\ stream[s] # "over"
  /\ UpdateForOwner(s, stream[s])
  /\ stream' = [stream EXCEPT ![s] =
       IF CanUpdate(s, stream[s]) /\ stream[s] # "preview_ready"
       THEN Following[stream[s]] ELSE "over"]

\* The model, its cancelled request or the validation fails.
StreamFails(s) ==
  /\ stream[s] \in {"operations_ready", "preview_ready"}
  /\ UpdateForOwner(s, "failed")
  /\ stream' = [stream EXCEPT ![s] = "over"]

\* getLocked and expireExpired: after its TTL a session is deleted.
ExpireEdit(s) ==
  /\ Stored(s)
  /\ status' = [status EXCEPT ![s] = "gone"]
  /\ UNCHANGED stream

\* AcceptTemplateAIEditSession's last step; the status was read, and the base
\* compared, under an earlier lock.
AcceptUpdates(s) == UpdateForOwner(s, "accepted") /\ UNCHANGED stream

\* DiscardTemplateAIEditSession
DiscardUpdates(s) == UpdateForOwner(s, "discarded") /\ UNCHANGED stream

-----------------------------------------------------------------------------
SessionsTypeOK ==
  /\ status \in [Session -> Status \cup {"none", "gone"}]
  /\ stream \in [Session -> {"streaming", "operations_ready", "validating", "preview_ready", "over"}]

\* A session that has been accepted, discarded or has failed never becomes
\* anything else, whichever answers were lost and whatever its stream, a
\* retried accept or a late discard still ask of it: it can only expire.
SessionEndIsFinal ==
  [][\A s \in Session : status[s] \in Final => status'[s] \in {status[s], "gone"}]_editSessionVars
=============================================================================
