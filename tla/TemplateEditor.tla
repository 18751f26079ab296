--------------------------- MODULE TemplateEditor ---------------------------
(***************************************************************************)
(* The template editor of a tab with its assistant                         *)
(* (views/templates/index.jsx): the dialog's form, the candidate generated *)
(* for it, and the answers to accepts, discards, conversions and saves,    *)
(* any of which may come after the user has typed on, closed the dialog or *)
(* opened another template.  An answer that is lost or takes more than the *)
(* client's 30 seconds leaves the server's handler running.                *)
(*                                                                         *)
(* A text is the template it was loaded from, one of Typed (what the user  *)
(* or a conversion makes) or the session whose candidate it is.  The list  *)
(* is as new as the files; new and deleted templates, base templates, the  *)
(* prompt and the form's other fields are left out.                        *)
(***************************************************************************)
EXTENDS TemplateSessions

CONSTANTS Template, NoTemplate, Typed, NoSession

ASSUME EditorAssumption ==
  NoTemplate \notin Template \cup Typed \cup Session /\ NoSession \notin Session

VARIABLES
  saved,       \* the template files
  open,        \* currentTemplate while dialogOpen
  form,        \* formData
  diff,        \* templateEditorMode is "diff"
  assistant,   \* aiAssistant
  generating,  \* aiGenerating
  base,        \* the form each session was started with
  accept,      \* the accept the editor waits for
  discarding,  \* aiPreviewDiscarding
  converting,  \* the form convertRules was called with
  save,        \* the save under way
  handlers     \* the accepts and discards the server has yet to handle

editorVars == <<editSessionVars, saved, open, form, diff, assistant,
                generating, base, accept, discarding, converting, save, handlers>>

Text == Template \cup Typed \cup Session
NoForm == [name |-> NoTemplate, text |-> NoTemplate]
Form == [name : Template, text : Text]
NoAssistant == [session |-> NoSession, candidate |-> FALSE, accepted |-> FALSE]
NoAccept == [session |-> NoSession, sent |-> NoForm]
NoSave == [old |-> NoTemplate, form |-> NoForm]
Handler == [call : {"accept", "accept_checked", "discard"}, session : Session, text : Text]

EditorInit ==
  /\ SessionsInit
  /\ saved = [t \in Template |-> t]
  /\ open = NoTemplate /\ form = NoForm
  /\ diff = FALSE
  /\ assistant = NoAssistant /\ generating = FALSE
  /\ base = [s \in Session |-> NoForm]
  /\ accept = NoAccept
  /\ discarding = FALSE
  /\ converting = NoForm
  /\ save = NoSave
  /\ handlers = {}

Files == <<saved, save>>
Assistance == <<assistant, generating, diff>>
Server == <<editSessionVars, base, handlers>>
Waiting == <<accept, discarding, converting>>

aiPreviewBusy == generating \/ accept # NoAccept \/ discarding

\* There is a candidate, it is not the editor's text, and it was generated
\* from this very form.
Reviewable(f) ==
  /\ assistant.session # NoSession /\ assistant.candidate
  /\ f.text # assistant.session /\ base[assistant.session] = f

resetTemplateAIAssistant ==
  assistant' = NoAssistant /\ generating' = FALSE /\ diff' = FALSE

\* What the form holds while the dialog is closed is never seen.
Shown(f) == IF open = NoTemplate THEN NoForm ELSE f

-----------------------------------------------------------------------------
handleEdit(t) ==
  /\ open = NoTemplate /\ open' = t
  /\ form' = [name |-> t, text |-> saved[t]]
  /\ resetTemplateAIAssistant
  /\ UNCHANGED <<Files, Server, Waiting>>

\* The cancel button, at any time.
handleCloseDialog ==
  /\ open # NoTemplate /\ open' = NoTemplate /\ form' = NoForm
  /\ resetTemplateAIAssistant
  /\ UNCHANGED <<Files, Server, Waiting>>

\* The editor is read-only while a conversion is under way, and hidden by the
\* comparison.
Type(text) ==
  /\ open # NoTemplate /\ ~diff /\ converting = NoForm
  /\ text # form.text /\ form' = [form EXCEPT !.text = text]
  /\ UNCHANGED <<open, Files, Assistance, Server, Waiting>>

\* The two buttons of the mode.
SwitchMode ==
  /\ open # NoTemplate /\ ~generating
  /\ diff' = ~diff /\ (diff' => Reviewable(form))
  /\ UNCHANGED <<open, form, assistant, generating, Files, Server, Waiting>>

\* handleGenerateWithAI; the server may be at its limit.
handleGenerateWithAI ==
  /\ open # NoTemplate /\ ~aiPreviewBusy
  /\ diff' = FALSE
  /\ \/ \E s \in Session :
          /\ Create(s)
          /\ base' = [base EXCEPT ![s] = form]
          /\ assistant' = [NoAssistant EXCEPT !.session = s]
          /\ generating' = TRUE
     \/ /\ activeSessionCount >= MaxActive
        /\ assistant' = NoAssistant
        /\ UNCHANGED <<editSessionVars, base, generating>>
  /\ UNCHANGED <<open, form, handlers, Files, Waiting>>

\* The preview has come, to whatever the editor shows by now.
GenerationAnswered ==
  /\ generating /\ generating' = FALSE
  /\ stream[assistant.session] = "over" /\ status[assistant.session] = "preview_ready"
  /\ assistant' = [assistant EXCEPT !.candidate = TRUE]
  /\ diff' = (base[assistant.session] = form)
  /\ UNCHANGED <<open, form, Files, Server, Waiting>>

\* An error event or a broken connection, perhaps after the preview.
GenerationFails ==
  /\ generating /\ generating' = FALSE
  /\ assistant' \in {assistant, [assistant EXCEPT !.candidate =
                                   status[assistant.session] = "preview_ready"]}
  /\ UNCHANGED <<diff, open, form, Files, Server, Waiting>>

-----------------------------------------------------------------------------
\* Mutant of canAcceptAIPreview: an outdated candidate may be accepted.
AnyPreview ==
  /\ assistant.session # NoSession /\ assistant.candidate
  /\ ~assistant.accepted /\ form.text # assistant.session

canAcceptAIPreview == ~assistant.accepted /\ Reviewable(form)

handleAcceptAIPreview ==
  /\ open # NoTemplate /\ ~aiPreviewBusy /\ canAcceptAIPreview
  /\ accept' = [session |-> assistant.session, sent |-> form]
  /\ handlers' = handlers \cup
       {[call |-> "accept", session |-> assistant.session, text |-> form.text]}
  /\ UNCHANGED <<open, form, discarding, converting, editSessionVars, base, Files, Assistance>>

\* AcceptTemplateAIEditSession up to its update: the preview must be ready,
\* and the editor's text or the saved file must be the session's base.
\* Otherwise it answers with an error, which AcceptFails is about.
AcceptChecks(h) ==
  /\ h.call = "accept"
  /\ handlers' = (handlers \ {h}) \cup
       IF /\ status[h.session] = "preview_ready"
          /\ base[h.session].text \in {h.text, saved[base[h.session].name]}
       THEN {[h EXCEPT !.call = "accept_checked"]} ELSE {}
  /\ UNCHANGED <<open, form, editSessionVars, base, Files, Assistance, Waiting>>

\* The update, and its answer in time: the candidate replaces the text the
\* form has by now.
AcceptAnswered(h) ==
  /\ h.call = "accept_checked"
  /\ h.session = accept.session /\ h.text = accept.sent.text
  /\ CanUpdate(h.session, "accepted")
  /\ AcceptUpdates(h.session)
  /\ handlers' = handlers \ {h}
  /\ accept' = NoAccept
  /\ form' = Shown([form EXCEPT !.text = h.session])
  /\ diff' = FALSE
  /\ assistant' = [assistant EXCEPT !.accepted = TRUE, !.candidate = TRUE]
  /\ UNCHANGED <<open, generating, discarding, converting, base, Files>>

\* The update alone: it is refused, or its answer does not reach the editor.
AcceptHandled(h) ==
  /\ h.call = "accept_checked"
  /\ AcceptUpdates(h.session)
  /\ handlers' = handlers \ {h}
  /\ UNCHANGED <<open, form, base, Files, Assistance, Waiting>>

AcceptFails ==
  /\ accept # NoAccept /\ accept' = NoAccept
  /\ UNCHANGED <<open, form, discarding, converting, Files, Assistance, Server>>

handleDiscardAIPreview ==
  /\ open # NoTemplate /\ ~aiPreviewBusy
  /\ assistant.session # NoSession /\ ~assistant.accepted
  /\ discarding' = TRUE
  /\ handlers' = handlers \cup
       {[call |-> "discard", session |-> assistant.session, text |-> form.text]}
  /\ UNCHANGED <<open, form, accept, converting, editSessionVars, base, Files, Assistance>>

DiscardHandled(h) ==
  /\ h.call = "discard"
  /\ DiscardUpdates(h.session)
  /\ handlers' = handlers \ {h}
  /\ UNCHANGED <<open, form, base, Files, Assistance, Waiting>>

\* Its end, whatever was answered.
DiscardAnswered ==
  /\ discarding /\ discarding' = FALSE
  /\ assistant' = NoAssistant /\ diff' = FALSE
  /\ UNCHANGED <<open, form, generating, accept, converting, Files, Server>>

-----------------------------------------------------------------------------
handleConvertTemplate ==
  /\ open # NoTemplate /\ converting = NoForm
  /\ converting' = form
  /\ UNCHANGED <<open, form, accept, discarding, Files, Assistance, Server>>

\* The whole form becomes the one of the click, with the converted text.
ConvertAnswered(text) ==
  /\ converting # NoForm /\ converting' = NoForm
  /\ form' = Shown([converting EXCEPT !.text = text])
  /\ diff' = (diff /\ Reviewable(form'))
  /\ UNCHANGED <<open, assistant, generating, accept, discarding, Files, Server>>

ConvertFails ==
  /\ converting # NoForm /\ converting' = NoForm
  /\ UNCHANGED <<open, form, accept, discarding, Files, Assistance, Server>>

handleSubmit ==
  /\ open # NoTemplate /\ ~diff /\ save = NoSave
  /\ save' = [old |-> open, form |-> form]
  /\ UNCHANGED <<open, form, saved, Assistance, Server, Waiting>>

\* UpdateTemp; a renaming onto another template is refused.
UpdateTemp ==
  /\ save # NoSave /\ save.form.name = save.old
  /\ saved' = [saved EXCEPT ![save.old] = save.form.text]
  /\ UNCHANGED <<save, open, form, Assistance, Server, Waiting>>

\* The dialog that is open by now is closed.
SaveAnswered ==
  /\ save # NoSave /\ saved[save.old] = save.form.text /\ save.form.name = save.old
  /\ save' = NoSave
  /\ open' = NoTemplate /\ form' = NoForm
  /\ resetTemplateAIAssistant
  /\ UNCHANGED <<saved, Server, Waiting>>

SaveFails ==
  /\ save # NoSave /\ save' = NoSave
  /\ UNCHANGED <<saved, open, form, Assistance, Server, Waiting>>

SessionStep ==
  /\ \E s \in Session : StreamAdvances(s) \/ StreamFails(s) \/ ExpireEdit(s)
  /\ UNCHANGED <<open, form, base, handlers, Files, Assistance, Waiting>>

EditorNext ==
  \/ handleCloseDialog \/ SwitchMode
  \/ handleGenerateWithAI \/ GenerationAnswered \/ GenerationFails
  \/ handleAcceptAIPreview \/ AcceptFails \/ handleDiscardAIPreview \/ DiscardAnswered
  \/ handleConvertTemplate \/ ConvertFails
  \/ handleSubmit \/ UpdateTemp \/ SaveAnswered \/ SaveFails
  \/ SessionStep
  \/ \E t \in Template : handleEdit(t)
  \/ \E text \in Typed : Type(text) \/ ConvertAnswered(text)
  \/ \E h \in handlers :
       AcceptChecks(h) \/ AcceptAnswered(h) \/ AcceptHandled(h) \/ DiscardHandled(h)

-----------------------------------------------------------------------------
EditorTypeOK ==
  /\ SessionsTypeOK
  /\ saved \in [Template -> Text]
  /\ {diff, generating, discarding} \subseteq BOOLEAN
  /\ open \in Template \cup {NoTemplate}
  /\ {form, converting} \subseteq Form \cup {NoForm}
  /\ assistant \in [session : Session \cup {NoSession}, candidate : BOOLEAN, accepted : BOOLEAN]
  /\ base \in [Session -> Form \cup {NoForm}]
  /\ accept \in [session : Session, sent : Form] \cup {NoAccept}
  /\ save \in [old : Template, form : Form] \cup {NoSave}
  /\ handlers \subseteq Handler

\* A candidate replaces only the very text, of the very template, that it was
\* generated from.  The one exception is an editor that changed while the
\* accept was on its way: then what it has become is replaced, even if it is
\* another template by now.
CandidateReplacesItsBase ==
  [][accept # NoAccept /\ accept' = NoAccept /\ form' # form =>
       form = base[accept.session] \/ form # accept.sent]_editorVars
=============================================================================
