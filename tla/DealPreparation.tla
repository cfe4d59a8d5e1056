-------------------------- MODULE DealPreparation --------------------------
(***************************************************************************)
(* Preparing a deal in the mini app (CreateDealScreen of apps/web/         *)
(* components/app/mini-app-shell.tsx): the steps of the form, the requests *)
(* behind them and what their answers do to a form that is edited          *)
(* meanwhile, up to the draft that startAgreement (apps/api/src/deals/     *)
(* deals.service.ts) accepts.                                              *)
(*                                                                         *)
(* A handler of the page goes on with the form it was called with, its     *)
(* closure, while the form itself may have moved on.  A save of the draft  *)
(* is one step here: in which order saves run and how they fail is the     *)
(* subject of DraftAutosave, and one that fails leaves nothing behind.     *)
(*                                                                         *)
(* The answers are the number of the last change that was made to them.    *)
(* Opening the screen again shows the saved draft; what the screen had     *)
(* asked for is no longer heard.                                           *)
(***************************************************************************)
EXTENDS Integers

CONSTANTS
  Asks,         \* slots for handlers that wait for an answer
  MaxChanges,   \* bound: changes of the answers and of the responsible party
  MaxDialogues  \* bound: clarification sessions, that is ai_generations rows

ASSUME PreparationAssumption == MaxChanges \in Nat /\ MaxDialogues \in Nat

Steps == {"description", "invitation", "questionnaire", "clarification", "ready",
          "generation", "initiator"}
Sides == {"none", "INITIATOR", "COUNTERPARTY"}
TermsOfDeal == [answers: 0..MaxChanges, raw: BOOLEAN, party: Sides]
Dialogues == 1..MaxDialogues
Form == [terms: TermsOfDeal, dialogue: 0..MaxDialogues, step: Steps]

VARIABLES
  form,      \* answers, responsible party, clarificationSessionId and step shown
  loaded,    \* whether the page has the session itself
  read,      \* generations whose completion the page has read
  kept,      \* the draft in the database, with sourceGenerationId
  dialogue,  \* ai_generations rows: a session first, a generation afterwards
  ask,       \* handlers that wait
  changes,   \* changes made so far
  profiles,  \* whether both parties have joined with complete profiles
  crossing,  \* an answer met a form that had moved on since it was asked for
  outdated   \* the contract kept is of an earlier session than the form's

preparationVars ==
  <<form, loaded, read, kept, dialogue, ask, changes, profiles, crossing, outdated>>

EmptyTerms == [answers |-> 0, raw |-> TRUE, party |-> "none"]
EmptyForm == [terms |-> EmptyTerms, dialogue |-> 0, step |-> "description"]
NoDialogue == [status |-> "none", terms |-> EmptyTerms]
NoAsk == [kind |-> "none", form |-> EmptyForm, dialogue |-> 0, to |-> "description",
          answers |-> 0, odd |-> FALSE]

(* beginDraft; a proposal of the intake opens the form at the invitation.  *)
PreparationInit ==
  /\ form \in {[EmptyForm EXCEPT !.step = s] : s \in {"description", "invitation"}}
  /\ loaded = FALSE
  /\ read = {}
  /\ kept = [form |-> EmptyForm, source |-> 0]
  /\ dialogue = [d \in Dialogues |-> NoDialogue]
  /\ ask = [a \in Asks |-> NoAsk]
  /\ changes = 0
  /\ profiles = FALSE
  /\ crossing = FALSE
  /\ outdated = FALSE

-----------------------------------------------------------------------------
DialogueStatus(d) == IF d = 0 THEN "none" ELSE dialogue[d].status

(* restoredGenerationStep, generationId: an unfinished page without its    *)
(* session falls back on the contract that the draft was saved with.       *)
RestoredGeneration == kept.source # 0 /\ form.step \in {"generation", "initiator"}
GenerationId ==
  IF loaded THEN form.dialogue
  ELSE IF form.step \in {"generation", "initiator"} THEN kept.source ELSE 0

(* toDraftStep, restoreCreateStep                                          *)
DraftStep(step) == IF step = "ready" THEN "clarification" ELSE step
AsKept(f) == [f EXCEPT !.step = DraftStep(@)]
Save(f, source) == kept' = [form |-> AsKept(f), source |-> source]

Waits(a, kind, f, d, to, answers) ==
  /\ ask[a].kind = "none"
  /\ ask' = [ask EXCEPT ![a] = [kind |-> kind, form |-> f, dialogue |-> d, to |-> to,
                                answers |-> answers, odd |-> FALSE]]
Asked(a, kind, to) ==
  ask' = [ask EXCEPT ![a].kind = kind, ![a].to = to, ![a].odd = @ \/ form # ask[a].form]
AskEnds(a) == ask' = [ask EXCEPT ![a] = NoAsk]

(* Where every other step has gone, the questionnaire is what is rendered. *)
ShowsQuestionnaire ==
  \/ form.step = "questionnaire"
  \/ form.step \in {"clarification", "generation"} /\ form.dialogue = 0 /\ GenerationId = 0
ShowsReady ==
  \/ form.step = "ready"
  \/ form.step = "clarification" /\ loaded /\ DialogueStatus(form.dialogue) # "NEED_MORE_INFO"
ShowsQuestions ==
  form.step = "clarification" /\ loaded /\ DialogueStatus(form.dialogue) = "NEED_MORE_INFO"

-----------------------------------------------------------------------------
(* changeAnswer, with resetClarification                                   *)
ChangeAnswer ==
  /\ ShowsQuestionnaire
  /\ changes < MaxChanges
  /\ changes' = changes + 1
  /\ form' = [form EXCEPT !.terms.answers = changes', !.terms.raw = TRUE, !.dialogue = 0]
  /\ loaded' = FALSE
  /\ UNCHANGED <<read, kept, dialogue, ask, profiles, crossing, outdated>>

ChooseParty ==
  /\ form.step = "invitation"
  /\ changes < MaxChanges
  /\ changes' = changes + 1
  /\ \E side \in Sides \ {"none", form.terms.party} : form' = [form EXCEPT !.terms.party = side]
  /\ UNCHANGED <<loaded, read, kept, dialogue, ask, profiles, crossing, outdated>>

(* A place in the description may answer a question that has no answer.    *)
ContinueDescription(a) ==
  /\ form.step = "description"
  /\ \E answers \in {form.terms.answers, changes + 1} :
       /\ answers <= MaxChanges
       /\ changes' = IF answers = form.terms.answers THEN changes ELSE answers
       /\ Save([form EXCEPT !.terms.answers = answers, !.step = "invitation"], kept.source)
       /\ Waits(a, "describe", form, 0, "invitation", answers)
  /\ UNCHANGED <<form, loaded, read, dialogue, profiles, crossing, outdated>>

ContinueInvitation(a) ==
  /\ form.step = "invitation"
  /\ form.terms.party # "none"
  /\ Save([form EXCEPT !.step = "questionnaire"], kept.source)
  /\ Waits(a, "move", form, 0, "questionnaire", 0)
  /\ UNCHANGED <<form, loaded, read, dialogue, changes, profiles, crossing, outdated>>

(* submitQuestionnaire: the answers are normalised on the page as well as  *)
(* for the request.                                                        *)
TypedForm == form
NormalForm == [form EXCEPT !.terms.raw = FALSE]

SubmitQuestionnaire(a) ==
  /\ ShowsQuestionnaire
  /\ form' = NormalForm
  /\ Save([NormalForm EXCEPT !.dialogue = 0, !.step = "questionnaire"], kept.source)
  /\ Waits(a, "start", NormalForm, 0, "questionnaire", 0)
  /\ UNCHANGED <<loaded, read, dialogue, changes, profiles, crossing, outdated>>

(* clarificationStart: the answers are those of the handler, the party is  *)
(* that of the page by now.  The server's rules may leave nothing to ask.  *)
CreateDialogue(a) ==
  LET status == {"NEED_MORE_INFO", "READY_TO_GENERATE"} IN
  /\ ask[a].kind = "start"
  /\ \E d \in Dialogues, s \in status :
       /\ dialogue[d].status = "none"
       /\ \A e \in 1..(d - 1) : dialogue[e].status # "none"
       /\ dialogue' = [dialogue EXCEPT ![d] =
            [status |-> s, terms |-> [ask[a].form.terms EXCEPT !.raw = FALSE,
                                                               !.party = form.terms.party]]]
       /\ ask' = [ask EXCEPT ![a].kind = "open", ![a].dialogue = d,
                             ![a].to = IF s = "READY_TO_GENERATE" THEN "ready" ELSE "clarification",
                             ![a].odd = form # ask[a].form]
  /\ UNCHANGED <<form, loaded, read, kept, changes, profiles, crossing, outdated>>

(* submitClarificationQuestion, after the last question                    *)
AnswerQuestions(a) ==
  /\ ShowsQuestions
  /\ Waits(a, "answer", form, form.dialogue, "clarification", 0)
  /\ UNCHANGED <<form, loaded, read, kept, dialogue, changes, profiles, crossing, outdated>>

ServeAnswers(a) ==
  /\ ask[a].kind = "answer"
  /\ DialogueStatus(ask[a].dialogue) = "NEED_MORE_INFO"
  /\ \/ Asked(a, "open", "clarification") /\ UNCHANGED dialogue
     \/ /\ Asked(a, "open", "ready")
        /\ dialogue' = [dialogue EXCEPT ![ask[a].dialogue].status = "READY_TO_GENERATE"]
  /\ UNCHANGED <<form, loaded, read, kept, changes, profiles, crossing, outdated>>

(* openClarificationSession shows the session, whatever the form shows by  *)
(* now, and saves it with the answers and the party of its own closure.    *)
Timely(a) == form = ask[a].form /\ ~ask[a].odd
Opened(f, a) == [f EXCEPT !.dialogue = ask[a].dialogue, !.step = ask[a].to]
IsNew(a) == ask[a].dialogue # ask[a].form.dialogue

OpenDialogue(a) ==
  /\ ask[a].kind = "open"
  /\ form' = Opened(form, a)
  /\ loaded' = TRUE
  /\ Save(Opened(ask[a].form, a), kept.source)
  /\ AskEnds(a)
  /\ crossing' = (~Timely(a) \/ (crossing /\ ~IsNew(a)))
  /\ outdated' = (outdated /\ ~(Timely(a) /\ IsNew(a)))
  /\ UNCHANGED <<read, dialogue, changes, profiles>>

-----------------------------------------------------------------------------
(* beginGeneration, from the button or to retry                            *)
BeginGeneration(a) ==
  /\ loaded
  /\ form.dialogue # 0
  /\ (ShowsReady /\ profiles) \/ form.step = "generation"
  /\ Waits(a, "generate", form, form.dialogue, "generation", 0)
  /\ UNCHANGED <<form, loaded, read, kept, dialogue, changes, profiles, crossing, outdated>>

StartGeneration(a) ==
  /\ ask[a].kind = "generate"
  /\ \/ /\ DialogueStatus(ask[a].dialogue) \in {"READY_TO_GENERATE", "FAILED"}
        /\ profiles
        /\ dialogue' = [dialogue EXCEPT ![ask[a].dialogue].status = "QUEUED"]
     \/ DialogueStatus(ask[a].dialogue) \in {"QUEUED", "COMPLETED"} /\ UNCHANGED dialogue
  /\ Asked(a, "begun", "generation")
  /\ UNCHANGED <<form, loaded, read, kept, changes, profiles, crossing, outdated>>

GenerationBegun(a) ==
  /\ ask[a].kind = "begun"
  /\ Save([ask[a].form EXCEPT !.step = "generation"], kept.source)
  /\ Asked(a, "move", "generation")
  /\ crossing' = (crossing \/ ~Timely(a))
  /\ UNCHANGED <<form, loaded, read, dialogue, changes, profiles, outdated>>

(* setStep after the save, whatever the form shows by now                  *)
FollowSave(a) ==
  /\ ask[a].kind \in {"describe", "move"}
  /\ form' = IF ask[a].kind = "describe"
             THEN [form EXCEPT !.step = ask[a].to, !.terms.answers = ask[a].answers]
             ELSE [form EXCEPT !.step = ask[a].to]
  /\ AskEnds(a)
  /\ crossing' = (crossing \/ ~Timely(a))
  /\ UNCHANGED <<loaded, read, kept, dialogue, changes, profiles, outdated>>

(* A request or a save fails, and the handler ends.                        *)
AskFails(a) ==
  /\ ask[a].kind # "none"
  /\ AskEnds(a)
  /\ UNCHANGED <<form, loaded, read, kept, dialogue, changes, profiles, crossing, outdated>>

(* The worker of ContractGeneration                                        *)
GenerationEnds(d) ==
  /\ dialogue[d].status = "QUEUED"
  /\ \E s \in {"COMPLETED", "FAILED"} : dialogue' = [dialogue EXCEPT ![d].status = s]
  /\ UNCHANGED <<form, loaded, read, kept, ask, changes, profiles, crossing, outdated>>

ReadGeneration ==
  /\ form.step \in {"generation", "initiator"}
  /\ DialogueStatus(GenerationId) = "COMPLETED"
  /\ read' = read \cup {GenerationId}
  /\ UNCHANGED <<form, loaded, kept, dialogue, ask, changes, profiles, crossing, outdated>>

(* The effect of a completed generation, from any step that the form shows *)
RecordGeneration ==
  /\ GenerationId \in read
  /\ kept.source # GenerationId
  /\ Save([form EXCEPT !.step = "generation"], GenerationId)
  /\ outdated' = (GenerationId # form.dialogue)
  /\ UNCHANGED <<form, loaded, read, dialogue, ask, changes, profiles, crossing>>

(* onDone of the generation screen                                         *)
AcceptContract(a) ==
  /\ form.step = "generation"
  /\ GenerationId \in read
  /\ Save([form EXCEPT !.step = "initiator"], GenerationId)
  /\ outdated' = (GenerationId # form.dialogue)
  /\ Waits(a, "move", form, 0, "initiator", 0)
  /\ UNCHANGED <<form, loaded, read, dialogue, changes, profiles, crossing>>

(* The timer, and the button that saves the deal at its last step          *)
SaveForm ==
  /\ kept.form # AsKept(form)
  /\ Save(form, kept.source)
  /\ UNCHANGED <<form, loaded, read, dialogue, ask, changes, profiles, crossing, outdated>>

-----------------------------------------------------------------------------
Back(from, to) == form.step = from /\ form' = [form EXCEPT !.step = to]

StepBack ==
  /\ \/ Back("invitation", "description")
     \/ Back("questionnaire", "invitation")
     \/ Back("ready", "description") /\ ~profiles
     \/ Back("generation", "ready") /\ GenerationId # 0
     \/ Back("initiator", "generation")
  /\ UNCHANGED <<loaded, read, kept, dialogue, ask, changes, profiles, crossing, outdated>>

(* Back to the questionnaire: resetClarification                           *)
LeaveDialogue ==
  /\ ShowsQuestions \/ ShowsReady
  /\ form' = [form EXCEPT !.step = "questionnaire", !.dialogue = 0]
  /\ loaded' = FALSE
  /\ UNCHANGED <<read, kept, dialogue, ask, changes, profiles, crossing, outdated>>

(* The clarification query.  The server refuses a session whose generation *)
(* was started (toClarificationStatus).                                    *)
LoadDialogue ==
  /\ ~loaded
  /\ ~RestoredGeneration
  /\ DialogueStatus(form.dialogue) \in {"NEED_MORE_INFO", "READY_TO_GENERATE"}
  /\ loaded' = TRUE
  /\ UNCHANGED <<form, read, kept, dialogue, ask, changes, profiles, crossing, outdated>>

(* The screen is opened again, in a new page or in one whose query cache   *)
(* still has the session of the draft and what was read of generations.    *)
Reopen ==
  /\ form' = kept.form
  /\ loaded' \in {FALSE, kept.form.dialogue # 0}
  /\ read' \in {{}, read}
  /\ ask' = [a \in Asks |-> NoAsk]
  /\ UNCHANGED <<kept, dialogue, changes, profiles, crossing, outdated>>

PartiesComplete ==
  /\ ~profiles
  /\ profiles' = TRUE
  /\ UNCHANGED <<form, loaded, read, kept, dialogue, ask, changes, crossing, outdated>>

AskStep(a) ==
  \/ ContinueDescription(a) \/ ContinueInvitation(a) \/ SubmitQuestionnaire(a)
  \/ CreateDialogue(a) \/ AnswerQuestions(a) \/ ServeAnswers(a) \/ OpenDialogue(a)
  \/ BeginGeneration(a) \/ StartGeneration(a) \/ GenerationBegun(a)
  \/ AcceptContract(a) \/ FollowSave(a) \/ AskFails(a)

PreparationNext ==
  \/ \E a \in Asks : AskStep(a)
  \/ \E d \in Dialogues : GenerationEnds(d)
  \/ ChangeAnswer \/ ChooseParty \/ ReadGeneration \/ RecordGeneration \/ SaveForm
  \/ StepBack \/ LeaveDialogue \/ LoadDialogue \/ Reopen \/ PartiesComplete

PreparationSpec == PreparationInit /\ [][PreparationNext]_preparationVars

-----------------------------------------------------------------------------
(* The type invariant.                                                     *)
PreparationTypeOK ==
  /\ form \in Form
  /\ loaded \in BOOLEAN
  /\ read \in SUBSET Dialogues
  /\ kept \in [form: Form, source: 0..MaxDialogues]
  /\ dialogue \in [Dialogues -> [status: {"none", "NEED_MORE_INFO", "READY_TO_GENERATE", "QUEUED",
                                          "COMPLETED", "FAILED"}, terms: TermsOfDeal]]
  /\ ask \in [Asks -> [kind: {"none", "describe", "move", "start", "answer", "open", "generate",
                              "begun"},
                       form: Form, dialogue: 0..MaxDialogues, to: Steps, answers: 0..MaxChanges,
                       odd: BOOLEAN]]
  /\ changes \in 0..MaxChanges
  /\ profiles \in BOOLEAN
  /\ crossing \in BOOLEAN
  /\ outdated \in BOOLEAN

(* What startAgreement asks of a draft: a contract whose generation had    *)
(* the very answers and the very party that the draft holds.               *)
AgreementAccepts ==
  /\ kept.form.step = "initiator"
  /\ DialogueStatus(kept.source) = "COMPLETED"
  /\ dialogue[kept.source].terms = kept.form.terms

(* A draft that was brought to its last step can be agreed on: the         *)
(* contract the author looked at was made of the terms that were saved,    *)
(* however the author went back and forth, changed answers, asked again or *)
(* opened the draft anew.  Two ways of the page to mix them up are named:  *)
(* an answer that arrives when the form has moved on, and a page that was  *)
(* opened again while a newer contract than the kept one was prepared.     *)
FinishedDraftIsOfItsTerms ==
  kept.form.step = "initiator" /\ ~crossing /\ ~outdated => AgreementAccepts
=============================================================================
