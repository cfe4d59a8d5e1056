--------------------------- MODULE DraftAutosave ---------------------------
(***************************************************************************)
(* Saving of a draft by the mini app (apps/web/components/app/             *)
(* mini-app-shell.tsx) and by the server (updateDraft of apps/api/src/     *)
(* deals/).  The form saves itself a moment after each change, transitions *)
(* between the steps of the form save explicitly, all saves of a page wait *)
(* in one queue, and the server accepts a save only when the draft is as   *)
(* the page last saw it.                                                   *)
(*                                                                         *)
(* The content of the form is the number of its last edit and its step.    *)
(* Promise callbacks run before the next event of the page, so the end of  *)
(* one save and the start of the next in the queue are one step.           *)
(***************************************************************************)
EXTENDS Integers, Sequences

CONSTANTS
  MaxEdits,    \* bound: edits by this page and by other tabs
  MaxSteps,    \* bound: transitions of the form
  MaxWrites,   \* bound: changes of the draft's updatedAt
  MaxQueued    \* bound: saves that wait while one is in flight

ASSUME AutosaveAssumption ==
  /\ MaxEdits \in Nat
  /\ MaxSteps \in Nat
  /\ MaxWrites \in Nat
  /\ MaxQueued \in Nat

VARIABLES
  draft,    \* the draft in the database: content, and updatedAt as a count
  edits,    \* edits made so far, by anyone
  local,    \* the form of the page
  submitted, \* the form as a handler read it that will open a session with it
  saved,    \* lastSavedFingerprint
  seen,     \* updatedAt.current
  saveState,
  waiting,  \* saves in the queue
  flight,   \* the save in flight
  stray,    \* a save in flight whose page was closed
  moved,    \* ghost: who changed updatedAt unheard by this page
  refused   \* ghost: the page was told that the draft changed elsewhere

autosaveVars == <<draft, edits, local, submitted, saved, seen, saveState, waiting, flight, stray, moved, refused>>

FormContent == [edit: 0..MaxEdits, step: 0..MaxSteps]
FormSnapshot == [form: FormContent, moves: BOOLEAN]
FlightPhases == {"none", "sent", "stored", "conflict", "lost"}
BlankForm == [edit |-> 0, step |-> 0]
NoSaving == [phase |-> "none", form |-> BlankForm, moves |-> FALSE, expected |-> 0]

DraftsInit ==
  /\ draft = [form |-> BlankForm, stamp |-> 0]
  /\ edits = 0
  /\ local = BlankForm
  /\ submitted = {}
  /\ saved = BlankForm
  /\ seen = 0
  /\ saveState = "saved"
  /\ waiting = <<>>
  /\ flight = NoSaving
  /\ stray = NoSaving
  /\ moved = {}
  /\ refused = FALSE

-----------------------------------------------------------------------------
(* execute(): the stamp is read when the save runs, not when it is queued. *)
StaleSaveRequest(snapshot, stamp) ==
  [phase |-> "sent", form |-> snapshot.form, moves |-> snapshot.moves, expected |-> seen]

SaveRequest(snapshot, stamp) ==
  [phase |-> "sent", form |-> snapshot.form, moves |-> snapshot.moves, expected |-> stamp]

(* enqueueDraftSave *)
Enqueue(snapshot) ==
  IF flight = NoSaving
  THEN /\ flight' = SaveRequest(snapshot, seen)
       /\ saveState' = "saving"
       /\ waiting' = waiting
  ELSE /\ Len(waiting) < MaxQueued
       /\ waiting' = Append(waiting, snapshot)
       /\ UNCHANGED <<flight, saveState>>

EditForm ==
  /\ edits < MaxEdits
  /\ edits' = edits + 1
  /\ local' = [local EXCEPT !.edit = edits']
  /\ UNCHANGED <<draft, submitted, saved, seen, saveState, waiting, flight, stray, moved, refused>>

(* The timer is armed only while nothing is saved and nothing failed.      *)
Autosave ==
  /\ saveState = "saved"
  /\ local # saved
  /\ Enqueue([form |-> local, moves |-> FALSE])
  /\ UNCHANGED <<draft, edits, local, submitted, saved, seen, stray, moved, refused>>

(* The button that repeats a failed save, and the save before a document is*)
(* uploaded, an invitation made or the form left.                          *)
SaveNow ==
  /\ Enqueue([form |-> local, moves |-> FALSE])
  /\ UNCHANGED <<draft, edits, local, submitted, saved, seen, stray, moved, refused>>

(* continueDescription, beginGeneration: the form follows when it is saved.*)
MoveWhenSaved ==
  /\ local.step < MaxSteps
  /\ Enqueue([form |-> [local EXCEPT !.step = @ + 1], moves |-> TRUE])
  /\ UNCHANGED <<draft, edits, local, submitted, saved, seen, stray, moved, refused>>

(* submitQuestionnaire (which saves first) and submitClarificationQuestion *)
(* wait for the server, keeping the form as their closure read it.         *)
SubmitForm ==
  /\ submitted = {}
  /\ submitted' = {local}
  /\ UNCHANGED <<draft, edits, local, saved, seen, saveState, waiting, flight, stray, moved, refused>>

SubmissionFails ==
  /\ submitted # {}
  /\ submitted' = {}
  /\ UNCHANGED <<draft, edits, local, saved, seen, saveState, waiting, flight, stray, moved, refused>>

(* openClarificationSession: the form moves at once, and what is saved is  *)
(* the form of the closure, which may have been edited since.              *)
NextForm(f) == [f EXCEPT !.step = @ + 1]

MoveAtOnce ==
  \E f \in submitted :
    /\ f.step < MaxSteps
    /\ local' = [local EXCEPT !.step = f.step + 1]
    /\ Enqueue([form |-> NextForm(f), moves |-> FALSE])
    /\ submitted' = {}
    /\ UNCHANGED <<draft, edits, saved, seen, stray, moved, refused>>

(* The effect of a completed generation saves the step "generation" from   *)
(* whatever step the form shows.                                           *)
GenerationCompleted ==
  /\ Enqueue([form |-> [local EXCEPT !.step = MaxSteps], moves |-> FALSE])
  /\ UNCHANGED <<draft, edits, local, submitted, saved, seen, stray, moved, refused>>

-----------------------------------------------------------------------------
Fresh(request) == request.expected = draft.stamp
Written(form) == [form |-> form, stamp |-> draft.stamp + 1]

(* updateDraft; a request may fail before it, and its answer may be lost.  *)
ServeSave ==
  /\ flight.phase = "sent"
  /\ \/ /\ Fresh(flight)
        /\ draft.stamp < MaxWrites
        /\ draft' = Written(flight.form)
        /\ \/ flight' = [flight EXCEPT !.phase = "stored"] /\ moved' = moved
           \/ flight' = [flight EXCEPT !.phase = "lost"] /\ moved' = moved \cup {"unheard"}
     \/ /\ ~Fresh(flight)
        /\ flight' = [flight EXCEPT !.phase = "conflict"]
        /\ UNCHANGED <<draft, moved>>
     \/ /\ flight' = [flight EXCEPT !.phase = "lost"]
        /\ UNCHANGED <<draft, moved>>
  /\ UNCHANGED <<edits, local, submitted, saved, seen, saveState, waiting, stray, refused>>

(* The next save of the queue runs whether the last one failed or not.     *)
RunNext(stamp, state) ==
  IF waiting = <<>>
  THEN flight' = NoSaving /\ saveState' = state /\ waiting' = waiting
  ELSE flight' = SaveRequest(Head(waiting), stamp) /\ saveState' = "saving" /\ waiting' = Tail(waiting)

(* The fingerprint is the snapshot's, not that of the form by now.         *)
ShownForm == local
SavedForm == flight.form

HearStored ==
  /\ flight.phase = "stored"
  /\ seen' = flight.expected + 1
  /\ saved' = SavedForm
  /\ local' = IF flight.moves THEN [local EXCEPT !.step = flight.form.step] ELSE local
  /\ RunNext(flight.expected + 1, "saved")
  /\ UNCHANGED <<draft, edits, submitted, stray, moved, refused>>

HearFailure ==
  /\ flight.phase \in {"conflict", "lost"}
  /\ RunNext(seen, "error")
  /\ refused' = (refused \/ flight.phase = "conflict")
  /\ UNCHANGED <<draft, edits, local, submitted, saved, seen, stray, moved>>

-----------------------------------------------------------------------------
(* Another tab of the author saves the draft.                              *)
SaveInOtherTab ==
  /\ edits < MaxEdits
  /\ draft.stamp < MaxWrites
  /\ edits' = edits + 1
  /\ draft' = Written([draft.form EXCEPT !.edit = edits'])
  /\ moved' = moved \cup {"tab"}
  /\ UNCHANGED <<local, submitted, saved, seen, saveState, waiting, flight, stray, refused>>

(* Revoking the invitation of a draft writes the deal and so its updatedAt;*)
(* creating one and joining leave it alone.                                *)
TouchDeal ==
  /\ draft.stamp < MaxWrites
  /\ draft' = Written(draft.form)
  /\ moved' = moved \cup {"touched"}
  /\ UNCHANGED <<edits, local, submitted, saved, seen, saveState, waiting, flight, stray, refused>>

(* The page is loaded again; what it had in flight may still arrive.       *)
ReloadPage ==
  /\ stray = NoSaving
  /\ local' = draft.form
  /\ submitted' = {}
  /\ saved' = draft.form
  /\ seen' = draft.stamp
  /\ saveState' = "saved"
  /\ waiting' = <<>>
  /\ flight' = NoSaving
  /\ stray' = IF flight.phase = "sent" THEN flight ELSE NoSaving
  /\ moved' = {}
  /\ refused' = FALSE
  /\ UNCHANGED <<draft, edits>>

ServeStray ==
  /\ stray # NoSaving
  /\ stray' = NoSaving
  /\ \/ /\ Fresh(stray)
        /\ draft.stamp < MaxWrites
        /\ draft' = Written(stray.form)
        /\ moved' = moved \cup {"unheard"}
     \/ UNCHANGED <<draft, moved>>
  /\ UNCHANGED <<edits, local, submitted, saved, seen, saveState, waiting, flight, refused>>

DraftsNext ==
  \/ EditForm \/ Autosave \/ SaveNow \/ MoveWhenSaved \/ GenerationCompleted
  \/ SubmitForm \/ SubmissionFails \/ MoveAtOnce
  \/ ServeSave \/ HearStored \/ HearFailure
  \/ SaveInOtherTab \/ TouchDeal \/ ReloadPage \/ ServeStray

DraftsSpec == DraftsInit /\ [][DraftsNext]_autosaveVars

-----------------------------------------------------------------------------
(* The type invariant.                                                     *)
DraftsTypeOK ==
  /\ draft \in [form: FormContent, stamp: Nat]
  /\ edits \in 0..MaxEdits
  /\ local \in FormContent
  /\ submitted \in SUBSET FormContent
  /\ saved \in FormContent
  /\ seen \in Nat
  /\ saveState \in {"saved", "saving", "error"}
  /\ waiting \in Seq(FormSnapshot)
  /\ flight \in [phase: FlightPhases, form: FormContent, moves: BOOLEAN, expected: Nat]
  /\ stray \in [phase: FlightPhases, form: FormContent, moves: BOOLEAN, expected: Nat]
  /\ moved \in SUBSET {"tab", "touched", "unheard"}
  /\ refused \in BOOLEAN

(* The saves of a page never disturb each other: "the draft changed in     *)
(* another tab" is said only when something else wrote the deal since the  *)
(* page was loaded, or an answer to the page was lost.                     *)
SaveFailsForAReason == refused => moved # {}

(* A form that shows itself as saved is what the database holds, unless    *)
(* another tab or a save the page knows nothing of has written the draft.  *)
SavedIsStored ==
  saveState = "saved" /\ local = saved /\ moved \subseteq {"touched"} => draft.form = local
=============================================================================
