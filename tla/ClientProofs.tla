---------------------------- MODULE ClientProofs ----------------------------
(***************************************************************************)
(* Proofs about what a client may rely on when it sends a request again or *)
(* several at once: messages (DealMessages), the saves of a draft          *)
(* (DraftAutosave), the approvals of a contract (ContractReview) and the   *)
(* draft that becomes a deal (DealPreparation), for any number of          *)
(* requests, texts, edits, writes, amendments and sessions.                *)
(***************************************************************************)
EXTENDS DealMessages, DraftAutosave, ContractReview, DealPreparation, SequenceTheorems,
        FiniteSetTheorems, TLAPS

-----------------------------------------------------------------------------
(* Messages.                                                               *)

MessagesInv == MessagesTypeOK /\ MessageIsOnes

(* What a message is never changes once it is stored.                      *)
Kept == \A i \in ClientIds : message[i].stored => message'[i] = message[i]

Sending == [phase: {"idle", "read", "writing", "answered"}, id: ClientIds,
            body: Bodies, kind: Kind, settled: BOOLEAN]

LEMMA MessagesInvInit ==
  ASSUME MessagesInit PROVE MessagesInv
<1>1. NoMessage \in [body: Bodies, kind: Kind, stored: BOOLEAN]
  BY MessagesAssumption DEF NoMessage, Kind
<1>2. NoSend \in Sending /\ NoSend.phase = "idle"
  BY MessagesAssumption DEF NoSend, Kind, Sending
<1> QED
  BY <1>1, <1>2 DEF MessagesInit, MessagesInv, MessagesTypeOK, MessageIsOnes,
                    Sending, NoMessage

(* A step of one request that leaves the messages that are stored.         *)
LEMMA SendMovesOn ==
  ASSUME MessagesInv, NEW s \in Sends, NEW q \in Sending,
         send' = [send EXCEPT ![s] = q],
         Kept, settled' = settled,
         message' \in [ClientIds -> [body: Bodies, kind: Kind, stored: BOOLEAN]],
         q.phase = "answered" =>
           message'[q.id].stored /\ message'[q.id].body = q.body /\ message'[q.id].kind = q.kind
  PROVE  MessagesInv'
<1>1. MessagesTypeOK'
  BY DEF MessagesInv, MessagesTypeOK, Sending
<1>2. send'[s] = q /\ \A t \in Sends \ {s} : send'[t] = send[t]
  BY DEF MessagesInv, MessagesTypeOK
<1>3. MessageIsOnes'
  <2>1. ASSUME NEW t \in Sends, send'[t].phase = "answered"
        PROVE  /\ message'[send'[t].id].stored
               /\ message'[send'[t].id].body = send'[t].body
               /\ message'[send'[t].id].kind = send'[t].kind
    BY <1>2, <2>1 DEF MessagesInv, MessagesTypeOK, MessageIsOnes, Kept
  <2> QED
    BY <2>1 DEF MessageIsOnes
<1> QED
  BY <1>1, <1>3 DEF MessagesInv

LEMMA SendStepKeepsInv ==
  ASSUME MessagesInv, NEW s \in Sends, SendStep(s)
  PROVE  MessagesInv'
<1> DEFINE q == send[s]
<1>0. q \in Sending /\ MessagesTypeOK
  BY DEF MessagesInv, MessagesTypeOK, Sending
<1>1. ASSUME NEW phase \in {"idle", "writing", "answered"}, SendTo(s, phase),
             UNCHANGED <<settled, message>>,
             phase = "answered" => message[q.id].stored /\ SaysTheSame(q)
      PROVE  MessagesInv'
  <2> DEFINE p == [q EXCEPT !.phase = phase]
  <2>1. /\ p \in Sending /\ p.phase = phase /\ p.id = q.id /\ p.body = q.body
        /\ p.kind = q.kind /\ p.settled = q.settled
    BY <1>0 DEF Sending
  <2>2. send' = [send EXCEPT ![s] = p]
    BY <1>1 DEF SendTo
  <2> HIDE DEF p
  <2> QED
    BY <1>0, <1>1, <2>1, <2>2, SendMovesOn
       DEF Kept, SaysTheSame, MessagesInv, MessagesTypeOK, MessageIsOnes
<1>2. ASSUME SendEnds(s), UNCHANGED <<settled, message>> PROVE MessagesInv'
  <2>1. NoSend \in Sending /\ NoSend.phase = "idle"
    BY MessagesAssumption DEF NoSend, Kind, Sending
  <2> QED
    BY <1>0, <1>2, <2>1, SendMovesOn DEF SendEnds, Kept, MessagesInv, MessagesTypeOK, MessageIsOnes
<1>3. ASSUME VerifyRow(s), message[q.id].stored, UNCHANGED <<settled, message>> PROVE MessagesInv'
  BY <1>1, <1>2, <1>3 DEF VerifyRow
<1>4. CASE ReadDeal(s)
  <2>1. PICK i \in ClientIds, b \in Bodies, k \in Kind :
          send' = [send EXCEPT ![s] = [phase |-> "read", id |-> i, body |-> b, kind |-> k, settled |-> settled]]
    BY <1>4 DEF ReadDeal
  <2>2. [phase |-> "read", id |-> i, body |-> b, kind |-> k, settled |-> settled] \in Sending
    BY <1>0 DEF Sending, MessagesTypeOK
  <2> QED
    BY <1>0, <1>4, <2>1, <2>2, SendMovesOn DEF ReadDeal, Kept, MessagesInv, MessagesTypeOK, MessageIsOnes
<1>5. CASE FindMessage(s)
  BY <1>1, <1>2, <1>3, <1>5 DEF FindMessage
<1>6. CASE StoreMessage(s)
  <2> DEFINE p == [q EXCEPT !.phase = "answered"]
             m == [body |-> q.body, kind |-> q.kind, stored |-> TRUE]
  <2>1. p \in Sending /\ p.phase = "answered" /\ p.id = q.id /\ p.body = q.body /\ p.kind = q.kind
    BY <1>0 DEF Sending
  <2>2. send' = [send EXCEPT ![s] = p] /\ message' = [message EXCEPT ![q.id] = m] /\ ~message[q.id].stored
    BY <1>6 DEF StoreMessage, SendTo
  <2>3. m \in [body: Bodies, kind: Kind, stored: BOOLEAN]
    BY <1>0 DEF Sending
  <2>5. message'[q.id] = m /\ q.id \in ClientIds
    BY <1>0, <2>2 DEF MessagesTypeOK, Sending
  <2>6. \A i \in ClientIds \ {q.id} : message'[i] = message[i]
    BY <1>0, <2>2 DEF MessagesTypeOK
  <2>7. message' \in [ClientIds -> [body: Bodies, kind: Kind, stored: BOOLEAN]]
    BY <1>0, <2>2, <2>3 DEF MessagesTypeOK
  <2>8. settled' = settled
    BY <1>6 DEF StoreMessage
  <2>9. Kept
    BY <2>2, <2>6 DEF Kept
  <2> QED
    BY <2>1, <2>2, <2>5, <2>7, <2>8, <2>9, SendMovesOn
<1>7. CASE FindRaced(s)
  BY <1>3, <1>7 DEF FindRaced
<1>8. CASE SendOver(s)
  BY <1>2, <1>8 DEF SendOver
<1> QED
  BY <1>4, <1>5, <1>6, <1>7, <1>8 DEF SendStep

LEMMA MessagesInvNext ==
  ASSUME MessagesInv, [MessagesNext]_messageVars PROVE MessagesInv'
<1>1. CASE SettleDeal
  BY <1>1 DEF SettleDeal, MessagesInv, MessagesTypeOK, MessageIsOnes
<1>2. ASSUME NEW s \in Sends, SendStep(s) PROVE MessagesInv'
  BY <1>2, SendStepKeepsInv
<1>3. CASE UNCHANGED messageVars
  BY <1>3 DEF messageVars, MessagesInv, MessagesTypeOK, MessageIsOnes
<1> QED
  BY <1>1, <1>2, <1>3 DEF MessagesNext

(* Whatever requests with one client id overlap, fail and are repeated, an *)
(* answered one finds in the row what it said.                             *)
THEOREM AnswersAreOnes == MessagesSpec => []MessageIsOnes
<1>1. MessagesInit => MessagesInv
  BY MessagesInvInit
<1>2. MessagesInv /\ [MessagesNext]_messageVars => MessagesInv'
  BY MessagesInvNext
<1>3. MessagesInv => MessageIsOnes
  BY DEF MessagesInv
<1> QED
  BY <1>1, <1>2, <1>3, PTL DEF MessagesSpec

-----------------------------------------------------------------------------
(* Saves of a draft.                                                       *)

(* While nobody else wrote the draft unheard, the page knows its stamp and *)
(* the save in flight carries it, whichever saves wait.                    *)
StampIsKnown ==
  moved = {} =>
    /\ ~refused
    /\ flight.phase \in {"none", "sent", "stored", "lost"}
    /\ flight.phase \in {"none", "sent", "lost"} => seen = draft.stamp
    /\ flight.phase = "sent" => flight.expected = draft.stamp
    /\ flight.phase = "stored" => flight.expected + 1 = draft.stamp

(* And what it last saved is the draft, but for a save it has yet to hear  *)
(* of; it shows itself as saved only when it waits for none.               *)
SavedIsKnown ==
  /\ moved \subseteq {"touched"} =>
       draft.form = IF flight.phase = "stored" THEN flight.form ELSE saved
  /\ flight.phase # "none" => saveState = "saving"

DraftsInv == DraftsTypeOK /\ StampIsKnown /\ SavedIsKnown

Saving == [phase: FlightPhases, form: FormContent, moves: BOOLEAN, expected: Nat]
Draft == [form: FormContent, stamp: Nat]

LEMMA FormTypes ==
  /\ BlankForm \in FormContent
  /\ NoSaving \in Saving /\ NoSaving.phase = "none"
BY AutosaveAssumption DEF BlankForm, NoSaving, Saving, FormContent, FlightPhases

LEMMA NextStepType ==
  ASSUME NEW f \in FormContent, f.step < MaxSteps
  PROVE  [f EXCEPT !.step = @ + 1] \in FormContent
BY AutosaveAssumption DEF FormContent

LEMMA DraftsInvInit == DraftsInit => DraftsInv
<1> SUFFICES ASSUME DraftsInit PROVE DraftsInv
  OBVIOUS
<1>1. 0 \in Nat /\ 0 \in 0..MaxEdits /\ {} \in SUBSET {"tab", "touched", "unheard"}
  BY AutosaveAssumption
<1>a. <<>> \in Seq(FormSnapshot)
  BY EmptySeq
<1>b. [form |-> BlankForm, stamp |-> 0] \in Draft
  BY FormTypes DEF Draft
<1>c. DraftsTypeOK
  BY <1>1, <1>a, <1>b, FormTypes DEF DraftsInit, DraftsTypeOK, Saving, Draft
<1>2. StampIsKnown /\ SavedIsKnown
  BY FormTypes DEF DraftsInit, StampIsKnown, SavedIsKnown
<1> QED
  BY <1>c, <1>2 DEF DraftsInv

(* A save that begins or is put in the queue.                              *)
LEMMA EnqueueKeepsInv ==
  ASSUME DraftsInv, NEW snapshot \in FormSnapshot, Enqueue(snapshot),
         local' \in FormContent, submitted' \in SUBSET FormContent,
         UNCHANGED <<draft, edits, saved, seen, stray, moved, refused>>
  PROVE  DraftsInv'
<1>1. SaveRequest(snapshot, seen) \in Saving
  BY DEF SaveRequest, Saving, FormSnapshot, FlightPhases, DraftsInv, DraftsTypeOK
<1>2. Append(waiting, snapshot) \in Seq(FormSnapshot)
  BY DEF DraftsInv, DraftsTypeOK
<1>3. DraftsTypeOK'
  BY <1>1, <1>2 DEF Enqueue, Saving, DraftsInv, DraftsTypeOK
<1>4. StampIsKnown' /\ SavedIsKnown'
  BY DEF Enqueue, SaveRequest, NoSaving, DraftsInv, StampIsKnown, SavedIsKnown
<1> QED
  BY <1>3, <1>4 DEF DraftsInv

(* The end of a save, and perhaps the start of the next one.               *)
LEMMA RunNextFlight ==
  ASSUME DraftsTypeOK, NEW stamp \in Nat, NEW state \in {"saved", "error"}, RunNext(stamp, state)
  PROVE  /\ \/ flight'.phase = "none" /\ saveState' = state
            \/ flight'.phase = "sent" /\ flight'.expected = stamp /\ saveState' = "saving"
         /\ flight' \in Saving
         /\ waiting' \in Seq(FormSnapshot)
         /\ saveState' \in {"saved", "saving", "error"}
<1>1. CASE waiting = <<>>
  BY <1>1, FormTypes DEF RunNext, DraftsTypeOK
<1>2. CASE waiting # <<>>
  <2>1. Head(waiting) \in FormSnapshot /\ Tail(waiting) \in Seq(FormSnapshot)
    BY <1>2, HeadTailProperties DEF DraftsTypeOK
  <2> QED
    BY <1>2, <2>1 DEF RunNext, SaveRequest, Saving, FormSnapshot, FlightPhases
<1> QED
  BY <1>1, <1>2

LEMMA DraftsStepKeepsInv ==
  ASSUME DraftsInv, DraftsNext PROVE DraftsInv'
<1>0. DraftsTypeOK /\ flight \in Saving /\ stray \in Saving /\ draft \in Draft
  BY DEF DraftsInv, DraftsTypeOK, Saving, Draft
<1>1. CASE Autosave \/ SaveNow \/ MoveWhenSaved \/ MoveAtOnce \/ GenerationCompleted
  <2>1. CASE Autosave \/ SaveNow
    <3>1. [form |-> local, moves |-> FALSE] \in FormSnapshot
      BY <1>0 DEF DraftsTypeOK, FormSnapshot
    <3> QED
      BY <1>0, <2>1, <3>1, EnqueueKeepsInv DEF Autosave, SaveNow, DraftsTypeOK
  <2>2. CASE MoveWhenSaved
    <3>1. [form |-> [local EXCEPT !.step = @ + 1], moves |-> TRUE] \in FormSnapshot
      BY <1>0, <2>2, NextStepType DEF DraftsTypeOK, FormSnapshot, MoveWhenSaved
    <3> QED
      BY <1>0, <2>2, <3>1, EnqueueKeepsInv DEF MoveWhenSaved, DraftsTypeOK
  <2>3. CASE MoveAtOnce
    <3>1. PICK f \in submitted :
            /\ f.step < MaxSteps
            /\ local' = [local EXCEPT !.step = f.step + 1]
            /\ Enqueue([form |-> NextForm(f), moves |-> FALSE])
            /\ submitted' = {}
            /\ UNCHANGED <<draft, edits, saved, seen, stray, moved, refused>>
      BY <2>3 DEF MoveAtOnce
    <3>2. f \in FormContent /\ local \in FormContent
      BY <1>0 DEF DraftsTypeOK
    <3>3. local' \in FormContent
      BY <3>1, <3>2, AutosaveAssumption DEF FormContent
    <3>4. NextForm(f) \in FormContent
      BY <3>1, <3>2, NextStepType DEF NextForm
    <3>5. [form |-> NextForm(f), moves |-> FALSE] \in FormSnapshot
      BY <3>4 DEF FormSnapshot
    <3> QED
      BY <3>1, <3>3, <3>5, EnqueueKeepsInv
  <2>4. CASE GenerationCompleted
    <3> DEFINE f == [local EXCEPT !.step = MaxSteps]
    <3>1. local \in FormContent
      BY <1>0 DEF DraftsTypeOK
    <3>2. f \in FormContent
      BY <3>1, AutosaveAssumption DEF FormContent
    <3> HIDE DEF f
    <3>3. [form |-> f, moves |-> FALSE] \in FormSnapshot
      BY <3>2 DEF FormSnapshot
    <3> QED
      BY <1>0, <2>4, <3>3, EnqueueKeepsInv DEF GenerationCompleted, DraftsTypeOK, f
  <2> QED
    BY <1>1, <2>1, <2>2, <2>3, <2>4
<1>a. CASE SubmitForm \/ SubmissionFails
  <2>1. submitted' \in SUBSET FormContent
    BY <1>0, <1>a DEF SubmitForm, SubmissionFails, DraftsTypeOK
  <2>2. UNCHANGED <<draft, edits, local, saved, seen, saveState, waiting, flight, stray, moved, refused>>
    BY <1>a DEF SubmitForm, SubmissionFails
  <2>3. DraftsTypeOK'
    BY <1>0, <2>1, <2>2 DEF DraftsTypeOK
  <2>4. StampIsKnown' /\ SavedIsKnown'
    BY <2>2 DEF DraftsInv, StampIsKnown, SavedIsKnown
  <2> QED
    BY <2>3, <2>4 DEF DraftsInv
<1>2. CASE EditForm
  <2>0. edits \in 0..MaxEdits /\ local \in FormContent
    BY <1>0 DEF DraftsTypeOK
  <2>1. edits' \in 0..MaxEdits /\ local' \in FormContent
    BY <1>2, <2>0, AutosaveAssumption DEF EditForm, FormContent
  <2> QED
    BY <1>2, <2>1 DEF EditForm, DraftsInv, DraftsTypeOK, StampIsKnown, SavedIsKnown
<1>3. CASE ServeSave
  <2>1. flight' \in Saving /\ draft' \in Draft
    BY <1>0, <1>3 DEF ServeSave, Saving, Draft, FlightPhases, Written
  <2>2. moved' \in SUBSET {"tab", "touched", "unheard"}
    BY <1>0, <1>3 DEF ServeSave, DraftsTypeOK
  <2>3. DraftsTypeOK'
    BY <1>0, <1>3, <2>1, <2>2 DEF ServeSave, DraftsTypeOK, Saving, Draft
  <2>4. /\ flight' = [flight EXCEPT !.phase = flight'.phase]
        /\ flight'.form = flight.form /\ flight'.expected = flight.expected
    BY <1>0, <1>3 DEF ServeSave, Saving
  <2>5. CASE flight'.phase = "stored"
    <3>1. Fresh(flight) /\ draft' = Written(flight.form) /\ moved' = moved
      BY <1>0, <1>3, <2>5 DEF ServeSave, Saving
    <3> QED
      BY <1>0, <1>3, <2>3, <2>4, <2>5, <3>1
         DEF ServeSave, Fresh, Written, DraftsInv, StampIsKnown, SavedIsKnown, Saving, Draft
  <2>6. CASE flight'.phase # "stored"
    <3>1. \/ "unheard" \in moved' /\ flight'.phase = "lost"
          \/ /\ draft' = draft /\ moved' = moved
             /\ flight'.phase = "lost" \/ (flight'.phase = "conflict" /\ ~Fresh(flight))
      BY <1>0, <1>3, <2>6 DEF ServeSave, Saving
    <3> QED
      BY <1>0, <1>3, <2>3, <2>4, <2>6, <3>1
         DEF ServeSave, Fresh, DraftsInv, StampIsKnown, SavedIsKnown
  <2> QED
    BY <2>5, <2>6
<1>4. CASE HearStored
  <2>1. /\ \/ flight'.phase = "none" /\ saveState' = "saved"
           \/ flight'.phase = "sent" /\ flight'.expected = flight.expected + 1 /\ saveState' = "saving"
        /\ flight' \in Saving /\ waiting' \in Seq(FormSnapshot)
        /\ saveState' \in {"saved", "saving", "error"}
    BY <1>0, <1>4, RunNextFlight DEF HearStored, Saving
  <2>2. DraftsTypeOK'
    <3>1. saved' \in FormContent /\ seen' \in Nat
      BY <1>0, <1>4 DEF HearStored, SavedForm, Saving
    <3>2. local' \in FormContent
      <4>1. local \in FormContent /\ flight.form \in FormContent
        BY <1>0 DEF DraftsTypeOK, Saving
      <4>2. [local EXCEPT !.step = flight.form.step] \in FormContent
        BY <4>1 DEF FormContent
      <4> QED
        BY <1>4, <4>1, <4>2 DEF HearStored
    <3> QED
      BY <1>0, <1>4, <2>1, <3>1, <3>2 DEF HearStored, DraftsTypeOK, Saving
  <2> QED
    BY <1>0, <1>4, <2>1, <2>2 DEF HearStored, SavedForm, DraftsInv, StampIsKnown, SavedIsKnown
<1>5. CASE HearFailure
  <2>1. /\ \/ flight'.phase = "none" /\ saveState' = "error"
           \/ flight'.phase = "sent" /\ flight'.expected = seen /\ saveState' = "saving"
        /\ flight' \in Saving /\ waiting' \in Seq(FormSnapshot)
        /\ saveState' \in {"saved", "saving", "error"}
    BY <1>0, <1>5, RunNextFlight DEF HearFailure, DraftsTypeOK
  <2>2. DraftsTypeOK'
    BY <1>0, <1>5, <2>1 DEF HearFailure, DraftsTypeOK, Saving
  <2> QED
    BY <1>5, <2>1, <2>2 DEF HearFailure, DraftsInv, StampIsKnown, SavedIsKnown
<1>6. CASE SaveInOtherTab \/ TouchDeal
  <2>0. edits \in 0..MaxEdits /\ draft.form \in FormContent /\ draft.stamp \in Nat
    BY <1>0 DEF DraftsTypeOK, Draft
  <2>a. ASSUME SaveInOtherTab PROVE edits' \in 0..MaxEdits /\ draft' \in Draft
    <3>1. edits' \in 0..MaxEdits
      BY <2>0, <2>a, AutosaveAssumption DEF SaveInOtherTab
    <3>2. [draft.form EXCEPT !.edit = edits'] \in FormContent
      BY <2>0, <3>1 DEF FormContent
    <3> QED
      BY <2>0, <2>a, <3>1, <3>2 DEF SaveInOtherTab, Written, Draft
  <2>b. ASSUME TouchDeal PROVE edits' \in 0..MaxEdits /\ draft' \in Draft
    BY <2>0, <2>b DEF TouchDeal, Written, Draft
  <2>1. edits' \in 0..MaxEdits /\ draft' \in Draft
    BY <1>6, <2>a, <2>b
  <2>2. moved' \in SUBSET {"tab", "touched", "unheard"} /\ moved' # {}
    BY <1>0, <1>6 DEF SaveInOtherTab, TouchDeal, DraftsTypeOK
  <2>3. moved' \subseteq {"touched"} => moved \subseteq {"touched"} /\ draft'.form = draft.form
    BY <1>0, <1>6 DEF SaveInOtherTab, TouchDeal, Written
  <2> QED
    BY <1>0, <1>6, <2>1, <2>2, <2>3
       DEF SaveInOtherTab, TouchDeal, DraftsInv, DraftsTypeOK, Draft, StampIsKnown, SavedIsKnown
<1>7. CASE ReloadPage
  <2>1. DraftsTypeOK'
    <3>1. <<>> \in Seq(FormSnapshot)
      BY EmptySeq
    <3>2. draft.form \in FormContent /\ draft.stamp \in Nat
      BY <1>0 DEF Draft
    <3> QED
      BY <1>0, <1>7, <3>1, <3>2, FormTypes DEF ReloadPage, DraftsTypeOK, Saving
  <2> QED
    BY <1>7, <2>1 DEF ReloadPage, NoSaving, DraftsInv, StampIsKnown, SavedIsKnown
<1>8. CASE ServeStray
  <2>1. draft' \in Draft
    BY <1>0, <1>8 DEF ServeStray, Written, Draft, Saving
  <2>a. moved' \in SUBSET {"tab", "touched", "unheard"} /\ stray' \in Saving
    BY <1>0, <1>8, FormTypes DEF ServeStray, DraftsTypeOK
  <2>2. "unheard" \in moved' \/ UNCHANGED <<draft, moved>>
    BY <1>8 DEF ServeStray
  <2> QED
    BY <1>0, <1>8, <2>1, <2>a, <2>2 DEF ServeStray, DraftsInv, DraftsTypeOK, Draft, Saving, StampIsKnown, SavedIsKnown
<1> QED
  BY <1>1, <1>2, <1>a, <1>3, <1>4, <1>5, <1>6, <1>7, <1>8 DEF DraftsNext

LEMMA DraftsInvNext == DraftsInv /\ [DraftsNext]_autosaveVars => DraftsInv'
<1>1. DraftsInv /\ UNCHANGED autosaveVars => DraftsInv'
  BY DEF DraftsInv, DraftsTypeOK, StampIsKnown, SavedIsKnown, autosaveVars
<1> QED
  BY <1>1, DraftsStepKeepsInv

LEMMA DraftsInvariance == DraftsSpec => []DraftsInv
BY DraftsInvInit, DraftsInvNext, PTL DEF DraftsSpec

(* However long the queue of saves, the page is told of a conflict only    *)
(* when somebody else wrote the draft or an answer to it was lost.         *)
THEOREM ConflictHasAReason == DraftsSpec => []SaveFailsForAReason
<1>1. DraftsInv => SaveFailsForAReason
  BY DEF DraftsInv, StampIsKnown, SaveFailsForAReason
<1> QED
  BY <1>1, DraftsInvariance, PTL

(* A form that shows itself as saved is the draft in the database, however *)
(* edits, steps and saves of the page overlap.                             *)
THEOREM ShownAsSavedIsStored == DraftsSpec => []SavedIsStored
<1>1. DraftsInv => SavedIsStored
  BY DEF DraftsInv, SavedIsKnown, SavedIsStored
<1> QED
  BY <1>1, DraftsInvariance, PTL

-----------------------------------------------------------------------------
(* Approvals.                                                              *)

(* No stamp that is held anywhere is ahead of the deal's, so a new stamp   *)
(* of the deal is one that nobody holds.                                   *)
StampsAreOld ==
  /\ \A p \in Reviewers : page[p].stamp <= dealRow.stamp /\ polling[p].row.stamp <= dealRow.stamp
  /\ \A c \in Calls : approving[c].stamp <= dealRow.stamp /\ approving[c].row.stamp <= dealRow.stamp

(* What an approval checked is still there as long as its stamp is.        *)
StillThere(q) ==
  /\ q.read.requisites = q.seen.requisites
  /\ q.stamp = dealRow.stamp =>
       /\ q.seen.version = contract.version
       /\ q.read.frozen = contract.frozen
       /\ contract.frozen => contract.snapshot = q.seen.requisites

CheckedIsThere == \A c \in Calls : approving[c].phase = "checked" => StillThere(approving[c])

ReviewInv ==
  ReviewTypeOK /\ IsFiniteSet(approvals) /\ StampsAreOld /\ CheckedIsThere /\ ApprovedAsSeen

Contracts == [version: Nat, names: [Reviewers -> Nat], frozen: BOOLEAN, snapshot: Profiles]
Approvals == [party: Reviewers, version: Nat, saw: Profiles]
Approving == [phase: {"idle", "sent", "checked", "conflict", "refetch"},
              party: Reviewers, seen: Page, stamp: Nat, again: BOOLEAN,
              heard: BOOLEAN, row: DealRow,
              read: [frozen: BOOLEAN, requisites: Profiles, count: Nat]]

LEMMA FirstTypes ==
  /\ FirstProfiles \in Profiles
  /\ FirstRow \in DealRow /\ FirstRow.stamp = 0
  /\ FirstContract \in Contracts
  /\ FirstPage \in Page /\ FirstPage.stamp = 0
  /\ NoPoll \in [on: BOOLEAN, row: DealRow] /\ NoPoll.row.stamp = 0
  /\ NoRead \in [frozen: BOOLEAN, requisites: Profiles, count: Nat]
  /\ NoApproval \in Approving /\ NoApproval.phase = "idle"
  /\ NoApproval.stamp = 0 /\ NoApproval.row.stamp = 0
<1>1. FirstProfiles \in Profiles
  BY DEF FirstProfiles, Profiles
<1>2. FirstRow \in DealRow /\ FirstRow.stamp = 0
  BY DEF FirstRow, DealRow, Statuses
<1>3. NamesOf(FirstProfiles) \in [Reviewers -> Nat]
  BY DEF NamesOf, FirstProfiles
<1>4. FirstContract \in Contracts
  BY <1>1, <1>3 DEF FirstContract, Contracts
<1>5. FirstPage \in Page /\ FirstPage.stamp = 0
  BY <1>1, <1>3 DEF FirstPage, Page, Statuses
<1>6. NoRead \in [frozen: BOOLEAN, requisites: Profiles, count: Nat]
  BY <1>1 DEF NoRead
<1>7. (CHOOSE p \in Reviewers : TRUE) \in Reviewers
  BY ReviewAssumption
<1> QED
  BY <1>1, <1>2, <1>4, <1>5, <1>6, <1>7 DEF NoPoll, NoApproval, Approving

LEMMA ReviewInvInit ==
  ASSUME ReviewInit PROVE ReviewInv
<1>1. ReviewTypeOK
  <2>1. dealRow \in DealRow /\ contract \in Contracts /\ profile \in Profiles
    BY FirstTypes DEF ReviewInit
  <2>2. page \in [Reviewers -> Page] /\ polling \in [Reviewers -> [on: BOOLEAN, row: DealRow]]
    BY FirstTypes DEF ReviewInit
  <2>3. approving \in [Calls -> Approving]
    BY FirstTypes DEF ReviewInit
  <2>4. amendments \in 0..MaxAmendments
    BY ReviewAssumption DEF ReviewInit
  <2>5. needless \in BOOLEAN /\ approvals \in SUBSET Approvals
    BY Zenon DEF ReviewInit
  <2> QED
    BY <2>1, <2>2, <2>3, <2>4, <2>5 DEF ReviewTypeOK, Contracts, Approving, Approvals
<1>2. StampsAreOld
  BY FirstTypes DEF ReviewInit, StampsAreOld
<1> QED
  BY <1>1, <1>2, FirstTypes, FS_EmptySet
  DEF ReviewInit, ReviewInv, CheckedIsThere, ApprovedAsSeen

(* What a page is given is of the right form, with the stamp that was read.*)
LEMMA WorkspaceType ==
  ASSUME ReviewTypeOK, NEW p, NEW row \in DealRow
  PROVE  Workspace(p, row) \in Page /\ Workspace(p, row).stamp = row.stamp
<1>1. Requisites \in Profiles
  BY DEF ReviewTypeOK, Requisites
<1>2. NamesOf(profile) \in [Reviewers -> Nat]
  BY DEF ReviewTypeOK, NamesOf, Profiles
<1> QED
  BY <1>1, <1>2 DEF ReviewTypeOK, Workspace, Page, DealRow

(* A step of one approval that changes nothing but its own state.          *)
LEMMA CallMovesOn ==
  ASSUME ReviewInv, NEW c \in Calls, NEW q \in Approving,
         approving' = [approving EXCEPT ![c] = q],
         UNCHANGED <<dealRow, contract, approvals, profile, page, polling, amendments>>,
         needless' \in BOOLEAN,
         q.stamp <= dealRow.stamp, q.row.stamp <= dealRow.stamp,
         q.phase = "checked" => StillThere(q)
  PROVE  ReviewInv'
<1>1. ReviewTypeOK'
  BY DEF ReviewInv, ReviewTypeOK, Approving
<1>2. approving'[c] = q /\ \A d \in Calls \ {c} : approving'[d] = approving[d]
  BY DEF ReviewInv, ReviewTypeOK
<1>3. StampsAreOld'
  BY <1>2 DEF ReviewInv, StampsAreOld
<1>4. CheckedIsThere'
  BY <1>2 DEF ReviewInv, CheckedIsThere, StillThere
<1> QED
  BY <1>1, <1>3, <1>4 DEF ReviewInv, ApprovedAsSeen

(* The steps of an approval before and after its transaction.              *)
LEMMA ApprovalKeepsInv ==
  ASSUME ReviewInv, NEW c \in Calls, ReviewStep(c), ~CommitApproval(c)
  PROVE  ReviewInv'
<1> DEFINE q == approving[c]
<1>1. q \in Approving /\ q.stamp <= dealRow.stamp /\ q.row.stamp <= dealRow.stamp
  BY DEF ReviewInv, ReviewTypeOK, StampsAreOld, Approving
<1>2. dealRow \in DealRow /\ dealRow.stamp \in Nat
  BY DEF ReviewInv, ReviewTypeOK, DealRow
<1>3. needless \in BOOLEAN
  BY DEF ReviewInv, ReviewTypeOK
<1>4. NoApproval \in Approving /\ NoApproval.stamp <= dealRow.stamp
      /\ NoApproval.row.stamp <= dealRow.stamp /\ NoApproval.phase # "checked"
  BY <1>2, FirstTypes
<1>5. ASSUME ReviewEnds(c), UNCHANGED <<dealRow, contract, approvals, profile, page, polling, amendments>>,
             needless' \in BOOLEAN
      PROVE  ReviewInv'
  BY <1>4, <1>5, CallMovesOn DEF ReviewEnds
<1>6. ASSUME Conflict(c), UNCHANGED <<dealRow, contract, approvals, profile, page, polling, amendments>>,
             needless' \in BOOLEAN
      PROVE  ReviewInv'
  <2>1. CASE ReviewEnds(c)
    BY <2>1, <1>5, <1>6
  <2>2. CASE ReviewGoesTo(c, "conflict")
    <3> DEFINE r == [q EXCEPT !.phase = "conflict"]
    <3>1. r \in Approving /\ r.stamp = q.stamp /\ r.row = q.row /\ r.phase # "checked"
      BY <1>1 DEF Approving
    <3>2. approving' = [approving EXCEPT ![c] = r]
      BY <2>2 DEF ReviewGoesTo
    <3> QED
      BY <3>1, <3>2, <1>1, <1>6, CallMovesOn
  <2> QED
    BY <2>1, <2>2, <1>6 DEF Conflict
<1>7. CASE \E p \in Reviewers : Approve(c, p)
  <2> PICK p \in Reviewers : Approve(c, p)
    BY <1>7
  <2> DEFINE r == [NoApproval EXCEPT !.phase = "sent", !.party = p, !.seen = page[p],
                                     !.stamp = page[p].stamp, !.heard = TRUE]
  <2>1. page[p] \in Page /\ page[p].stamp \in Nat /\ page[p].stamp <= dealRow.stamp
    BY DEF ReviewInv, ReviewTypeOK, StampsAreOld, Page
  <2>2. r \in Approving /\ r.stamp = page[p].stamp /\ r.row = NoApproval.row /\ r.phase # "checked"
    BY <2>1, <1>4 DEF Approving
  <2>3. approving' = [approving EXCEPT ![c] = r]
    BY DEF Approve
  <2>4. UNCHANGED <<dealRow, contract, approvals, profile, page, polling, amendments>> /\ needless' \in BOOLEAN
    BY <1>3 DEF Approve
  <2> QED
    BY <2>1, <2>2, <2>3, <2>4, <1>4, CallMovesOn
<1>8. CASE RefuseApproval(c)
  <2>1. UNCHANGED <<dealRow, contract, approvals, profile, page, polling, amendments>> /\ needless' \in BOOLEAN
    BY <1>3, <1>8 DEF RefuseApproval
  <2>2. Conflict(c) \/ ReviewEnds(c)
    BY <1>8 DEF RefuseApproval
  <2> QED
    BY <2>1, <2>2, <1>5, <1>6
<1>9. CASE CheckApproval(c)
  <2> DEFINE d == [frozen |-> contract.frozen, requisites |-> Requisites, count |-> Cardinality(approvals)]
             r == [q EXCEPT !.phase = "checked", !.read = d]
  <2>1. d \in [frozen: BOOLEAN, requisites: Profiles, count: Nat]
    BY FS_CardinalityType DEF ReviewInv, ReviewTypeOK, Requisites
  <2>2. r \in Approving /\ r.stamp = q.stamp /\ r.row = q.row /\ r.seen = q.seen /\ r.read = d
    BY <1>1, <2>1 DEF Approving
  <2>3. approving' = [approving EXCEPT ![c] = r]
    BY <1>9 DEF CheckApproval
  <2>4. UNCHANGED <<dealRow, contract, approvals, profile, page, polling, amendments>> /\ needless' \in BOOLEAN
    BY <1>3, <1>9 DEF CheckApproval
  <2>5. StillThere(r)
    BY <2>2, <1>9 DEF CheckApproval, StillThere, VersionDiffers, RequisitesDiffer, Requisites
  <2> QED
    BY <2>2, <2>3, <2>4, <2>5, <1>1, CallMovesOn
<1>10. CASE RejectApproval(c)
  <2>1. UNCHANGED <<dealRow, contract, approvals, profile, page, polling, amendments>> /\ needless' \in BOOLEAN
    BY <1>3, <1>10 DEF RejectApproval
  <2> QED
    BY <2>1, <1>6, <1>10 DEF RejectApproval
<1>11. CASE RefetchRow(c)
  <2> DEFINE r == [q EXCEPT !.phase = "refetch", !.row = dealRow, !.read = NoRead]
  <2>1. r \in Approving /\ r.stamp = q.stamp /\ r.row = dealRow /\ r.phase # "checked"
    BY <1>1, <1>2, FirstTypes DEF Approving
  <2>2. approving' = [approving EXCEPT ![c] = r]
    BY <1>11 DEF RefetchRow
  <2>3. UNCHANGED <<dealRow, contract, approvals, profile, page, polling, amendments>> /\ needless' \in BOOLEAN
    BY <1>3, <1>11 DEF RefetchRow
  <2>4. r.stamp <= dealRow.stamp /\ r.row.stamp <= dealRow.stamp
    BY <2>1, <1>1, <1>2
  <2> HIDE DEF r
  <2> QED
    BY <2>1, <2>2, <2>3, <2>4, CallMovesOn
<1>12. CASE ApproveAgain(c)
  <2> DEFINE w == Workspace(q.party, q.row)
             r == [q EXCEPT !.phase = "sent", !.stamp = w.stamp, !.again = TRUE, !.row = FirstRow]
  <2>1. q.row \in DealRow /\ q.row.stamp \in Nat
    BY <1>1 DEF Approving, DealRow
  <2>2. w.stamp = q.row.stamp
    BY <2>1, WorkspaceType DEF ReviewInv
  <2>3. r \in Approving /\ r.stamp = q.row.stamp /\ r.row.stamp = 0 /\ r.phase # "checked"
    BY <1>1, <2>1, <2>2, FirstTypes DEF Approving
  <2>4. approving' = [approving EXCEPT ![c] = r]
    BY <1>12 DEF ApproveAgain
  <2>5. UNCHANGED <<dealRow, contract, approvals, profile, page, polling, amendments>> /\ needless' \in BOOLEAN
    BY <1>3, <1>12 DEF ApproveAgain
  <2>6. r.stamp <= dealRow.stamp /\ r.row.stamp <= dealRow.stamp
    BY <2>3, <1>1, <1>2
  <2> HIDE DEF r, w
  <2> QED
    BY <2>3, <2>4, <2>5, <2>6, CallMovesOn
<1>13. CASE GiveUpApproval(c)
  <2>1. needless' \in BOOLEAN
    BY <1>3, <1>13, Zenon DEF GiveUpApproval
  <2> QED
    BY <2>1, <1>5, <1>13 DEF GiveUpApproval
<1>14. CASE LoseApproval(c)
  <2> DEFINE r == [q EXCEPT !.heard = FALSE]
  <2>1. UNCHANGED <<dealRow, contract, approvals, profile, page, polling, amendments>> /\ needless' \in BOOLEAN
    BY <1>3, <1>14 DEF LoseApproval
  <2>2. CASE ReviewEnds(c)
    BY <2>1, <2>2, <1>5
  <2>3. CASE approving' = [approving EXCEPT ![c].heard = FALSE]
    <3>1. /\ r \in Approving /\ r.stamp = q.stamp /\ r.row = q.row
          /\ r.phase = q.phase /\ r.seen = q.seen /\ r.read = q.read
      BY <1>1 DEF Approving
    <3>2. approving' = [approving EXCEPT ![c] = r]
      BY <2>3
    <3>3. r.phase = "checked" => StillThere(r)
      BY <3>1 DEF ReviewInv, CheckedIsThere, StillThere
    <3> QED
      BY <3>1, <3>2, <3>3, <2>1, <1>1, CallMovesOn
  <2> QED
    BY <2>2, <2>3, <1>14 DEF LoseApproval
<1> QED
  BY <1>7, <1>8, <1>9, <1>10, <1>11, <1>12, <1>13, <1>14 DEF ReviewStep

(* A step that moves the stamp leaves every stamp held behind the deal's,  *)
(* and so no checked approval with anything to be there still.             *)
LEMMA NewStamp ==
  ASSUME ReviewInv, NEW s \in Statuses, dealRow' = Moved(s),
         UNCHANGED <<page, polling, approving>>
  PROVE  /\ dealRow' \in DealRow
         /\ dealRow'.stamp = dealRow.stamp + 1
         /\ StampsAreOld'
         /\ CheckedIsThere'
<1>1. dealRow.stamp \in Nat
  BY DEF ReviewInv, ReviewTypeOK, DealRow
<1>2. dealRow' \in DealRow /\ dealRow'.stamp = dealRow.stamp + 1
  BY <1>1 DEF Moved, DealRow
<1>3. /\ \A p \in Reviewers : page[p].stamp \in Nat /\ polling[p].row.stamp \in Nat
      /\ \A c \in Calls : approving[c].stamp \in Nat /\ approving[c].row.stamp \in Nat
  BY DEF ReviewInv, ReviewTypeOK, DealRow, Page
<1>4. StampsAreOld'
  BY <1>1, <1>2, <1>3 DEF ReviewInv, StampsAreOld
<1>5. ASSUME NEW c \in Calls, approving[c].phase = "checked"
      PROVE  StillThere(approving[c])'
  BY <1>1, <1>2, <1>3, <1>5 DEF ReviewInv, StampsAreOld, CheckedIsThere, StillThere
<1> QED
  BY <1>2, <1>4, <1>5 DEF CheckedIsThere

(* The transaction: nothing moved since the check, and the requisites that *)
(* are frozen now, or were before, are those the page had shown.           *)
LEMMA ApproveCommitKeepsInv ==
  ASSUME ReviewInv, NEW c \in Calls, CommitApproval(c)
  PROVE  ReviewInv'
<1> DEFINE q == approving[c]
           a == [party |-> q.party, version |-> q.seen.version, saw |-> q.seen.requisites]
           s == IF q.read.count + 1 = Cardinality(Reviewers) THEN "READY_TO_SIGN" ELSE "TERMS_REVIEW"
<1>1. q \in Approving
  BY DEF ReviewInv, ReviewTypeOK, Approving
<1>2. dealRow.stamp \in Nat /\ s \in Statuses /\ dealRow' = Moved(s)
  BY DEF ReviewInv, ReviewTypeOK, DealRow, Statuses, CommitApproval
<1>3. /\ q.seen.version = contract.version
      /\ q.read.frozen = contract.frozen
      /\ q.read.requisites = q.seen.requisites
      /\ contract.frozen => contract.snapshot = q.seen.requisites
  BY DEF ReviewInv, CheckedIsThere, StillThere, CommitApproval, Guarded
<1>4. a \in Approvals /\ a.version = contract.version /\ a.saw = q.seen.requisites
  BY <1>1, <1>3 DEF Approving, Approvals, Page
<1>5. approvals' = {b \in approvals : b.party # q.party} \cup {a}
  BY DEF CommitApproval
<1>6. /\ contract' \in Contracts
      /\ contract'.version = contract.version
      /\ contract'.frozen
      /\ contract'.snapshot = q.seen.requisites
      /\ contract.frozen => contract' = contract
  BY <1>1, <1>3 DEF CommitApproval, ReviewInv, ReviewTypeOK, Contracts, Approving
<1>7. ApprovedAsSeen'
  <2> SUFFICES ASSUME NEW b \in approvals'
               PROVE  contract'.frozen /\ b.version = contract'.version /\ b.saw = contract'.snapshot
    BY DEF ApprovedAsSeen
  <2>1. CASE b = a
    BY <2>1, <1>4, <1>6
  <2>2. CASE b \in approvals
    BY <2>2, <1>6 DEF ReviewInv, ApprovedAsSeen
  <2> QED
    BY <2>1, <2>2, <1>5
<1>8. IsFiniteSet(approvals')
  <2>1. IsFiniteSet({b \in approvals : b.party # q.party})
    BY FS_Subset DEF ReviewInv
  <2> QED
    BY <2>1, <1>5, FS_AddElement
<1>9. /\ approving'[c] = NoApproval
      /\ \A d \in Calls \ {c} : approving'[d] = approving[d]
      /\ approving' \in [Calls -> Approving]
  BY FirstTypes DEF CommitApproval, ReviewEnds, ReviewInv, ReviewTypeOK, Approving
<1>10. dealRow' \in DealRow /\ dealRow'.stamp = dealRow.stamp + 1
  BY <1>2 DEF Moved, DealRow
<1>11. approvals' \in SUBSET Approvals
  BY <1>4, <1>5 DEF ReviewInv, ReviewTypeOK, Approvals
<1>12. UNCHANGED <<profile, page, polling, amendments, needless>>
  BY DEF CommitApproval
<1>13. ReviewTypeOK'
  BY <1>6, <1>9, <1>10, <1>11, <1>12 DEF ReviewInv, ReviewTypeOK, Contracts, Approvals, Approving
<1>14. StampsAreOld'
  <2>1. \A p \in Reviewers : page'[p].stamp <= dealRow'.stamp /\ polling'[p].row.stamp <= dealRow'.stamp
    BY <1>2, <1>10, <1>12 DEF ReviewInv, ReviewTypeOK, StampsAreOld, Page, DealRow
  <2>2. ASSUME NEW d \in Calls
        PROVE  approving'[d].stamp <= dealRow'.stamp /\ approving'[d].row.stamp <= dealRow'.stamp
    <3>1. CASE d = c
      BY <3>1, <1>2, <1>9, <1>10, FirstTypes
    <3>2. CASE d # c
      BY <3>2, <1>2, <1>9, <1>10 DEF ReviewInv, ReviewTypeOK, StampsAreOld, DealRow
    <3> QED
      BY <3>1, <3>2
  <2> QED
    BY <2>1, <2>2 DEF StampsAreOld
<1>15. CheckedIsThere'
  <2> SUFFICES ASSUME NEW d \in Calls, approving'[d].phase = "checked"
               PROVE  StillThere(approving[d])'
    BY DEF CheckedIsThere
  <2>1. d # c /\ approving'[d] = approving[d]
    BY <1>9, FirstTypes
  <2>2. approving[d].stamp \in Nat /\ approving[d].stamp <= dealRow.stamp
    BY DEF ReviewInv, ReviewTypeOK, StampsAreOld
  <2>3. approving'[d].read.requisites = approving'[d].seen.requisites
    BY <2>1 DEF ReviewInv, CheckedIsThere, StillThere
  <2>4. approving'[d].stamp # dealRow'.stamp
    BY <2>1, <2>2, <1>2, <1>10
  <2> QED
    BY <2>3, <2>4 DEF StillThere
<1> QED
  BY <1>7, <1>8, <1>13, <1>14, <1>15 DEF ReviewInv

(* Revisions, profiles and the reads of a page.                            *)
LEMMA DealKeepsInv ==
  ASSUME ReviewInv,
         \/ ReviseContract
         \/ \E p \in Reviewers : EditProfile(p) \/ PollRow(p) \/ PollRest(p)
  PROVE  ReviewInv'
<1> USE DEF ReviewInv
<1>1. CASE ReviseContract
  <2>1. dealRow' = Moved("TERMS_REVIEW") /\ UNCHANGED <<page, polling, approving>>
    BY <1>1 DEF ReviseContract
  <2>2. dealRow' \in DealRow /\ StampsAreOld' /\ CheckedIsThere'
    BY <2>1, NewStamp DEF Statuses
  <2>3. contract' \in Contracts
    <3>1. NamesOf(profile) \in [Reviewers -> Nat]
      BY DEF ReviewTypeOK, NamesOf, Profiles
    <3> QED
      BY <3>1, <1>1, FirstTypes DEF ReviseContract, Contracts, ReviewTypeOK
  <2>4. amendments' \in 0..MaxAmendments
    BY <1>1, ReviewAssumption DEF ReviseContract, Amend, ReviewTypeOK
  <2>5. ReviewTypeOK'
    BY <1>1, <2>2, <2>3, <2>4 DEF ReviseContract, ReviewTypeOK, Contracts
  <2> QED
    BY <1>1, <2>2, <2>5, FS_EmptySet DEF ReviseContract, ApprovedAsSeen
<1>2. ASSUME NEW p \in Reviewers, EditProfile(p) PROVE ReviewInv'
  <2>1. amendments' \in 0..MaxAmendments
    BY <1>2, ReviewAssumption DEF EditProfile, Amend, ReviewTypeOK
  <2> DEFINE e == [profile[p] EXCEPT !.name = amendments']
             f == [profile[p] EXCEPT !.passport = amendments']
  <2>2. profile' \in Profiles
    <3>1. amendments' \in Nat /\ profile[p] \in [name: Nat, passport: Nat]
      BY <2>1 DEF ReviewTypeOK, Profiles
    <3>2. e \in [name: Nat, passport: Nat] /\ f \in [name: Nat, passport: Nat]
      BY <3>1
    <3>3. profile' = [profile EXCEPT ![p] = e] \/ profile' = [profile EXCEPT ![p] = f]
      BY <1>2 DEF EditProfile
    <3> HIDE DEF e, f
    <3> QED
      BY <3>2, <3>3 DEF ReviewTypeOK, Profiles
  <2>3. ReviewTypeOK'
    BY <1>2, <2>1, <2>2 DEF EditProfile, ReviewTypeOK
  <2> QED
    BY <1>2, <2>3 DEF EditProfile, StampsAreOld, CheckedIsThere, StillThere, ApprovedAsSeen
<1>3. ASSUME NEW p \in Reviewers, PollRow(p) PROVE ReviewInv'
  <2> DEFINE r == [on |-> TRUE, row |-> dealRow]
  <2>1. r \in [on: BOOLEAN, row: DealRow] /\ r.row.stamp <= dealRow.stamp
    BY DEF ReviewTypeOK, DealRow
  <2>2. polling' = [polling EXCEPT ![p] = r]
    BY <1>3 DEF PollRow
  <2> HIDE DEF r
  <2>3. ReviewTypeOK' /\ StampsAreOld'
    BY <1>3, <2>1, <2>2 DEF PollRow, StampsAreOld, ReviewTypeOK
  <2> QED
    BY <1>3, <2>3 DEF PollRow, CheckedIsThere, StillThere, ApprovedAsSeen
<1>4. ASSUME NEW p \in Reviewers, PollRest(p) PROVE ReviewInv'
  <2> DEFINE w == Workspace(p, polling[p].row)
  <2>1. polling[p].row \in DealRow
    BY DEF ReviewTypeOK
  <2>2. w \in Page /\ w.stamp = polling[p].row.stamp
    BY <2>1, WorkspaceType
  <2>3. page' = [page EXCEPT ![p] = w] /\ polling' = [polling EXCEPT ![p] = NoPoll]
        /\ UNCHANGED <<dealRow, contract, approvals, profile, approving, amendments, needless>>
    BY <1>4 DEF PollRest
  <2> HIDE DEF w
  <2>4. ReviewTypeOK'
    BY <2>2, <2>3, FirstTypes DEF ReviewTypeOK
  <2>5. NoPoll.row.stamp <= dealRow.stamp
    BY FirstTypes DEF ReviewTypeOK, DealRow
  <2>6. StampsAreOld'
    BY <2>2, <2>3, <2>5 DEF StampsAreOld, ReviewTypeOK
  <2> QED
    BY <2>3, <2>4, <2>6 DEF CheckedIsThere, StillThere, ApprovedAsSeen
<1> QED
  BY <1>1, <1>2, <1>3, <1>4

LEMMA ReviewInvariance == ReviewSpec => []ReviewInv
<1>1. ReviewInv /\ [ReviewNext]_reviewVars => ReviewInv'
  <2> SUFFICES ASSUME ReviewInv, [ReviewNext]_reviewVars PROVE ReviewInv'
    OBVIOUS
  <2>1. CASE UNCHANGED reviewVars
    BY <2>1 DEF reviewVars, ReviewInv, ReviewTypeOK, StampsAreOld, CheckedIsThere, StillThere,
                ApprovedAsSeen
  <2>2. ASSUME NEW c \in Calls, ReviewStep(c) PROVE ReviewInv'
    BY <2>2, ApproveCommitKeepsInv, ApprovalKeepsInv
  <2> QED
    BY <2>1, <2>2, DealKeepsInv DEF ReviewNext
<1> QED
  BY <1>1, ReviewInvInit, PTL DEF ReviewSpec

(* Whatever polls, edits, revisions, retries and lost answers overlap, an  *)
(* approval that counts is of the version and of the requisites that its   *)
(* author's page showed, and those are the ones that are frozen.           *)
THEOREM ApprovalsAreOfWhatWasSeen == ReviewSpec => []ApprovedAsSeen
<1>1. ReviewInv => ApprovedAsSeen
  BY DEF ReviewInv
<1> QED
  BY <1>1, ReviewInvariance, PTL

(* Pages, reads and approvals stay of their form for any number of them.   *)
THEOREM ReviewTyping == ReviewSpec => []ReviewTypeOK
<1>1. ReviewInv => ReviewTypeOK
  BY DEF ReviewInv
<1> QED
  BY <1>1, ReviewInvariance, PTL

-----------------------------------------------------------------------------
(* Preparing a deal.                                                       *)

(* The records, as PreparationTypeOK has them.                             *)
AskType == [kind: {"none", "describe", "move", "start", "answer", "open", "generate", "begun"},
            form: Form, dialogue: 0..MaxDialogues, to: Steps, answers: 0..MaxChanges, odd: BOOLEAN]
DialogueRow == [status: {"none", "NEED_MORE_INFO", "READY_TO_GENERATE", "QUEUED", "COMPLETED", "FAILED"},
        terms: TermsOfDeal]

(* The form and the draft that waits on the screen of a session show the   *)
(* terms of that session; before, the session may be left from earlier.    *)
IsLate(f) == f.step \in {"clarification", "ready", "generation", "initiator"}
Started == {d \in Dialogues : dialogue[d].status \in {"QUEUED", "COMPLETED", "FAILED"}}
Completed == {d \in Dialogues : dialogue[d].status = "COMPLETED"}
Created == {d \in Dialogues : dialogue[d].status # "none"} \cup {0}
Generating == {ask[a].dialogue : a \in {b \in Asks : ask[b].kind = "generate"}}

ShowsItsTerms(f) == IsLate(f) => f.dialogue # 0 /\ dialogue[f.dialogue].terms = f.terms

(* A session that is left on an early step is never generated from.        *)
LeavesUnstarted(f) == ~IsLate(f) /\ f.dialogue # 0 => f.dialogue \notin Started \cup Generating

(* Every session that is named was created; one that an answer is about to *)
(* show for the first time is known to nobody else.                        *)
NamesAreCreated ==
  /\ {form.dialogue, kept.form.dialogue, kept.source} \subseteq Created
  /\ \A a \in Asks : {ask[a].dialogue, ask[a].form.dialogue} \subseteq Created

Shows(q) == q.kind = "open" /\ q.dialogue # q.form.dialogue

NewIsUnseen ==
  \A a \in Asks : Shows(ask[a]) =>
    /\ form.dialogue # ask[a].dialogue
    /\ \A b \in Asks : /\ ask[b].form.dialogue # ask[a].dialogue
                       /\ Shows(ask[b]) /\ ask[b].dialogue = ask[a].dialogue => a = b

(* Nothing is generated before both profiles are complete.                 *)
NeedsProfiles ==
  \/ profiles
  \/ /\ form.step \notin {"generation", "initiator"}
     /\ kept.form.step \notin {"generation", "initiator"}
     /\ Started = {}
     /\ \A a \in Asks : /\ ask[a].kind \notin {"generate", "begun"}
                        /\ ask[a].kind = "move" => ask[a].to = "questionnaire"

ReadIsCompleted == read \subseteq Completed

(* What a waiting handler still knows of the form it was called with.      *)
Sound(q) ==
  /\ q.kind = "describe" => q.form.step = "description" /\ q.to = "invitation"
  /\ q.kind = "move" => \/ q.to = "questionnaire" /\ q.form.step = "invitation"
                        \/ q.to = "generation" /\ q.form.step \in {"ready", "clarification", "generation"}
                        \/ q.to = "initiator" /\ q.form.step = "generation"
  /\ q.kind = "start" => ~q.form.terms.raw
  /\ q.kind \in {"answer", "open", "generate", "begun"} => q.dialogue # 0
  /\ q.kind \in {"answer", "generate", "begun"} => q.dialogue = q.form.dialogue
  /\ q.kind = "answer" => q.form.step = "clarification"
  /\ q.kind \in {"generate", "begun"} => q.form.step \in {"ready", "clarification", "generation"}
  /\ q.kind = "open" => /\ q.to \in {"clarification", "ready"}
                        /\ IF q.dialogue = q.form.dialogue THEN q.form.step = "clarification"
                           ELSE q.odd \/ dialogue[q.dialogue].terms = q.form.terms

AsksAreSound == \A a \in Asks : Sound(ask[a])

(* The contract that the draft is kept with is the one of the session that *)
(* the last step, or a handler on its way there, is about.                 *)
SourceIs(d) == kept.source = d /\ d \in Completed

SourceIsOfTheForm ==
  ~outdated =>
    /\ form.step = "initiator" => SourceIs(form.dialogue)
    /\ kept.form.step = "initiator" => SourceIs(kept.form.dialogue)
    /\ \A a \in Asks : /\ ask[a].kind = "move" /\ ask[a].to = "initiator"
                       /\ form.dialogue = ask[a].form.dialogue /\ form.dialogue # 0
                       => SourceIs(form.dialogue)

(* All that holds as long as no answer has met another form.               *)
FormsAgree ==
  /\ ShowsItsTerms(form) /\ ShowsItsTerms(kept.form)
  /\ LeavesUnstarted(form) /\ LeavesUnstarted(kept.form)
  /\ IsLate(form) /\ ~IsLate(kept.form) => kept.form.dialogue # form.dialogue
  /\ SourceIsOfTheForm

PreparationInv ==
  /\ PreparationTypeOK /\ NamesAreCreated /\ NewIsUnseen /\ NeedsProfiles /\ ReadIsCompleted /\ AsksAreSound
  /\ ~crossing => FormsAgree

-----------------------------------------------------------------------------
(* How the page edits a form.                                              *)
LEMMA StepNames ==
  {"description", "invitation", "questionnaire", "clarification", "ready", "generation", "initiator"}
    \subseteq Steps
BY DEF Steps

LEMMA StepEdit ==
  ASSUME NEW f \in Form, NEW s \in Steps
  PROVE  LET g == [f EXCEPT !.step = s] IN
         g \in Form /\ g.step = s /\ g.dialogue = f.dialogue /\ g.terms = f.terms
BY DEF Form

LEMMA SessionEdit ==
  ASSUME NEW f \in Form, NEW s \in Steps, NEW d \in 0..MaxDialogues, NEW g,
         \/ g = [f EXCEPT !.dialogue = d, !.step = s]
         \/ g = [f EXCEPT !.step = s, !.dialogue = d]
  PROVE  g \in Form /\ g.step = s /\ g.dialogue = d /\ g.terms = f.terms
BY DEF Form

LEMMA AnswerEdit ==
  ASSUME NEW f \in Form, NEW n \in 0..MaxChanges
  PROVE  LET g == [f EXCEPT !.terms.answers = n] IN
         g \in Form /\ g.step = f.step /\ g.dialogue = f.dialogue
BY DEF Form, TermsOfDeal

LEMMA AnswerReset ==
  ASSUME NEW f \in Form, NEW n \in 0..MaxChanges, NEW g,
         g = [f EXCEPT !.terms.answers = n, !.terms.raw = TRUE, !.dialogue = 0]
  PROVE  g \in Form /\ g.step = f.step /\ g.dialogue = 0
<1> DEFINE A(h) == [h EXCEPT !.terms.answers = n]
           R(h) == [h EXCEPT !.terms.raw = TRUE]
           D(h) == [h EXCEPT !.dialogue = 0]
<1>1. g = D(R(A(f)))
  OBVIOUS
<1>2. \A h \in Form : R(h) \in Form /\ R(h).step = h.step /\ R(h).dialogue = h.dialogue
  BY DEF Form, TermsOfDeal
<1>3. \A h \in Form : D(h) \in Form /\ D(h).step = h.step /\ D(h).dialogue = 0
  BY PreparationAssumption DEF Form
<1>4. \A h \in Form : A(h) \in Form /\ A(h).step = h.step /\ A(h).dialogue = h.dialogue
  BY AnswerEdit
<1> HIDE DEF A, R, D
<1> QED
  BY <1>1, <1>2, <1>3, <1>4

LEMMA TermsEdit ==
  ASSUME NEW f \in Form, NEW p \in Sides
  PROVE  /\ LET g == [f EXCEPT !.terms.party = p] IN
            g \in Form /\ g.step = f.step /\ g.dialogue = f.dialogue
         /\ LET g == [f EXCEPT !.terms.raw = FALSE] IN
            g \in Form /\ g.step = f.step /\ g.dialogue = f.dialogue /\ ~g.terms.raw
         /\ LET t == [f.terms EXCEPT !.raw = FALSE, !.party = p] IN
            t \in TermsOfDeal /\ (~f.terms.raw /\ p = f.terms.party => t = f.terms)
BY DEF Form, TermsOfDeal

LEMMA KeptEdit ==
  ASSUME NEW f \in Form
  PROVE  /\ AsKept(f) \in Form /\ AsKept(f).dialogue = f.dialogue /\ AsKept(f).terms = f.terms
         /\ AsKept(f).step = DraftStep(f.step) /\ (IsLate(AsKept(f)) <=> IsLate(f))
<1>1. DraftStep(f.step) \in Steps
  BY DEF DraftStep, Form, Steps
<1>2. AsKept(f) = [f EXCEPT !.step = DraftStep(f.step)]
  BY DEF AsKept
<1>3. AsKept(f) \in Form /\ AsKept(f).dialogue = f.dialogue /\ AsKept(f).terms = f.terms /\ AsKept(f).step = DraftStep(f.step)
  BY <1>1, <1>2, StepEdit
<1> QED
  BY <1>3 DEF IsLate, DraftStep

LEMMA PreparationTypes ==
  ASSUME PreparationTypeOK
  PROVE  /\ form \in Form /\ kept.form \in Form /\ kept.source \in 0..MaxDialogues
         /\ kept = [form |-> kept.form, source |-> kept.source]
         /\ form.dialogue \in 0..MaxDialogues /\ kept.form.dialogue \in 0..MaxDialogues
         /\ ask \in [Asks -> AskType] /\ dialogue \in [Dialogues -> DialogueRow] /\ NoAsk \in AskType
<1>1. EmptyForm \in Form
  BY PreparationAssumption DEF EmptyForm, EmptyTerms, Form, TermsOfDeal, Sides, Steps
<1>2. NoAsk \in AskType
  BY <1>1, PreparationAssumption DEF NoAsk, AskType, Steps
<1> QED
  BY <1>2 DEF PreparationTypeOK, Form, AskType, DialogueRow

LEMMA PreparationTypesKept ==
  ASSUME PreparationTypeOK, form' \in Form, loaded' \in BOOLEAN, read' \in SUBSET Dialogues,
         kept' = kept \/ \E f \in Form, d \in 0..MaxDialogues : kept' = [form |-> f, source |-> d],
         dialogue' \in [Dialogues -> DialogueRow], ask' \in [Asks -> AskType], changes' \in 0..MaxChanges,
         profiles' \in BOOLEAN, crossing' \in BOOLEAN, outdated' \in BOOLEAN
  PROVE  PreparationTypeOK'
BY DEF PreparationTypeOK, AskType, DialogueRow

(* A step that leaves the sessions as they are and shows none.             *)
LEMMA StepKeeps ==
  ASSUME PreparationInv, PreparationTypeOK', UNCHANGED <<dialogue, profiles>>,
         form'.dialogue \in Created, kept'.form.dialogue \in Created,
         kept'.source \in {kept.source} \cup Completed,
         \A a \in Asks : \/ ask'[a] = ask[a] /\ (ask[a].kind = "open" => form'.dialogue \in {form.dialogue, 0})
                        \/ /\ Sound(ask'[a]) /\ ask'[a].kind # "open"
                           /\ ask'[a].dialogue \in Created
                           /\ ask'[a].form.dialogue \in {form.dialogue, ask[a].form.dialogue, 0}
                           /\ ask'[a].kind \in {"generate", "begun"} => profiles
                           /\ ask'[a].kind = "move" => ask'[a].to = "questionnaire" \/ profiles,
         read' \subseteq Completed,
         {form'.step, kept'.form.step} \cap {"generation", "initiator"} # {} => profiles,
         crossing => crossing', ~crossing => crossing' \/ FormsAgree'
  PROVE  PreparationInv'
<1>1. Created' = Created /\ Completed' = Completed /\ Started' = Started
  BY DEF Created, Completed, Started
<1>2. 0 \in Created /\ Completed \subseteq Created
  BY DEF Created, Completed
<1>3. NamesAreCreated'
  BY <1>1, <1>2 DEF PreparationInv, NamesAreCreated
<1>4. AsksAreSound'
  BY DEF PreparationInv, AsksAreSound, Sound
<1>5. NewIsUnseen'
  <2> SUFFICES ASSUME NEW a \in Asks, Shows(ask'[a])
               PROVE  /\ form'.dialogue # ask'[a].dialogue
                      /\ \A b \in Asks : /\ ask'[b].form.dialogue # ask'[a].dialogue
                                         /\ Shows(ask'[b]) /\ ask'[b].dialogue = ask'[a].dialogue => a = b
    BY DEF NewIsUnseen, Shows
  <2>1. ask'[a] = ask[a] /\ Shows(ask[a]) /\ form'.dialogue \in {form.dialogue, 0} /\ ask[a].dialogue # 0
    BY DEF Shows, PreparationInv, AsksAreSound, Sound
  <2>2. \A b \in Asks : Shows(ask'[b]) => Shows(ask[b]) /\ ask'[b] = ask[b]
    BY DEF Shows
  <2> QED
    BY <2>1, <2>2 DEF PreparationInv, NewIsUnseen
<1>6. NeedsProfiles'
  BY <1>1 DEF PreparationInv, NeedsProfiles
<1>7. ReadIsCompleted'
  BY <1>1 DEF ReadIsCompleted
<1> QED
  BY <1>3, <1>4, <1>5, <1>6, <1>7 DEF PreparationInv

(* The author changes the form or leaves a step.                           *)
LEMMA FormMoves ==
  ASSUME PreparationInv, NEW g \in Form, form' = g, loaded' \in BOOLEAN, changes' \in 0..MaxChanges,
         UNCHANGED <<read, kept, dialogue, ask, profiles, crossing, outdated>>,
         g.dialogue \in {0, form.dialogue}, g.step # "initiator",
         g.step = "generation" => form.step \in {"generation", "initiator"},
         ~crossing /\ IsLate(g) => IsLate(form) /\ g.dialogue = form.dialogue /\ g.terms = form.terms,
         ~IsLate(g) /\ IsLate(form) => g.dialogue = 0 \/ ~profiles
  PROVE  PreparationInv'
<1>1. PreparationTypeOK'
  BY PreparationTypesKept, PreparationTypes DEF PreparationInv, PreparationTypeOK
<1>2. 0 \in Created
  BY DEF Created
<1>3. ASSUME ~crossing PROVE FormsAgree'
  <2>1. Completed' = Completed /\ Started' = Started /\ Generating' = Generating
    BY DEF Completed, Started, Generating
  <2>2. ShowsItsTerms(form)' /\ ShowsItsTerms(kept.form)'
    BY <1>3 DEF PreparationInv, FormsAgree, ShowsItsTerms, IsLate
  <2>3. ~profiles => Started = {} /\ Generating = {}
    BY DEF PreparationInv, NeedsProfiles, Generating
  <2>4. LeavesUnstarted(form)' /\ LeavesUnstarted(kept.form)'
    BY <1>3, <2>1, <2>3 DEF PreparationInv, FormsAgree, LeavesUnstarted, IsLate
  <2>5. IsLate(form)' /\ ~IsLate(kept.form)' => kept'.form.dialogue # form'.dialogue
    BY <1>3 DEF PreparationInv, FormsAgree, IsLate
  <2>6. SourceIsOfTheForm'
    BY <1>3, <2>1 DEF PreparationInv, FormsAgree, SourceIsOfTheForm, SourceIs
  <2> QED
    BY <2>2, <2>4, <2>5, <2>6 DEF FormsAgree
<1>4. {form'.step, kept'.form.step} \cap {"generation", "initiator"} # {} => profiles
  BY DEF PreparationInv, NeedsProfiles
<1>5. {form'.dialogue, kept'.form.dialogue} \subseteq Created
  BY <1>2 DEF PreparationInv, NamesAreCreated
<1>6. read' \subseteq Completed
  BY DEF PreparationInv, ReadIsCompleted
<1> QED
  BY <1>1, <1>3, <1>4, <1>5, <1>6, StepKeeps

LEMMA EditKeeps ==
  ASSUME PreparationInv, ChangeAnswer \/ ChooseParty \/ StepBack \/ LeaveDialogue PROVE PreparationInv'
<1>0. /\ form \in Form /\ loaded \in BOOLEAN /\ changes \in 0..MaxChanges
      /\ MaxChanges \in Nat /\ 0 \in 0..MaxDialogues
  BY PreparationTypes, PreparationAssumption DEF PreparationInv, PreparationTypeOK
<1>1. ~crossing /\ IsLate(form) => form.dialogue # 0
  BY DEF PreparationInv, FormsAgree, ShowsItsTerms
<1>2. CASE ChangeAnswer
  <2> DEFINE g == [form EXCEPT !.terms.answers = changes', !.terms.raw = TRUE, !.dialogue = 0]
  <2>1. changes' \in 0..MaxChanges /\ form' = g
    BY <1>0, <1>2 DEF ChangeAnswer
  <2>2. g \in Form /\ g.step = form.step /\ g.dialogue = 0
    BY <1>0, <2>1, AnswerReset
  <2>3. loaded' \in BOOLEAN /\ UNCHANGED <<read, kept, dialogue, ask, profiles, crossing, outdated>>
    BY <1>2 DEF ChangeAnswer
  <2>4. /\ form.step \in {"questionnaire", "clarification", "generation"}
        /\ IsLate(form) => form.dialogue = 0
    BY <1>2 DEF ChangeAnswer, ShowsQuestionnaire, IsLate
  <2> HIDE DEF g
  <2> QED
    BY <1>1, <2>1, <2>2, <2>3, <2>4, FormMoves DEF IsLate
<1>3. CASE ChooseParty
  <2>1. PICK p \in Sides : form' = [form EXCEPT !.terms.party = p]
    BY <1>3 DEF ChooseParty
  <2> DEFINE g == [form EXCEPT !.terms.party = p]
  <2>2. g \in Form /\ g.step = form.step /\ g.dialogue = form.dialogue
    BY <1>0, TermsEdit
  <2>3. /\ form' = g /\ form.step = "invitation" /\ changes' \in 0..MaxChanges
        /\ loaded' \in BOOLEAN /\ UNCHANGED <<read, kept, dialogue, ask, profiles, crossing, outdated>>
    BY <1>0, <1>3, <2>1 DEF ChooseParty
  <2> HIDE DEF g
  <2> QED
    BY <2>2, <2>3, FormMoves DEF IsLate
<1>4. CASE StepBack
  <2>1. PICK s \in {"description", "invitation", "ready", "generation"} :
          /\ form' = [form EXCEPT !.step = s]
          /\ \/ s = "description" /\ form.step = "ready" /\ ~profiles
             \/ s \in {"description", "invitation"} /\ form.step \in {"invitation", "questionnaire"}
             \/ s = "ready" /\ form.step = "generation"
             \/ s = "generation" /\ form.step = "initiator"
    BY <1>4 DEF StepBack, Back
  <2> DEFINE g == [form EXCEPT !.step = s]
  <2>2. g \in Form /\ g.step = s /\ g.dialogue = form.dialogue /\ g.terms = form.terms
    <3>1. s \in Steps
      BY DEF Steps
    <3> QED
      BY <1>0, <3>1, StepEdit
  <2>3. loaded' = loaded /\ changes' = changes /\ UNCHANGED <<read, kept, dialogue, ask, profiles, crossing, outdated>>
    BY <1>4 DEF StepBack
  <2>4. form' = g
    BY <2>1
  <2> HIDE DEF g
  <2> QED
    BY <1>0, <2>1, <2>2, <2>3, <2>4, FormMoves DEF IsLate
<1>5. CASE LeaveDialogue
  <2> DEFINE g == [form EXCEPT !.step = "questionnaire", !.dialogue = 0]
  <2>1. g \in Form /\ g.step = "questionnaire" /\ g.dialogue = 0
    BY <1>0, StepNames DEF Form
  <2>2. form' = g /\ loaded' \in BOOLEAN /\ UNCHANGED <<read, kept, dialogue, ask, changes, profiles, crossing, outdated>>
    BY <1>5 DEF LeaveDialogue
  <2> HIDE DEF g
  <2> QED
    BY <1>0, <2>1, <2>2, FormMoves DEF IsLate
<1> QED
  BY <1>2, <1>3, <1>4, <1>5

(* A handler that saves an early step, and waits.                          *)
LEMMA SavesEarly ==
  ASSUME PreparationInv, NEW a \in Asks, NEW f \in Form, NEW g \in Form, NEW q \in AskType,
         form' = g, g.step = form.step, g.dialogue = form.dialogue,
         IsLate(form) /\ ~crossing => g = form,
         kept' = [form |-> AsKept(f), source |-> kept.source],
         ~IsLate(f), f.dialogue = 0 \/ (f.dialogue = form.dialogue /\ ~IsLate(form)),
         ask' = [ask EXCEPT ![a] = q], q.kind \in {"describe", "move", "start"}, Sound(q),
         q.kind = "move" => q.to = "questionnaire", q.dialogue = 0, q.form.dialogue = form.dialogue,
         changes' \in 0..MaxChanges, UNCHANGED <<loaded, read, dialogue, profiles, crossing, outdated>>
  PROVE  PreparationInv'
<1>0. ask \in [Asks -> AskType] /\ form \in Form /\ kept.source \in 0..MaxDialogues
  BY PreparationTypes DEF PreparationInv
<1>1. /\ kept'.form \in Form /\ ~IsLate(kept'.form) /\ kept'.form.dialogue = f.dialogue
      /\ kept'.source = kept.source
  BY KeptEdit
<1>2. PreparationTypeOK'
  <2>1. ask' \in [Asks -> AskType]
    BY <1>0
  <2> QED
    BY <1>0, <2>1, KeptEdit, PreparationTypesKept, PreparationTypes DEF PreparationInv, PreparationTypeOK
<1>3. \A b \in Asks : ask'[b] = IF b = a THEN q ELSE ask[b]
  BY <1>0
<1>4. 0 \in Created /\ form.dialogue \in Created /\ read \subseteq Completed
  BY DEF Created, PreparationInv, NamesAreCreated, ReadIsCompleted
<1>5. ASSUME ~crossing PROVE FormsAgree'
  <2>1. Completed' = Completed /\ Started' = Started /\ Generating' \subseteq Generating
    BY <1>3 DEF Completed, Started, Generating
  <2>2. ShowsItsTerms(form)' /\ ShowsItsTerms(kept.form)'
    BY <1>1, <1>5 DEF PreparationInv, FormsAgree, ShowsItsTerms, IsLate
  <2>3. LeavesUnstarted(form)' /\ LeavesUnstarted(kept.form)'
    BY <1>1, <1>5, <2>1 DEF PreparationInv, FormsAgree, LeavesUnstarted, IsLate
  <2>4. IsLate(form)' /\ ~IsLate(kept.form)' => kept'.form.dialogue # form'.dialogue
    BY <1>1, <1>5 DEF PreparationInv, FormsAgree, ShowsItsTerms, IsLate
  <2>5. SourceIsOfTheForm'
    BY <1>1, <1>3, <1>5, <2>1 DEF PreparationInv, FormsAgree, SourceIsOfTheForm, SourceIs, IsLate
  <2> QED
    BY <2>2, <2>3, <2>4, <2>5 DEF FormsAgree
<1>6. {form'.step, kept'.form.step} \cap {"generation", "initiator"} # {} => profiles
  BY <1>1 DEF PreparationInv, NeedsProfiles, IsLate
<1>7. \A b \in Asks : \/ ask'[b] = ask[b] /\ form'.dialogue = form.dialogue
                      \/ /\ Sound(ask'[b]) /\ ask'[b].kind \in {"describe", "move", "start"}
                         /\ ask'[b].dialogue \in Created /\ ask'[b].form.dialogue = form.dialogue
                         /\ ask'[b].kind = "move" => ask'[b].to = "questionnaire"
  BY <1>3, <1>4
<1> QED
  BY <1>1, <1>2, <1>4, <1>5, <1>6, <1>7, StepKeeps

LEMMA EarlyStepKeeps ==
  ASSUME PreparationInv, NEW a \in Asks,
         ContinueDescription(a) \/ ContinueInvitation(a) \/ SubmitQuestionnaire(a)
  PROVE  PreparationInv'
<1>0. /\ form \in Form /\ changes \in 0..MaxChanges /\ form.terms.answers \in 0..MaxChanges
      /\ MaxChanges \in Nat /\ 0 \in 0..MaxChanges /\ 0 \in 0..MaxDialogues
  BY PreparationTypes, PreparationAssumption DEF PreparationInv, PreparationTypeOK, Form, TermsOfDeal
<1>1. CASE ContinueDescription(a)
  <2>1. PICK n \in {form.terms.answers, changes + 1} :
          /\ n <= MaxChanges
          /\ changes' = IF n = form.terms.answers THEN changes ELSE n
          /\ Save([form EXCEPT !.terms.answers = n, !.step = "invitation"], kept.source)
          /\ Waits(a, "describe", form, 0, "invitation", n)
    BY <1>1 DEF ContinueDescription
  <2>2. n \in 0..MaxChanges /\ changes' \in 0..MaxChanges
    BY <1>0, <2>1
  <2> DEFINE f == [form EXCEPT !.terms.answers = n, !.step = "invitation"]
             q == [kind |-> "describe", form |-> form, dialogue |-> 0, to |-> "invitation",
                   answers |-> n, odd |-> FALSE]
  <2>3. f \in Form /\ f.step = "invitation" /\ f.dialogue = form.dialogue
    <3> DEFINE h == [form EXCEPT !.terms.answers = n]
    <3>1. h \in Form /\ h.step = form.step /\ h.dialogue = form.dialogue
      BY <1>0, <2>2, AnswerEdit
    <3>2. f = [h EXCEPT !.step = "invitation"]
      OBVIOUS
    <3> HIDE DEF h, f
    <3> QED
      BY <3>1, <3>2, StepNames, StepEdit
  <2>4. q \in AskType
    BY <1>0, <2>2 DEF AskType, Steps
  <2>5. /\ form.step = "description" /\ form' = form
        /\ UNCHANGED <<loaded, read, dialogue, profiles, crossing, outdated>>
    BY <1>1 DEF ContinueDescription
  <2>6. kept' = [form |-> AsKept(f), source |-> kept.source] /\ ask' = [ask EXCEPT ![a] = q]
    BY <2>1 DEF Save, Waits
  <2>7. /\ Sound(q) /\ q.kind = "describe" /\ q.dialogue = 0 /\ q.form.dialogue = form.dialogue
        /\ ~IsLate(form) /\ ~IsLate(f)
    BY <2>3, <2>5 DEF Sound, IsLate
  <2> HIDE DEF f, q
  <2> QED
    BY <1>0, <2>2, <2>3, <2>4, <2>5, <2>6, <2>7, SavesEarly
<1>2. CASE ContinueInvitation(a)
  <2> DEFINE f == [form EXCEPT !.step = "questionnaire"]
             q == [kind |-> "move", form |-> form, dialogue |-> 0, to |-> "questionnaire",
                   answers |-> 0, odd |-> FALSE]
  <2>1. f \in Form /\ f.step = "questionnaire" /\ f.dialogue = form.dialogue
    BY <1>0, StepNames, StepEdit
  <2>2. q \in AskType
    BY <1>0 DEF AskType, Steps
  <2>3. /\ form.step = "invitation" /\ form' = form
        /\ UNCHANGED <<loaded, read, dialogue, changes, profiles, crossing, outdated>>
    BY <1>2 DEF ContinueInvitation
  <2>4. kept' = [form |-> AsKept(f), source |-> kept.source] /\ ask' = [ask EXCEPT ![a] = q]
    BY <1>2 DEF ContinueInvitation, Save, Waits
  <2>5. /\ Sound(q) /\ q.kind = "move" /\ q.to = "questionnaire" /\ q.dialogue = 0
        /\ q.form.dialogue = form.dialogue /\ ~IsLate(form) /\ ~IsLate(f)
    BY <2>1, <2>3 DEF Sound, IsLate
  <2> HIDE DEF f, q
  <2> QED
    BY <1>0, <2>1, <2>2, <2>3, <2>4, <2>5, SavesEarly
<1>3. CASE SubmitQuestionnaire(a)
  <2> DEFINE g == NormalForm
             f == [g EXCEPT !.dialogue = 0, !.step = "questionnaire"]
             q == [kind |-> "start", form |-> g, dialogue |-> 0, to |-> "questionnaire",
                   answers |-> 0, odd |-> FALSE]
  <2>1. g \in Form /\ g.step = form.step /\ g.dialogue = form.dialogue /\ ~g.terms.raw
    <3>1. "none" \in Sides
      BY DEF Sides
    <3> QED
      BY <1>0, <3>1, TermsEdit DEF NormalForm
  <2>2. f \in Form /\ f.step = "questionnaire" /\ f.dialogue = 0
    BY <1>0, <2>1, StepNames DEF Form
  <2>3. q \in AskType
    BY <1>0, <2>1 DEF AskType, Steps
  <2>4. /\ form' = g /\ kept' = [form |-> AsKept(f), source |-> kept.source] /\ ask' = [ask EXCEPT ![a] = q]
        /\ UNCHANGED <<loaded, read, dialogue, changes, profiles, crossing, outdated>>
    BY <1>3 DEF SubmitQuestionnaire, Save, Waits
  <2>5. Sound(q) /\ q.kind = "start" /\ q.dialogue = 0 /\ q.form.dialogue = form.dialogue /\ ~IsLate(f)
    BY <2>1, <2>2 DEF Sound, IsLate
  <2>6. IsLate(form) => crossing
    BY <1>3 DEF SubmitQuestionnaire, ShowsQuestionnaire, IsLate, PreparationInv, FormsAgree, ShowsItsTerms
  <2>7. /\ IsLate(form) /\ ~crossing => g = form
        /\ f.dialogue = 0 \/ (f.dialogue = form.dialogue /\ ~IsLate(form))
        /\ q.kind \in {"describe", "move", "start"} /\ (q.kind = "move" => q.to = "questionnaire")
        /\ changes' \in 0..MaxChanges
    BY <1>0, <2>2, <2>4, <2>6
  <2> HIDE DEF f, g, q
  <2> QED
    BY <2>1, <2>2, <2>3, <2>4, <2>5, <2>7, SavesEarly
<1> QED
  BY <1>1, <1>2, <1>3

(* A handler that starts to wait for the server, or ends, and a page that  *)
(* reads: neither the form nor the draft changes.                          *)
LEMMA AsksKeep ==
  ASSUME PreparationInv, PreparationTypeOK',
         UNCHANGED <<form, kept, dialogue, profiles, crossing, outdated>>, read' \subseteq Completed,
         \A a \in Asks :
           \/ ask'[a] = ask[a]
           \/ /\ Sound(ask'[a]) /\ ask'[a].kind \in {"none", "answer", "generate"}
              /\ ask'[a].dialogue \in Created /\ ask'[a].form.dialogue \in {form.dialogue, 0}
              /\ ask'[a].kind = "generate" => profiles /\ IsLate(form) /\ ask'[a].dialogue = form.dialogue
  PROVE  PreparationInv'
<1>1. Completed' = Completed /\ Started' = Started
  BY DEF Completed, Started
<1>2. Generating' \subseteq Generating \cup {d \in {form.dialogue} : IsLate(form)}
  BY DEF Generating
<1>3. ASSUME ~crossing PROVE FormsAgree'
  <2>1. ShowsItsTerms(form)' /\ ShowsItsTerms(kept.form)'
    BY <1>3 DEF PreparationInv, FormsAgree, ShowsItsTerms, IsLate
  <2>2. LeavesUnstarted(form)' /\ LeavesUnstarted(kept.form)'
    BY <1>1, <1>2, <1>3 DEF PreparationInv, FormsAgree, LeavesUnstarted, IsLate
  <2>3. IsLate(form)' /\ ~IsLate(kept.form)' => kept'.form.dialogue # form'.dialogue
    BY <1>3 DEF PreparationInv, FormsAgree, IsLate
  <2>4. SourceIsOfTheForm'
    BY <1>1, <1>3 DEF PreparationInv, FormsAgree, SourceIsOfTheForm, SourceIs
  <2> QED
    BY <2>1, <2>2, <2>3, <2>4 DEF FormsAgree
<1>4. {form'.step, kept'.form.step} \cap {"generation", "initiator"} # {} => profiles
  BY DEF PreparationInv, NeedsProfiles
<1>5. {form'.dialogue, kept'.form.dialogue} \subseteq Created
  BY DEF PreparationInv, NamesAreCreated
<1> QED
  BY <1>3, <1>4, <1>5, StepKeeps

LEMMA WaitsTyped ==
  ASSUME PreparationTypeOK, NEW a \in Asks, NEW kind, NEW f \in Form, NEW d \in 0..MaxDialogues,
         NEW to \in Steps, NEW n \in 0..MaxChanges, Waits(a, kind, f, d, to, n),
         kind \in {"describe", "move", "start", "answer", "generate"}
  PROVE  /\ ask' \in [Asks -> AskType]
         /\ \A b \in Asks : ask'[b] = IF b = a THEN [kind |-> kind, form |-> f, dialogue |-> d,
                                                    to |-> to, answers |-> n, odd |-> FALSE]
                                       ELSE ask[b]
<1>1. ask \in [Asks -> AskType]
  BY PreparationTypes
<1>2. [kind |-> kind, form |-> f, dialogue |-> d, to |-> to, answers |-> n, odd |-> FALSE] \in AskType
  BY DEF AskType
<1> QED
  BY <1>1, <1>2 DEF Waits

LEMMA AskEndsTyped ==
  ASSUME PreparationTypeOK, NEW a \in Asks, AskEnds(a)
  PROVE  /\ ask' \in [Asks -> AskType]
         /\ \A b \in Asks : ask'[b] = IF b = a THEN NoAsk ELSE ask[b]
<1>1. ask \in [Asks -> AskType] /\ NoAsk \in AskType
  BY PreparationTypes
<1> QED
  BY <1>1 DEF AskEnds

LEMMA NoAskIsSound == /\ Sound(NoAsk) /\ NoAsk.kind = "none" /\ NoAsk.dialogue = 0
                      /\ NoAsk.form.dialogue = 0 /\ ~Shows(NoAsk) /\ 0 \in Created
BY DEF NoAsk, Sound, EmptyForm, Shows, Created

LEMMA AskingKeeps ==
  ASSUME PreparationInv, NEW a \in Asks, AnswerQuestions(a) \/ BeginGeneration(a) \/ AskFails(a)
  PROVE  PreparationInv'
<1>0. /\ form \in Form /\ form.dialogue \in 0..MaxDialogues /\ 0 \in 0..MaxChanges
      /\ read \subseteq Completed /\ form.dialogue \in Created
  BY PreparationTypes, PreparationAssumption DEF PreparationInv, ReadIsCompleted, NamesAreCreated
<1>1. CASE AnswerQuestions(a)
  <2> DEFINE q == [kind |-> "answer", form |-> form, dialogue |-> form.dialogue, to |-> "clarification",
                   answers |-> 0, odd |-> FALSE]
  <2>1. /\ ask' \in [Asks -> AskType] /\ \A b \in Asks : ask'[b] = IF b = a THEN q ELSE ask[b]
    BY <1>0, <1>1, StepNames, WaitsTyped DEF PreparationInv, AnswerQuestions
  <2>2. UNCHANGED <<form, loaded, read, kept, dialogue, changes, profiles, crossing, outdated>>
    BY <1>1 DEF AnswerQuestions
  <2>3. Sound(q) /\ q.kind = "answer" /\ q.dialogue \in Created /\ q.form.dialogue = form.dialogue
    BY <1>0, <1>1 DEF AnswerQuestions, ShowsQuestions, DialogueStatus, Sound
  <2>4. PreparationTypeOK'
    BY <2>1, <2>2, PreparationTypes, PreparationTypesKept DEF PreparationInv, PreparationTypeOK
  <2> HIDE DEF q
  <2> QED
    BY <1>0, <2>1, <2>2, <2>3, <2>4, AsksKeep
<1>2. CASE BeginGeneration(a)
  <2> DEFINE q == [kind |-> "generate", form |-> form, dialogue |-> form.dialogue, to |-> "generation",
                   answers |-> 0, odd |-> FALSE]
  <2>1. /\ ask' \in [Asks -> AskType] /\ \A b \in Asks : ask'[b] = IF b = a THEN q ELSE ask[b]
    BY <1>0, <1>2, StepNames, WaitsTyped DEF PreparationInv, BeginGeneration
  <2>2. UNCHANGED <<form, loaded, read, kept, dialogue, changes, profiles, crossing, outdated>>
    BY <1>2 DEF BeginGeneration
  <2>3. /\ Sound(q) /\ q.kind = "generate" /\ q.dialogue \in Created /\ q.form.dialogue = form.dialogue
        /\ IsLate(form) /\ q.dialogue = form.dialogue
    BY <1>0, <1>2 DEF BeginGeneration, ShowsReady, Sound, IsLate
  <2>4. profiles
    BY <1>2 DEF BeginGeneration, PreparationInv, NeedsProfiles
  <2>5. PreparationTypeOK'
    BY <2>1, <2>2, PreparationTypes, PreparationTypesKept DEF PreparationInv, PreparationTypeOK
  <2> HIDE DEF q
  <2> QED
    BY <1>0, <2>1, <2>2, <2>3, <2>4, <2>5, AsksKeep
<1>3. CASE AskFails(a)
  <2>1. /\ ask' \in [Asks -> AskType] /\ \A b \in Asks : ask'[b] = IF b = a THEN NoAsk ELSE ask[b]
    BY <1>3, AskEndsTyped DEF PreparationInv, AskFails
  <2>2. UNCHANGED <<form, loaded, read, kept, dialogue, changes, profiles, crossing, outdated>>
    BY <1>3 DEF AskFails
  <2>3. PreparationTypeOK'
    BY <2>1, <2>2, PreparationTypes, PreparationTypesKept DEF PreparationInv, PreparationTypeOK
  <2> QED
    BY <1>0, <2>1, <2>2, <2>3, AsksKeep, NoAskIsSound
<1> QED
  BY <1>1, <1>2, <1>3

LEMMA ReadingKeeps ==
  ASSUME PreparationInv, ReadGeneration \/ LoadDialogue PROVE PreparationInv'
<1>0. read \subseteq Completed /\ read \in SUBSET Dialogues /\ dialogue \in [Dialogues -> DialogueRow]
  BY PreparationTypes DEF PreparationInv, ReadIsCompleted, PreparationTypeOK
<1>1. read' \subseteq Completed /\ loaded' \in BOOLEAN
  <2>1. GenerationId \in 0..MaxDialogues
    BY PreparationTypes, PreparationAssumption DEF PreparationInv, GenerationId
  <2>2. CASE ReadGeneration
    <3>1. GenerationId \in Completed
      BY <2>1, <2>2, PreparationAssumption DEF ReadGeneration, DialogueStatus, Completed, Dialogues
    <3> QED
      BY <1>0, <2>2, <3>1 DEF ReadGeneration, PreparationInv, PreparationTypeOK
  <2>3. CASE LoadDialogue
    BY <1>0, <2>3 DEF LoadDialogue
  <2> QED
    BY <2>2, <2>3
<1>2. UNCHANGED <<form, kept, dialogue, ask, changes, profiles, crossing, outdated>>
  BY DEF ReadGeneration, LoadDialogue
<1>3. PreparationTypeOK'
  <2>1. read' \in SUBSET Dialogues
    BY <1>1 DEF Completed
  <2> QED
    BY <1>1, <1>2, <2>1, PreparationTypes, PreparationTypesKept DEF PreparationInv, PreparationTypeOK
<1> QED
  BY <1>1, <1>2, <1>3, AsksKeep

(* A save that went through is followed by the next step.                  *)
LEMMA FollowSaveKeeps ==
  ASSUME PreparationInv, NEW a \in Asks, FollowSave(a) PROVE PreparationInv'
<1> DEFINE q == ask[a]
<1>0. /\ form \in Form /\ form.dialogue \in Created /\ read \subseteq Completed
      /\ kept.form.dialogue \in Created /\ q \in AskType
  BY PreparationTypes DEF PreparationInv, ReadIsCompleted, NamesAreCreated
<1>1. /\ ask' \in [Asks -> AskType] /\ \A b \in Asks : ask'[b] = IF b = a THEN NoAsk ELSE ask[b]
  BY AskEndsTyped DEF PreparationInv, FollowSave
<1>2. UNCHANGED <<loaded, read, kept, dialogue, changes, profiles, outdated>>
  BY DEF FollowSave
<1>3. /\ form' \in Form /\ form'.step = q.to /\ form'.dialogue = form.dialogue
      /\ q.kind = "move" => form'.terms = form.terms
  <2>1. q.to \in Steps /\ q.answers \in 0..MaxChanges
    BY <1>0 DEF AskType
  <2>2. CASE q.kind = "describe"
    <3> DEFINE h == [form EXCEPT !.step = q.to]
    <3>1. h \in Form /\ h.step = q.to /\ h.dialogue = form.dialogue
      BY <1>0, <2>1, StepEdit
    <3>2. form' = [h EXCEPT !.terms.answers = q.answers]
      BY <2>2 DEF FollowSave
    <3> HIDE DEF h, q
    <3> QED
      BY <2>1, <2>2, <3>1, <3>2, AnswerEdit
  <2>3. CASE q.kind = "move"
    <3>1. form' = [form EXCEPT !.step = q.to]
      BY <2>3 DEF FollowSave
    <3> HIDE DEF q
    <3> QED
      BY <1>0, <2>1, <3>1, StepEdit
  <2> QED
    BY <2>2, <2>3 DEF FollowSave
<1>4. crossing' \in BOOLEAN /\ (crossing => crossing') /\ (~crossing' => ~crossing /\ form = q.form)
  BY DEF FollowSave, PreparationInv, PreparationTypeOK, Timely
<1>5. PreparationTypeOK'
  BY <1>1, <1>2, <1>3, <1>4, PreparationTypes, PreparationTypesKept DEF PreparationInv, PreparationTypeOK
<1>6. q.kind \in {"describe", "move"} /\ Sound(q)
  BY DEF FollowSave, PreparationInv, AsksAreSound
<1>7. ~profiles => q.to \in {"questionnaire", "invitation"} /\ kept.form.step \notin {"generation", "initiator"}
  BY <1>6 DEF PreparationInv, NeedsProfiles, Sound
<1>8. ASSUME ~crossing' PROVE FormsAgree'
  <2>1. /\ ~crossing /\ form = q.form /\ FormsAgree
        /\ Completed' = Completed /\ Started' = Started /\ Generating' \subseteq Generating
    BY <1>1, <1>2, <1>4, <1>8, NoAskIsSound DEF PreparationInv, Completed, Started, Generating
  <2>2. (IsLate(form) <=> IsLate(form)') /\ (IsLate(form) => form'.terms = form.terms)
    BY <1>3, <1>6, <2>1 DEF Sound, IsLate
  <2>3. ShowsItsTerms(form)' /\ ShowsItsTerms(kept.form)'
    BY <1>2, <1>3, <2>1, <2>2 DEF FormsAgree, ShowsItsTerms, IsLate
  <2>4. LeavesUnstarted(form)' /\ LeavesUnstarted(kept.form)'
    BY <1>2, <1>3, <2>1, <2>2 DEF FormsAgree, LeavesUnstarted, IsLate
  <2>5. IsLate(form)' /\ ~IsLate(kept.form)' => kept'.form.dialogue # form'.dialogue
    BY <1>2, <1>3, <2>1, <2>2 DEF FormsAgree, IsLate
  <2>6. SourceIsOfTheForm'
    <3>1. form'.step = "initiator" => q.kind = "move" /\ q.to = "initiator" /\ form.step = "generation"
      BY <1>3, <1>6, <2>1 DEF Sound
    <3>2. form.step = "generation" => form.dialogue # 0
      BY <2>1 DEF FormsAgree, ShowsItsTerms, IsLate
    <3>3. \A b \in Asks : ask'[b].kind = "move" => ask'[b] = ask[b]
      BY <1>1, NoAskIsSound
    <3> QED
      BY <1>2, <1>3, <2>1, <3>1, <3>2, <3>3 DEF FormsAgree, SourceIsOfTheForm, SourceIs
  <2> QED
    BY <2>3, <2>4, <2>5, <2>6 DEF FormsAgree
<1> QED
  BY <1>0, <1>1, <1>2, <1>3, <1>4, <1>5, <1>7, <1>8, StepKeeps, NoAskIsSound

(* The page saves a form that shows its terms, as the draft of the contract *)
(* it is about or of the one that was kept.                                *)
LEMMA SaveKeeps ==
  ASSUME PreparationInv, NEW f \in Form, NEW s \in {kept.source} \cup Completed,
         kept' = [form |-> AsKept(f), source |-> s],
         f.dialogue \in Created, f.step \in {"generation", "initiator"} => profiles,
         UNCHANGED <<form, loaded, read, dialogue, changes, profiles>>, ask' \in [Asks -> AskType],
         \A a \in Asks : \/ ask'[a] = ask[a]
                        \/ /\ Sound(ask'[a]) /\ ask'[a].kind = "move" /\ profiles
                           /\ ask'[a].dialogue \in Created /\ ask'[a].form.dialogue \in {form.dialogue, ask[a].form.dialogue}
                           /\ (ask'[a].to = "initiator" => (s = form.dialogue /\ s \in Completed) \/ outdated'),
         crossing' \in BOOLEAN, outdated' \in BOOLEAN, crossing => crossing',
         ~crossing' => f.dialogue = form.dialogue /\ f.terms = form.terms /\ (IsLate(f) <=> IsLate(form)),
         \/ s = kept.source /\ outdated' = outdated /\ (f.step = "initiator" => crossing' \/ form.step = "initiator")
         \/ s \in Completed /\ (outdated' \/ s = form.dialogue)
  PROVE  PreparationInv'
<1>0. /\ form.dialogue \in Created /\ read \subseteq Completed /\ Completed \subseteq Dialogues
      /\ kept.source \in 0..MaxDialogues
  BY PreparationTypes DEF PreparationInv, ReadIsCompleted, NamesAreCreated, Completed
<1>1. /\ AsKept(f) \in Form /\ AsKept(f).dialogue = f.dialogue /\ AsKept(f).terms = f.terms
      /\ AsKept(f).step = DraftStep(f.step) /\ (IsLate(AsKept(f)) <=> IsLate(f))
  BY KeptEdit
<1>2. kept'.form = AsKept(f) /\ kept'.source = s /\ s \in 0..MaxDialogues
  <2>1. \A d \in Dialogues : d \in 0..MaxDialogues
    BY PreparationAssumption DEF Dialogues
  <2> QED
    BY <1>0, <2>1
<1>3. DraftStep(f.step) \in {"generation", "initiator"} => DraftStep(f.step) = f.step
  BY DEF DraftStep
<1>4. PreparationTypeOK'
  BY <1>1, <1>2, PreparationTypes, PreparationTypesKept DEF PreparationInv, PreparationTypeOK
<1>5. ASSUME ~crossing' PROVE FormsAgree'
  <2>1. /\ ~crossing /\ FormsAgree /\ Completed' = Completed /\ Started' = Started
        /\ Generating' \subseteq Generating
    BY <1>5 DEF PreparationInv, Completed, Started, Generating
  <2>2. IsLate(form)' = IsLate(form) /\ IsLate(kept.form)' = IsLate(form)
    BY <1>1, <1>2, <1>5 DEF IsLate
  <2>3. ShowsItsTerms(form)' /\ ShowsItsTerms(kept.form)'
    BY <1>1, <1>2, <1>5, <2>1, <2>2 DEF FormsAgree, ShowsItsTerms, IsLate
  <2>4. LeavesUnstarted(form)' /\ LeavesUnstarted(kept.form)'
    BY <1>1, <1>2, <1>5, <2>1, <2>2 DEF FormsAgree, LeavesUnstarted, IsLate
  <2>5. SourceIsOfTheForm'
    <3>1. SUFFICES ASSUME ~outdated' PROVE SourceIsOfTheForm'
      BY DEF SourceIsOfTheForm
    <3>2. kept'.form.dialogue = form.dialogue /\ (kept'.form.step = "initiator" => f.step = "initiator")
      BY <1>1, <1>2, <1>3, <1>5
    <3>3. CASE s \in Completed /\ s = form.dialogue
      BY <1>2, <2>1, <3>2, <3>3 DEF SourceIsOfTheForm, SourceIs
    <3>4. CASE s = kept.source /\ ~outdated /\ (f.step = "initiator" => form.step = "initiator")
      <4>1. \A d \in {form.dialogue} : SourceIs(d) => SourceIs(d)'
        BY <1>2, <2>1, <3>4 DEF SourceIs
      <4>2. \A b \in Asks : /\ ask'[b].kind = "move" /\ ask'[b].to = "initiator"
                            /\ form.dialogue = ask'[b].form.dialogue /\ form.dialogue # 0
                            => SourceIs(form.dialogue)
        <5>1. SUFFICES ASSUME NEW b \in Asks, ask'[b].kind = "move", ask'[b].to = "initiator",
                              form.dialogue = ask'[b].form.dialogue, form.dialogue # 0
                       PROVE  SourceIs(form.dialogue)
          OBVIOUS
        <5>2. CASE ask'[b] = ask[b]
          BY <2>1, <3>4, <5>1, <5>2 DEF FormsAgree, SourceIsOfTheForm
        <5>3. CASE s = form.dialogue /\ s \in Completed
          BY <3>4, <5>3 DEF SourceIs
        <5> QED
          BY <3>1, <5>1, <5>2, <5>3
      <4> QED
        BY <2>1, <3>2, <3>4, <4>1, <4>2 DEF FormsAgree, SourceIsOfTheForm
    <3> QED
      BY <1>5, <3>1, <3>3, <3>4
  <2> QED
    BY <2>2, <2>3, <2>4, <2>5 DEF FormsAgree
<1>6. {form'.step, kept'.form.step} \cap {"generation", "initiator"} # {} => profiles
  BY <1>1, <1>2, <1>3 DEF PreparationInv, NeedsProfiles
<1> QED
  BY <1>0, <1>1, <1>2, <1>4, <1>5, <1>6, StepKeeps

(* A generation that the page has read is completed; its session is not    *)
(* left at an early step.                                                  *)
LEMMA ReadGenerations ==
  ASSUME PreparationInv
  PROVE  /\ ~crossing => (form.dialogue \in Completed => IsLate(form))
         /\ GenerationId \in read => /\ GenerationId \in Completed /\ profiles
                                     /\ GenerationId # form.dialogue => IsLate(form)
<1>1. ~crossing => (form.dialogue \in Completed => IsLate(form))
  BY DEF PreparationInv, FormsAgree, LeavesUnstarted, Completed, Started, Created, Dialogues
<1>2. GenerationId \in read => /\ GenerationId \in Completed /\ profiles
                               /\ GenerationId # form.dialogue => IsLate(form)
  <2>1. SUFFICES ASSUME GenerationId \in read
               PROVE  /\ GenerationId \in Completed /\ profiles
                      /\ GenerationId # form.dialogue => IsLate(form)
    OBVIOUS
  <2>2. GenerationId \in Completed
    BY <2>1 DEF PreparationInv, ReadIsCompleted
  <2>3. Completed \subseteq Started /\ 0 \notin Completed
    BY DEF Completed, Started, Dialogues
  <2>4. profiles
    BY <2>2, <2>3 DEF PreparationInv, NeedsProfiles
  <2> QED
    BY <2>2, <2>3, <2>4 DEF GenerationId, IsLate
<1> QED
  BY <1>1, <1>2

LEMMA SavingKeeps ==
  ASSUME PreparationInv, NEW a \in Asks, GenerationBegun(a) \/ AcceptContract(a)
  PROVE  PreparationInv'
<1>0. /\ form \in Form /\ form.dialogue \in Created /\ ask \in [Asks -> AskType]
      /\ ask[a].form \in Form /\ Sound(ask[a]) /\ 0 \in Created /\ 0 \in 0..MaxChanges /\ 0 \in 0..MaxDialogues
      /\ ask[a].form.dialogue \in Created /\ ask[a].dialogue \in Created
  <2>1. ask[a] \in AskType
    BY PreparationTypes DEF PreparationInv
  <2> QED
    BY <2>1, PreparationTypes, PreparationAssumption DEF PreparationInv, NamesAreCreated, Created, AsksAreSound, AskType
<1>1. ASSUME NEW f, NEW s \in Steps, f = [form EXCEPT !.step = s]
      PROVE  f \in Form /\ f.step = s /\ f.dialogue = form.dialogue /\ f.terms = form.terms
  BY <1>0, <1>1, StepEdit
<1>2. CASE GenerationBegun(a)
  <2> DEFINE f == [ask[a].form EXCEPT !.step = "generation"]
             q == [ask[a] EXCEPT !.kind = "move", !.to = "generation", !.odd = @ \/ form # ask[a].form]
  <2>1. f \in Form /\ f.step = "generation" /\ f.dialogue = ask[a].form.dialogue /\ f.terms = ask[a].form.terms
    BY <1>0, StepNames, StepEdit
  <2>2. /\ kept' = [form |-> AsKept(f), source |-> kept.source]
        /\ UNCHANGED <<form, loaded, read, dialogue, changes, profiles, outdated>>
        /\ ask[a].kind = "begun" /\ ask' = [ask EXCEPT ![a] = q]
        /\ crossing' = (crossing \/ ~Timely(a))
    BY <1>2 DEF GenerationBegun, Save, Asked
  <2>3. /\ q \in AskType /\ q.kind = "move" /\ q.to = "generation" /\ q.form = ask[a].form
        /\ q.dialogue = ask[a].dialogue
    BY <1>0 DEF AskType, Steps
  <2>4. Sound(q) /\ profiles
    BY <1>0, <2>2, <2>3 DEF Sound, PreparationInv, NeedsProfiles
  <2>5. /\ crossing' \in BOOLEAN /\ outdated' \in BOOLEAN /\ (crossing => crossing')
        /\ ~crossing' => /\ f.dialogue = form.dialogue /\ f.terms = form.terms
                         /\ form.step \in {"ready", "clarification", "generation"}
    BY <1>0, <2>1, <2>2 DEF PreparationInv, PreparationTypeOK, Timely, Sound
  <2>6. ~crossing' => (IsLate(f) <=> IsLate(form))
    BY <2>1, <2>5 DEF IsLate
  <2>7. ask' \in [Asks -> AskType] /\ \A b \in Asks : ask'[b] = IF b = a THEN q ELSE ask[b]
    BY <1>0, <2>2, <2>3
  <2> HIDE DEF f, q
  <2> QED
    BY <1>0, <2>1, <2>2, <2>3, <2>4, <2>5, <2>6, <2>7, SaveKeeps
<1>3. CASE AcceptContract(a)
  <2> DEFINE f == [form EXCEPT !.step = "initiator"]
             q == [kind |-> "move", form |-> form, dialogue |-> 0, to |-> "initiator",
                   answers |-> 0, odd |-> FALSE]
             s == GenerationId
  <2>1. f \in Form /\ f.step = "initiator" /\ f.dialogue = form.dialogue /\ f.terms = form.terms
    BY <1>1, StepNames
  <2>2. /\ kept' = [form |-> AsKept(f), source |-> s] /\ form.step = "generation" /\ s \in Completed /\ profiles
        /\ UNCHANGED <<form, loaded, read, dialogue, changes, profiles, crossing>>
        /\ outdated' \in BOOLEAN /\ (outdated' \/ s = form.dialogue)
    <3>1. GenerationId \in read /\ outdated' = (GenerationId # form.dialogue)
      BY <1>3 DEF AcceptContract
    <3>2. outdated' \in BOOLEAN /\ (outdated' \/ s = form.dialogue)
      BY <3>1
    <3>3. s \in Completed /\ profiles
      BY <3>1, ReadGenerations
    <3>4. kept' = [form |-> AsKept(f), source |-> s]
      BY <1>3 DEF AcceptContract, Save
    <3> HIDE DEF f, s
    <3> QED
      BY <1>3, <3>2, <3>3, <3>4 DEF AcceptContract
  <2>3. ask' \in [Asks -> AskType] /\ \A b \in Asks : ask'[b] = IF b = a THEN q ELSE ask[b]
    BY <1>0, <1>3, StepNames, WaitsTyped DEF PreparationInv, AcceptContract
  <2>4. Sound(q) /\ q.kind = "move" /\ q.to = "initiator" /\ q.form = form /\ q.dialogue = 0
    BY <2>2 DEF Sound
  <2>5. IsLate(f) /\ IsLate(form) /\ crossing' \in BOOLEAN /\ outdated' \in BOOLEAN
    BY <2>1, <2>2 DEF IsLate, PreparationInv, PreparationTypeOK
  <2> HIDE DEF f, q, s
  <2> QED
    BY <1>0, <2>1, <2>2, <2>3, <2>4, <2>5, SaveKeeps
<1> QED
  BY <1>2, <1>3

LEMMA DraftingKeeps == ASSUME PreparationInv, RecordGeneration \/ SaveForm PROVE PreparationInv'
<1>0. form \in Form /\ form.dialogue \in Created /\ ask \in [Asks -> AskType]
  BY PreparationTypes DEF PreparationInv, NamesAreCreated
<1>1. ASSUME NEW f, NEW s \in Steps, f = [form EXCEPT !.step = s]
      PROVE  f \in Form /\ f.step = s /\ f.dialogue = form.dialogue /\ f.terms = form.terms
  BY <1>0, <1>1, StepEdit
<1>2. CASE RecordGeneration
  <2> DEFINE f == [form EXCEPT !.step = "generation"]
             s == GenerationId
  <2>1. f \in Form /\ f.step = "generation" /\ f.dialogue = form.dialogue /\ f.terms = form.terms
    BY <1>1, StepNames
  <2>2. /\ kept' = [form |-> AsKept(f), source |-> s] /\ s \in Completed /\ profiles
        /\ UNCHANGED <<form, loaded, read, dialogue, ask, changes, profiles, crossing>>
        /\ outdated' \in BOOLEAN /\ (outdated' \/ s = form.dialogue)
    <3>1. GenerationId \in read /\ outdated' = (GenerationId # form.dialogue)
      BY <1>2 DEF RecordGeneration
    <3>2. outdated' \in BOOLEAN /\ (outdated' \/ s = form.dialogue)
      BY <3>1
    <3>3. s \in Completed /\ profiles
      BY <3>1, ReadGenerations
    <3>4. kept' = [form |-> AsKept(f), source |-> s]
      BY <1>2 DEF RecordGeneration, Save
    <3> HIDE DEF f, s
    <3> QED
      BY <1>2, <3>2, <3>3, <3>4 DEF RecordGeneration
  <2>3. ~crossing => (IsLate(f) <=> IsLate(form))
    BY ReadGenerations, <1>2, <2>1, <2>2 DEF IsLate, RecordGeneration
  <2>4. crossing' \in BOOLEAN /\ outdated' \in BOOLEAN
    BY <2>2 DEF PreparationInv, PreparationTypeOK
  <2> HIDE DEF f, s
  <2> QED
    BY <1>0, <2>1, <2>2, <2>3, <2>4, SaveKeeps
<1>3. CASE SaveForm
  <2>1. /\ kept' = [form |-> AsKept(form), source |-> kept.source]
        /\ UNCHANGED <<form, loaded, read, dialogue, ask, changes, profiles, crossing, outdated>>
    BY <1>3 DEF SaveForm, Save
  <2>2. form.step \in {"generation", "initiator"} => profiles
    BY DEF PreparationInv, NeedsProfiles
  <2> QED
    BY <1>0, <2>1, <2>2, SaveKeeps DEF PreparationInv, PreparationTypeOK
<1> QED
  BY <1>2, <1>3

LEMMA ReopenKeeps == ASSUME PreparationInv, Reopen PROVE PreparationInv'
<1>1. /\ form' = kept.form /\ loaded' \in BOOLEAN /\ read' \in {{}, read} /\ ask' = [a \in Asks |-> NoAsk]
      /\ UNCHANGED <<kept, dialogue, changes, profiles, crossing, outdated>>
  BY DEF Reopen
<1>2. PreparationTypeOK'
  BY <1>1, PreparationTypes, PreparationTypesKept DEF PreparationInv, PreparationTypeOK
<1>3. ASSUME ~crossing PROVE FormsAgree'
  <2>1. Completed' = Completed /\ Started' = Started /\ Generating' \subseteq Generating
    BY <1>1, NoAskIsSound DEF Completed, Started, Generating
  <2>2. ShowsItsTerms(form)' /\ ShowsItsTerms(kept.form)'
    BY <1>1, <1>3 DEF PreparationInv, FormsAgree, ShowsItsTerms, IsLate
  <2>3. LeavesUnstarted(form)' /\ LeavesUnstarted(kept.form)'
    BY <1>1, <1>3, <2>1 DEF PreparationInv, FormsAgree, LeavesUnstarted, IsLate
  <2>4. (IsLate(form)' => IsLate(kept.form)') /\ \A a \in Asks : ask'[a].kind # "move"
    BY <1>1, NoAskIsSound DEF IsLate
  <2>5. SourceIsOfTheForm'
    BY <1>1, <1>3, <2>1, <2>4 DEF PreparationInv, FormsAgree, SourceIsOfTheForm, SourceIs
  <2> QED
    BY <2>2, <2>3, <2>4, <2>5 DEF FormsAgree
<1>4. {form'.step, kept'.form.step} \cap {"generation", "initiator"} # {} => profiles
  BY <1>1 DEF PreparationInv, NeedsProfiles
<1>5. {form'.dialogue, kept'.form.dialogue} \subseteq Created
  BY <1>1 DEF PreparationInv, NamesAreCreated
<1>6. read' \subseteq Completed
  BY <1>1 DEF PreparationInv, ReadIsCompleted
<1> QED
  BY <1>1, <1>2, <1>3, <1>4, <1>5, <1>6, StepKeeps, NoAskIsSound

(* What the server and the worker do to the sessions.                      *)
LEMMA RowsGrow ==
  ASSUME PreparationInv, PreparationTypeOK', NEW x,
         UNCHANGED <<form, kept, read, profiles, crossing, outdated>>,
         \A d \in Dialogues : d \in Created => dialogue'[d].terms = dialogue[d].terms,
         Created \subseteq Created', Completed \subseteq Completed',
         Started' \subseteq Started \cup Generating, Generating' \subseteq Generating,
         \A a \in Asks :
           \/ ask'[a] = ask[a]
           \/ /\ a = x /\ ask'[a].form = ask[a].form /\ ask'[a].kind \in {"open", "begun"}
              /\ Sound(ask[a])' /\ ask'[a].dialogue \in Created'
              /\ (Shows(ask'[a]) => ask'[a].dialogue \notin Created)
              /\ (ask'[a].kind = "begun" => profiles)
  PROVE  PreparationInv'
<1>0. \A a \in Asks : ask[a].dialogue \in 0..MaxDialogues /\ ask[a].form.dialogue \in 0..MaxDialogues
  BY PreparationTypes DEF PreparationInv, AskType, Form
<1>1. NamesAreCreated'
  BY DEF PreparationInv, NamesAreCreated
<1>2. AsksAreSound'
  <2>1. SUFFICES ASSUME NEW a \in Asks, ask'[a] = ask[a] PROVE Sound(ask[a])'
    BY DEF AsksAreSound
  <2>2. Sound(ask[a]) /\ ask[a].dialogue \in Created
    BY DEF PreparationInv, AsksAreSound, NamesAreCreated
  <2>3. ask[a].kind = "open" => ask[a].dialogue \in Dialogues
    BY <1>0, <2>2 DEF Sound, Dialogues
  <2>4. ask[a].kind = "open" => dialogue'[ask[a].dialogue].terms = dialogue[ask[a].dialogue].terms
    BY <2>2, <2>3
  <2> QED
    BY <2>1, <2>2, <2>4 DEF Sound
<1>3. NewIsUnseen'
  <2>1. SUFFICES ASSUME NEW a \in Asks, Shows(ask'[a])
                 PROVE  /\ form'.dialogue # ask'[a].dialogue
                        /\ \A b \in Asks : /\ ask'[b].form.dialogue # ask'[a].dialogue
                                           /\ Shows(ask'[b]) /\ ask'[b].dialogue = ask'[a].dialogue => a = b
    BY DEF NewIsUnseen, Shows
  <2>2. \A b \in Asks : ask'[b].form = ask[b].form /\ (ask'[b] = ask[b] \/ b = x)
    OBVIOUS
  <2>3. CASE ask'[a] = ask[a]
    <3>1. ask[a].dialogue \in Created
      BY DEF PreparationInv, NamesAreCreated
    <3>2. \A b \in Asks : Shows(ask'[b]) /\ ask'[b].dialogue = ask'[a].dialogue => ask'[b] = ask[b]
      BY <2>3, <3>1
    <3> QED
      BY <2>1, <2>2, <2>3, <3>2 DEF PreparationInv, NewIsUnseen
  <2>4. CASE ask'[a] # ask[a]
    <3>1. a = x /\ ask'[a].dialogue \notin Created
      BY <2>1, <2>4
    <3>2. \A b \in Asks : ask'[b] = ask[b] => ask'[b].dialogue \in Created
      BY DEF PreparationInv, NamesAreCreated
    <3>3. \A b \in Asks : ask[b].form.dialogue \in Created
      BY DEF PreparationInv, NamesAreCreated
    <3> QED
      BY <2>2, <3>1, <3>2, <3>3 DEF PreparationInv, NamesAreCreated
  <2> QED
    BY <2>3, <2>4
<1>4. NeedsProfiles'
  <2>1. profiles \/ (Started = {} /\ Generating = {})
    BY DEF PreparationInv, NeedsProfiles, Generating
  <2> QED
    BY <2>1 DEF PreparationInv, NeedsProfiles
<1>5. ReadIsCompleted'
  BY DEF PreparationInv, ReadIsCompleted
<1>6. ASSUME ~crossing PROVE FormsAgree'
  <2>1. FormsAgree /\ {form.dialogue, kept.form.dialogue} \subseteq Created
    BY <1>6 DEF PreparationInv, NamesAreCreated
  <2>2. ShowsItsTerms(form)' /\ ShowsItsTerms(kept.form)'
    <3>1. {form.dialogue, kept.form.dialogue} \subseteq 0..MaxDialogues
      BY PreparationTypes DEF PreparationInv
    <3>2. \A d \in {form.dialogue, kept.form.dialogue} : d # 0 => d \in Dialogues
      BY <3>1 DEF Dialogues
    <3>3. \A d \in {form.dialogue, kept.form.dialogue} : d # 0 => dialogue'[d].terms = dialogue[d].terms
      BY <2>1, <3>2
    <3> QED
      BY <2>1, <3>3 DEF FormsAgree, ShowsItsTerms, IsLate
  <2>3. LeavesUnstarted(form)' /\ LeavesUnstarted(kept.form)'
    BY <2>1 DEF FormsAgree, LeavesUnstarted, IsLate
  <2>4. IsLate(form)' /\ ~IsLate(kept.form)' => kept'.form.dialogue # form'.dialogue
    BY <2>1 DEF FormsAgree, IsLate
  <2>5. SourceIsOfTheForm'
    BY <2>1 DEF FormsAgree, SourceIsOfTheForm, SourceIs
  <2> QED
    BY <2>2, <2>3, <2>4, <2>5 DEF FormsAgree
<1> QED
  BY <1>1, <1>2, <1>3, <1>4, <1>5, <1>6 DEF PreparationInv

IsNext(status) == status \in {"READY_TO_GENERATE", "QUEUED", "COMPLETED", "FAILED"}

LEMMA RowEdit ==
  ASSUME PreparationTypeOK, NEW d \in Dialogues, NEW s, IsNext(s),
         dialogue' = [dialogue EXCEPT ![d].status = s], dialogue[d].status # "none"
  PROVE  /\ dialogue' \in [Dialogues -> DialogueRow] /\ Created' = Created
         /\ \A e \in Dialogues : /\ dialogue'[e].terms = dialogue[e].terms
                                 /\ dialogue'[e].status = IF e = d THEN s ELSE dialogue[e].status
<1>1. dialogue \in [Dialogues -> DialogueRow]
  BY PreparationTypes
<1>2. /\ dialogue' \in [Dialogues -> DialogueRow]
      /\ \A e \in Dialogues : /\ dialogue'[e].terms = dialogue[e].terms
                              /\ dialogue'[e].status = IF e = d THEN s ELSE dialogue[e].status
  BY <1>1 DEF DialogueRow, IsNext
<1> QED
  BY <1>2 DEF Created, IsNext

LEMMA AskedTyped ==
  ASSUME PreparationTypeOK, NEW a \in Asks, NEW kind \in {"open", "begun"}, NEW to \in Steps, Asked(a, kind, to)
  PROVE  /\ ask' \in [Asks -> AskType]
         /\ \A b \in Asks : b # a => ask'[b] = ask[b]
         /\ ask'[a].kind = kind /\ ask'[a].to = to /\ ask'[a].form = ask[a].form /\ ask'[a].dialogue = ask[a].dialogue
<1> DEFINE q == [ask[a] EXCEPT !.kind = kind, !.to = to, !.odd = @ \/ form # ask[a].form]
<1>1. ask \in [Asks -> AskType] /\ ask[a] \in AskType
  BY PreparationTypes
<1>2. q \in AskType /\ q.kind = kind /\ q.to = to /\ q.form = ask[a].form /\ q.dialogue = ask[a].dialogue
  BY <1>1 DEF AskType
<1>3. ask' = [ask EXCEPT ![a] = q]
  BY DEF Asked
<1> HIDE DEF q
<1> QED
  BY <1>1, <1>2, <1>3

LEMMA ServerKeeps ==
  ASSUME PreparationInv, NEW a \in Asks, ServeAnswers(a) \/ StartGeneration(a)
  PROVE  PreparationInv'
<1>0. /\ Sound(ask[a]) /\ ask[a].dialogue \in Created /\ ask[a].dialogue \in 0..MaxDialogues
      /\ dialogue \in [Dialogues -> DialogueRow]
  BY PreparationTypes DEF PreparationInv, AsksAreSound, NamesAreCreated, AskType
<1>1. /\ ask[a].dialogue # 0 /\ ask[a].dialogue \in Dialogues
      /\ DialogueStatus(ask[a].dialogue) = dialogue[ask[a].dialogue].status
  BY <1>0 DEF Sound, ServeAnswers, StartGeneration, Dialogues, DialogueStatus
<1>2. CASE ServeAnswers(a)
  <2>1. PICK to \in {"clarification", "ready"} :
          /\ Asked(a, "open", to)
          /\ \/ UNCHANGED dialogue
             \/ dialogue' = [dialogue EXCEPT ![ask[a].dialogue].status = "READY_TO_GENERATE"]
    BY <1>2 DEF ServeAnswers
  <2>2. /\ UNCHANGED <<form, loaded, read, kept, changes, profiles, crossing, outdated>>
        /\ ask[a].kind = "answer" /\ dialogue[ask[a].dialogue].status = "NEED_MORE_INFO"
    BY <1>1, <1>2 DEF ServeAnswers
  <2>3. /\ ask' \in [Asks -> AskType] /\ \A b \in Asks : b # a => ask'[b] = ask[b]
        /\ ask'[a].kind = "open" /\ ask'[a].to = to /\ ask'[a].form = ask[a].form /\ ask'[a].dialogue = ask[a].dialogue
    BY <2>1, StepNames, AskedTyped DEF PreparationInv
  <2>4. /\ dialogue' \in [Dialogues -> DialogueRow] /\ Created' = Created
        /\ \A e \in Dialogues : /\ dialogue'[e].terms = dialogue[e].terms
                                /\ \/ dialogue'[e].status = dialogue[e].status
                                   \/ /\ dialogue[e].status = "NEED_MORE_INFO"
                                      /\ dialogue'[e].status = "READY_TO_GENERATE"
    <3>1. CASE UNCHANGED dialogue
      BY <1>0, <3>1 DEF Created
    <3>2. CASE dialogue' = [dialogue EXCEPT ![ask[a].dialogue].status = "READY_TO_GENERATE"]
      <4>1. IsNext("READY_TO_GENERATE") /\ dialogue[ask[a].dialogue].status # "none"
        BY <2>2 DEF IsNext
      <4> DEFINE d == ask[a].dialogue
      <4>2. d \in Dialogues /\ dialogue[d].status # "none" /\ dialogue' = [dialogue EXCEPT ![d].status = "READY_TO_GENERATE"]
        BY <1>1, <3>2, <4>1
      <4> HIDE DEF d
      <4>3. /\ dialogue' \in [Dialogues -> DialogueRow] /\ Created' = Created
            /\ \A e \in Dialogues :
                 /\ dialogue'[e].terms = dialogue[e].terms
                 /\ dialogue'[e].status = IF e = d THEN "READY_TO_GENERATE" ELSE dialogue[e].status
        BY <4>1, <4>2, RowEdit DEF PreparationInv
      <4> QED
        BY <1>1, <2>2, <3>2, <4>3 DEF d
    <3> QED
      BY <2>1, <3>1, <3>2
  <2>5. Completed' = Completed /\ Started' = Started /\ Generating' \subseteq Generating
    BY <2>3, <2>4 DEF Completed, Started, Generating
  <2>6. Sound(ask[a])' /\ ~Shows(ask'[a])
    BY <1>0, <1>1, <2>2, <2>3 DEF Sound, Shows
  <2>7. PreparationTypeOK'
    BY <2>2, <2>3, <2>4, PreparationTypes, PreparationTypesKept DEF PreparationInv, PreparationTypeOK
  <2> QED
    BY <1>0, <2>2, <2>3, <2>4, <2>5, <2>6, <2>7, RowsGrow
<1>3. CASE StartGeneration(a)
  <2>1. /\ UNCHANGED <<form, loaded, read, kept, changes, profiles, crossing, outdated>>
        /\ ask[a].kind = "generate" /\ Asked(a, "begun", "generation")
        /\ \/ UNCHANGED dialogue
           \/ /\ dialogue[ask[a].dialogue].status \in {"READY_TO_GENERATE", "FAILED"}
              /\ dialogue' = [dialogue EXCEPT ![ask[a].dialogue].status = "QUEUED"]
    BY <1>1, <1>3 DEF StartGeneration
  <2>2. profiles
    BY <2>1 DEF PreparationInv, NeedsProfiles
  <2>3. /\ ask' \in [Asks -> AskType] /\ \A b \in Asks : b # a => ask'[b] = ask[b]
        /\ ask'[a].kind = "begun" /\ ask'[a].to = "generation" /\ ask'[a].form = ask[a].form
        /\ ask'[a].dialogue = ask[a].dialogue
    BY <2>1, StepNames, AskedTyped DEF PreparationInv
  <2>4. /\ dialogue' \in [Dialogues -> DialogueRow] /\ Created' = Created
        /\ \A e \in Dialogues : /\ dialogue'[e].terms = dialogue[e].terms
                                /\ \/ dialogue'[e].status = dialogue[e].status
                                   \/ /\ e = ask[a].dialogue /\ dialogue'[e].status = "QUEUED"
                                      /\ dialogue[e].status \in {"READY_TO_GENERATE", "FAILED"}
    <3>1. CASE UNCHANGED dialogue
      BY <1>0, <3>1 DEF Created
    <3>2. CASE /\ dialogue[ask[a].dialogue].status \in {"READY_TO_GENERATE", "FAILED"}
               /\ dialogue' = [dialogue EXCEPT ![ask[a].dialogue].status = "QUEUED"]
      <4>1. IsNext("QUEUED") /\ dialogue[ask[a].dialogue].status # "none"
        BY <3>2 DEF IsNext
      <4> DEFINE d == ask[a].dialogue
      <4>2. d \in Dialogues /\ dialogue[d].status # "none" /\ dialogue' = [dialogue EXCEPT ![d].status = "QUEUED"]
        BY <1>1, <3>2, <4>1
      <4> HIDE DEF d
      <4>3. /\ dialogue' \in [Dialogues -> DialogueRow] /\ Created' = Created
            /\ \A e \in Dialogues :
                 /\ dialogue'[e].terms = dialogue[e].terms
                 /\ dialogue'[e].status = IF e = d THEN "QUEUED" ELSE dialogue[e].status
        BY <4>1, <4>2, RowEdit DEF PreparationInv
      <4> QED
        BY <1>1, <3>2, <4>3 DEF d
    <3> QED
      BY <2>1, <3>1, <3>2
  <2>5. ask[a].dialogue \in Generating
    BY <2>1 DEF Generating
  <2>6. Completed' = Completed /\ Started' \subseteq Started \cup Generating /\ Generating' \subseteq Generating
    <3>1. Completed' = Completed
      BY <2>4 DEF Completed
    <3>2. Generating' \subseteq Generating
      BY <2>3 DEF Generating
    <3>3. \A e \in Started' : e \in Started \/ e = ask[a].dialogue
      BY <2>4 DEF Started
    <3> QED
      BY <2>5, <3>1, <3>2, <3>3
  <2>7. Sound(ask[a])' /\ ~Shows(ask'[a])
    BY <1>0, <1>1, <2>1, <2>3 DEF Sound, Shows
  <2>8. PreparationTypeOK'
    BY <2>1, <2>3, <2>4, PreparationTypes, PreparationTypesKept DEF PreparationInv, PreparationTypeOK
  <2> QED
    BY <1>0, <2>1, <2>2, <2>3, <2>4, <2>6, <2>7, <2>8, RowsGrow
<1> QED
  BY <1>2, <1>3

LEMMA WorkerKeeps ==
  ASSUME PreparationInv, NEW d \in Dialogues, GenerationEnds(d) PROVE PreparationInv'
<1>1. PICK s \in {"COMPLETED", "FAILED"} : dialogue' = [dialogue EXCEPT ![d].status = s]
  BY DEF GenerationEnds
<1>2. /\ UNCHANGED <<form, loaded, read, kept, ask, changes, profiles, crossing, outdated>>
      /\ dialogue[d].status = "QUEUED"
  BY DEF GenerationEnds
<1>3. /\ dialogue' \in [Dialogues -> DialogueRow] /\ Created' = Created
      /\ \A e \in Dialogues : /\ dialogue'[e].terms = dialogue[e].terms
                              /\ dialogue'[e].status = IF e = d THEN s ELSE dialogue[e].status
  <2>1. IsNext(s) /\ dialogue[d].status # "none"
    BY <1>1, <1>2 DEF IsNext
  <2> QED
    BY <1>1, <1>2, <2>1, RowEdit DEF PreparationInv
<1>4. Completed \subseteq Completed' /\ Started' = Started /\ Generating' = Generating
  BY <1>2, <1>3 DEF Completed, Started, Generating
<1>5. PreparationTypeOK'
  BY <1>2, <1>3, PreparationTypes, PreparationTypesKept DEF PreparationInv, PreparationTypeOK
<1> QED
  BY <1>2, <1>3, <1>4, <1>5, RowsGrow

LEMMA CreateKeeps ==
  ASSUME PreparationInv, NEW a \in Asks, CreateDialogue(a) PROVE PreparationInv'
<1>0. /\ ask \in [Asks -> AskType] /\ ask[a] \in AskType /\ ask[a].form \in Form /\ form \in Form
      /\ dialogue \in [Dialogues -> DialogueRow] /\ Sound(ask[a]) /\ ask[a].form.dialogue \in Created
      /\ form.terms \in TermsOfDeal /\ form.terms.party \in Sides
  <2>1. ask[a] \in AskType /\ form \in Form
    BY PreparationTypes DEF PreparationInv
  <2> QED
    BY <2>1, PreparationTypes DEF PreparationInv, NamesAreCreated, AsksAreSound, AskType, Form, TermsOfDeal
<1> DEFINE t == [ask[a].form.terms EXCEPT !.raw = FALSE, !.party = form.terms.party]
<1>1. PICK d \in Dialogues, s \in {"NEED_MORE_INFO", "READY_TO_GENERATE"} :
        /\ dialogue[d].status = "none"
        /\ dialogue' = [dialogue EXCEPT ![d] = [status |-> s, terms |-> t]]
        /\ ask' = [ask EXCEPT ![a].kind = "open", ![a].dialogue = d,
                              ![a].to = IF s = "READY_TO_GENERATE" THEN "ready" ELSE "clarification",
                              ![a].odd = form # ask[a].form]
  BY DEF CreateDialogue
<1>2. /\ UNCHANGED <<form, loaded, read, kept, changes, profiles, crossing, outdated>>
      /\ ask[a].kind = "start"
  BY DEF CreateDialogue
<1>3. t \in TermsOfDeal /\ (form = ask[a].form => t = ask[a].form.terms)
  <2>1. ~ask[a].form.terms.raw
    BY <1>0, <1>2 DEF Sound
  <2> QED
    BY <1>0, <2>1, TermsEdit
<1> HIDE DEF t
<1>4. d \notin Created /\ d \in 0..MaxDialogues /\ d # 0
  BY <1>1, PreparationAssumption DEF Created, Dialogues
<1>5. /\ ask' \in [Asks -> AskType] /\ \A b \in Asks : b # a => ask'[b] = ask[b]
      /\ ask'[a].kind = "open" /\ ask'[a].form = ask[a].form /\ ask'[a].dialogue = d
      /\ ask'[a].to \in {"clarification", "ready"} /\ (form # ask[a].form => ask'[a].odd)
  <2> DEFINE to == IF s = "READY_TO_GENERATE" THEN "ready" ELSE "clarification"
             odd == form # ask[a].form
             q1 == [ask[a] EXCEPT !.kind = "open", !.dialogue = d]
             q == [q1 EXCEPT !.to = to, !.odd = odd]
  <2>1. to \in {"clarification", "ready"} /\ to \in Steps /\ odd \in BOOLEAN
    BY StepNames
  <2>2. ask' = [ask EXCEPT ![a] = q]
    BY <1>1
  <2> HIDE DEF to
  <2>3. q1 \in AskType /\ q1.kind = "open" /\ q1.form = ask[a].form /\ q1.dialogue = d
    BY <1>0, <1>4 DEF AskType
  <2> HIDE DEF q1, odd
  <2>4. q \in AskType /\ q.kind = "open" /\ q.form = ask[a].form /\ q.dialogue = d /\ q.to = to /\ q.odd = odd
    BY <2>1, <2>3 DEF AskType
  <2> HIDE DEF q
  <2>5. form # ask[a].form => odd
    BY DEF odd
  <2>6. ask'[a] = q
    BY <1>0, <2>2
  <2> QED
    BY <1>0, <2>1, <2>2, <2>4, <2>5, <2>6
<1>6. /\ dialogue' \in [Dialogues -> DialogueRow]
      /\ dialogue'[d].terms = t /\ dialogue'[d].status \in {"NEED_MORE_INFO", "READY_TO_GENERATE"}
      /\ \A e \in Dialogues : e # d => dialogue'[e] = dialogue[e]
  <2>1. [status |-> s, terms |-> t] \in DialogueRow
    BY <1>3 DEF DialogueRow
  <2> QED
    BY <1>0, <1>1, <2>1
<1>7. /\ Created \subseteq Created' /\ d \in Created' /\ Completed \subseteq Completed' /\ Started' \subseteq Started
      /\ \A e \in Dialogues : e \in Created => dialogue'[e].terms = dialogue[e].terms
  BY <1>1, <1>4, <1>6 DEF Created, Completed, Started
<1>8. Generating' \subseteq Generating
  BY <1>5 DEF Generating
<1>9. Sound(ask[a])'
  BY <1>0, <1>3, <1>4, <1>5, <1>6 DEF Sound
<1>10. PreparationTypeOK'
  BY <1>2, <1>5, <1>6, PreparationTypes, PreparationTypesKept DEF PreparationInv, PreparationTypeOK
<1> QED
  BY <1>2, <1>4, <1>5, <1>7, <1>8, <1>9, <1>10, RowsGrow

LEMMA OpenKeeps ==
  ASSUME PreparationInv, NEW a \in Asks, OpenDialogue(a) PROVE PreparationInv'
<1> DEFINE d == ask[a].dialogue
           o == ask[a].form
           to == ask[a].to
<1>0. /\ form \in Form /\ o \in Form /\ d \in 0..MaxDialogues /\ d \in Created /\ to \in Steps
      /\ Sound(ask[a]) /\ kept.source \in 0..MaxDialogues
  <2>1. ask[a] \in AskType
    BY PreparationTypes DEF PreparationInv
  <2> QED
    BY <2>1, PreparationTypes DEF PreparationInv, NamesAreCreated, AsksAreSound, AskType
<1>1. /\ ask[a].kind = "open" /\ loaded' = TRUE
      /\ UNCHANGED <<read, dialogue, changes, profiles>>
      /\ crossing' \in BOOLEAN /\ outdated' \in BOOLEAN
      /\ ~crossing' => /\ form = o /\ ~ask[a].odd /\ (~crossing \/ d # o.dialogue)
                       /\ (d = o.dialogue => outdated' = outdated)
  <2>1. crossing \in BOOLEAN /\ outdated \in BOOLEAN
    BY DEF PreparationInv, PreparationTypeOK
  <2> QED
    BY <2>1 DEF OpenDialogue, Timely, IsNew
<1>2. d # 0 /\ d \in Dialogues /\ to \in {"clarification", "ready"}
  BY <1>0, <1>1 DEF Sound, Dialogues
<1>3. form' \in Form /\ form'.dialogue = d /\ form'.step = to /\ form'.terms = form.terms
  <2>1. form' = [form EXCEPT !.dialogue = d, !.step = to]
    BY DEF OpenDialogue, Opened
  <2> HIDE DEF d, to
  <2> QED
    BY <1>0, <2>1 DEF Form
<1>4. /\ kept'.form \in Form /\ kept'.form.dialogue = d /\ kept'.form.step = "clarification"
      /\ kept'.form.terms = o.terms /\ kept'.source = kept.source
      /\ kept' = [form |-> kept'.form, source |-> kept.source]
  <2> DEFINE f == [o EXCEPT !.dialogue = d, !.step = to]
  <2>1. kept' = [form |-> AsKept(f), source |-> kept.source]
    BY DEF OpenDialogue, Save, Opened
  <2> HIDE DEF d, o, to
  <2>2. f \in Form /\ f.dialogue = d /\ f.step = to /\ f.terms = o.terms
    BY <1>0 DEF Form
  <2> HIDE DEF f
  <2>3. DraftStep(to) = "clarification"
    BY <1>2 DEF DraftStep
  <2> QED
    BY <2>1, <2>2, <2>3, KeptEdit
<1>5. /\ ask' \in [Asks -> AskType] /\ \A b \in Asks : ask'[b] = IF b = a THEN NoAsk ELSE ask[b]
  BY AskEndsTyped DEF PreparationInv, OpenDialogue
<1>6. PreparationTypeOK'
  BY <1>0, <1>1, <1>3, <1>4, <1>5, PreparationTypesKept DEF PreparationInv, PreparationTypeOK, DialogueRow
<1>7. Created' = Created /\ Completed' = Completed /\ Started' = Started
  BY <1>1 DEF Created, Completed, Started
<1>8. NamesAreCreated'
  <2>1. 0 \in Created /\ kept.source \in Created
    BY DEF Created, PreparationInv, NamesAreCreated
  <2>2. \A b \in Asks : {ask'[b].dialogue, ask'[b].form.dialogue} \subseteq Created
    BY <1>5, <2>1, NoAskIsSound DEF PreparationInv, NamesAreCreated
  <2> QED
    BY <1>0, <1>3, <1>4, <1>7, <2>1, <2>2 DEF NamesAreCreated
<1>9. NewIsUnseen'
  <2>1. SUFFICES ASSUME NEW b \in Asks, Shows(ask'[b])
                 PROVE  /\ form'.dialogue # ask'[b].dialogue
                        /\ \A c \in Asks : /\ ask'[c].form.dialogue # ask'[b].dialogue
                                           /\ Shows(ask'[c]) /\ ask'[c].dialogue = ask'[b].dialogue => b = c
    BY DEF NewIsUnseen, Shows
  <2>2. b # a /\ ask'[b] = ask[b] /\ Shows(ask[b]) /\ ask[b].dialogue # 0
    BY <1>5, <2>1, NoAskIsSound DEF PreparationInv, AsksAreSound, Sound, Shows
  <2>3. d # ask[b].dialogue
    <3>1. CASE Shows(ask[a])
      BY <2>2, <3>1 DEF PreparationInv, NewIsUnseen
    <3>2. CASE ~Shows(ask[a])
      BY <1>1, <2>2, <3>2 DEF PreparationInv, NewIsUnseen, Shows
    <3> QED
      BY <3>1, <3>2
  <2> QED
    BY <1>3, <1>5, <2>2, <2>3, NoAskIsSound DEF PreparationInv, NewIsUnseen
<1>10. NeedsProfiles'
  <2>1. form'.step \notin {"generation", "initiator"} /\ kept'.form.step \notin {"generation", "initiator"}
    BY <1>2, <1>3, <1>4
  <2> QED
    BY <1>1, <1>5, <1>7, <2>1, NoAskIsSound DEF PreparationInv, NeedsProfiles
<1>11. ReadIsCompleted'
  BY <1>1, <1>7 DEF PreparationInv, ReadIsCompleted
<1>12. AsksAreSound'
  <2>1. \A b \in Asks : Sound(ask[b])
    BY DEF PreparationInv, AsksAreSound
  <2> QED
    BY <1>1, <1>5, <2>1, NoAskIsSound DEF AsksAreSound, Sound
<1>13. ASSUME ~crossing' PROVE FormsAgree'
  <2>1. form = o /\ ~ask[a].odd /\ (~crossing \/ d # o.dialogue) /\ (d = o.dialogue => outdated' = outdated)
    BY <1>1, <1>13
  <2>2. dialogue[d].terms = form.terms
    <3>1. CASE d # o.dialogue
      BY <1>0, <1>1, <2>1, <3>1 DEF Sound
    <3>2. CASE d = o.dialogue
      BY <1>0, <1>1, <2>1, <3>2 DEF Sound, PreparationInv, FormsAgree, ShowsItsTerms, IsLate
    <3> QED
      BY <3>1, <3>2
  <2>3. ShowsItsTerms(form)' /\ ShowsItsTerms(kept.form)'
    BY <1>1, <1>2, <1>3, <1>4, <2>1, <2>2 DEF ShowsItsTerms
  <2>4. IsLate(form)' /\ IsLate(kept.form)'
    BY <1>2, <1>3, <1>4 DEF IsLate
  <2>5. SourceIsOfTheForm'
    <3>1. form'.step # "initiator" /\ kept'.form.step # "initiator"
      BY <1>2, <1>3, <1>4
    <3>2. \A b \in Asks : ask'[b].kind = "move" => ask'[b] = ask[b]
      BY <1>5, NoAskIsSound
    <3>3. CASE d # o.dialogue
      <4>1. \A b \in Asks : ask[b].form.dialogue # d
        BY <1>1, <3>3 DEF PreparationInv, NewIsUnseen, Shows
      <4> QED
        BY <1>3, <3>1, <3>2, <4>1 DEF SourceIsOfTheForm
    <3>4. CASE d = o.dialogue
      BY <1>3, <1>4, <1>7, <2>1, <3>1, <3>2, <3>4 DEF PreparationInv, FormsAgree, SourceIsOfTheForm, SourceIs
    <3> QED
      BY <3>3, <3>4
  <2> QED
    BY <2>3, <2>4, <2>5 DEF FormsAgree, LeavesUnstarted
<1> QED
  BY <1>6, <1>8, <1>9, <1>10, <1>11, <1>12, <1>13 DEF PreparationInv

LEMMA PartiesKeep == ASSUME PreparationInv, PartiesComplete PROVE PreparationInv'
<1>1. profiles' = TRUE /\ UNCHANGED <<form, loaded, read, kept, dialogue, ask, changes, crossing, outdated>>
  BY DEF PartiesComplete
<1>2. PreparationTypeOK'
  BY <1>1 DEF PreparationInv, PreparationTypeOK
<1>3. NamesAreCreated' /\ NewIsUnseen' /\ ReadIsCompleted' /\ AsksAreSound'
  BY <1>1 DEF PreparationInv, NamesAreCreated, Created, NewIsUnseen, Shows, ReadIsCompleted, Completed, AsksAreSound, Sound
<1>4. NeedsProfiles'
  BY <1>1 DEF NeedsProfiles
<1>5. ~crossing' => FormsAgree'
  BY <1>1 DEF PreparationInv, FormsAgree, ShowsItsTerms, LeavesUnstarted, IsLate, SourceIsOfTheForm, SourceIs,
              Completed, Started, Generating
<1> QED
  BY <1>2, <1>3, <1>4, <1>5 DEF PreparationInv

LEMMA PreparationStutters == ASSUME PreparationInv, UNCHANGED preparationVars PROVE PreparationInv'
<1>1. UNCHANGED <<form, loaded, read, kept, dialogue, ask, changes, profiles, crossing, outdated>>
  BY DEF preparationVars
<1>2. PreparationTypeOK' /\ NeedsProfiles'
  BY <1>1 DEF PreparationInv, PreparationTypeOK, NeedsProfiles, Started
<1>3. NamesAreCreated' /\ NewIsUnseen' /\ ReadIsCompleted' /\ AsksAreSound'
  BY <1>1 DEF PreparationInv, NamesAreCreated, Created, NewIsUnseen, Shows, ReadIsCompleted, Completed, AsksAreSound, Sound
<1>4. ~crossing' => FormsAgree'
  BY <1>1 DEF PreparationInv, FormsAgree, ShowsItsTerms, LeavesUnstarted, IsLate, SourceIsOfTheForm, SourceIs,
              Completed, Started, Generating
<1> QED
  BY <1>2, <1>3, <1>4 DEF PreparationInv

LEMMA PreparationStart == ASSUME PreparationInit PROVE PreparationInv
<1>1. PICK s \in {"description", "invitation"} : form = [EmptyForm EXCEPT !.step = s]
  BY DEF PreparationInit
<1>2. /\ loaded = FALSE /\ read = {} /\ kept = [form |-> EmptyForm, source |-> 0]
      /\ dialogue = [d \in Dialogues |-> NoDialogue] /\ ask = [a \in Asks |-> NoAsk]
      /\ changes = 0 /\ profiles = FALSE /\ crossing = FALSE /\ outdated = FALSE
  BY DEF PreparationInit
<1>3. EmptyForm \in Form /\ EmptyForm.dialogue = 0 /\ EmptyForm.step = "description" /\ NoDialogue \in DialogueRow /\ NoAsk \in AskType
  <2>1. EmptyForm \in Form /\ EmptyForm.dialogue = 0 /\ EmptyForm.step = "description" /\ EmptyTerms \in TermsOfDeal
    BY PreparationAssumption DEF EmptyForm, EmptyTerms, Form, TermsOfDeal, Sides, Steps
  <2> QED
    BY <2>1, PreparationAssumption DEF NoAsk, NoDialogue, AskType, DialogueRow, Steps
<1>4. form \in Form /\ form.dialogue = 0 /\ form.step \in {"description", "invitation"}
  BY <1>1, <1>3, StepNames, StepEdit
<1>5. kept.form = EmptyForm /\ kept.source = 0 /\ \A a \in Asks : ask[a] = NoAsk
  BY <1>2
<1>6. Started = {} /\ Completed = {} /\ Generating = {} /\ Created = {0}
  BY <1>2, NoAskIsSound DEF Started, Completed, Generating, Created, NoDialogue
<1>7. PreparationTypeOK
  <2>1. /\ kept \in [form: Form, source: 0..MaxDialogues]
        /\ 0 \in 0..MaxChanges /\ read \in SUBSET Dialogues
    BY <1>2, <1>3, PreparationAssumption
  <2>2. dialogue \in [Dialogues -> DialogueRow] /\ ask \in [Asks -> AskType]
    BY <1>2, <1>3
  <2> QED
    BY <1>2, <1>4, <2>1, <2>2 DEF PreparationTypeOK, DialogueRow, AskType
<1>8. NamesAreCreated /\ NewIsUnseen /\ NeedsProfiles /\ ReadIsCompleted
  BY <1>2, <1>3, <1>4, <1>5, <1>6, NoAskIsSound DEF NamesAreCreated, NewIsUnseen, NeedsProfiles, ReadIsCompleted
<1>9. AsksAreSound
  BY <1>5, NoAskIsSound DEF AsksAreSound
<1>10. FormsAgree
  BY <1>3, <1>4, <1>5, <1>6, NoAskIsSound DEF FormsAgree, ShowsItsTerms, LeavesUnstarted, IsLate, SourceIsOfTheForm
<1> QED
  BY <1>7, <1>8, <1>9, <1>10 DEF PreparationInv

LEMMA PreparationStep == ASSUME PreparationInv, PreparationNext PROVE PreparationInv'
<1>1. ASSUME NEW a \in Asks, AskStep(a) PROVE PreparationInv'
  BY <1>1, EarlyStepKeeps, CreateKeeps, AskingKeeps, ServerKeeps, OpenKeeps, SavingKeeps, FollowSaveKeeps
     DEF AskStep
<1>2. ASSUME NEW d \in Dialogues, GenerationEnds(d) PROVE PreparationInv'
  BY <1>2, WorkerKeeps
<1>3. ASSUME ChangeAnswer \/ ChooseParty \/ StepBack \/ LeaveDialogue PROVE PreparationInv'
  BY <1>3, EditKeeps
<1>4. ASSUME ReadGeneration \/ LoadDialogue PROVE PreparationInv'
  BY <1>4, ReadingKeeps
<1>5. ASSUME RecordGeneration \/ SaveForm PROVE PreparationInv'
  BY <1>5, DraftingKeeps
<1>6. ASSUME Reopen \/ PartiesComplete PROVE PreparationInv'
  BY <1>6, ReopenKeeps, PartiesKeep
<1> QED
  BY <1>1, <1>2, <1>3, <1>4, <1>5, <1>6 DEF PreparationNext

LEMMA PreparationInvariance == PreparationSpec => []PreparationInv
<1>1. PreparationInit => PreparationInv
  BY PreparationStart
<1>2. PreparationInv /\ [PreparationNext]_preparationVars => PreparationInv'
  BY PreparationStep, PreparationStutters
<1> QED
  BY <1>1, <1>2, PTL DEF PreparationSpec

(* The form, the draft and the handlers that wait keep their types.        *)
THEOREM PreparationTyping == PreparationSpec => []PreparationTypeOK
<1>1. PreparationInv => PreparationTypeOK
  BY DEF PreparationInv
<1> QED
  BY <1>1, PreparationInvariance, PTL

(* Whatever the author changes, asks again, goes back to or opens anew, a  *)
(* draft at its last step carries a contract made of the very terms that   *)
(* it holds: startAgreement accepts it.  Only an answer that met a form    *)
(* which had moved on, or a page opened again while a newer contract was   *)
(* prepared, can break it.                                                 *)
THEOREM FinishedDraftStays == PreparationSpec => []FinishedDraftIsOfItsTerms
<1>1. PreparationInv => FinishedDraftIsOfItsTerms
  <2>1. SUFFICES ASSUME PreparationInv, kept.form.step = "initiator", ~crossing, ~outdated
                 PROVE  AgreementAccepts
    BY DEF FinishedDraftIsOfItsTerms
  <2>2. ShowsItsTerms(kept.form) /\ SourceIs(kept.form.dialogue)
    BY <2>1 DEF PreparationInv, FormsAgree, SourceIsOfTheForm
  <2>3. kept.source = kept.form.dialogue /\ kept.source # 0 /\ dialogue[kept.source].status = "COMPLETED"
        /\ dialogue[kept.source].terms = kept.form.terms
    BY <2>1, <2>2 DEF ShowsItsTerms, SourceIs, IsLate, Completed
  <2> QED
    BY <2>1, <2>3 DEF AgreementAccepts, DialogueStatus
<1> QED
  BY <1>1, PreparationInvariance, PTL
=============================================================================
