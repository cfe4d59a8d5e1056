------------------------- MODULE DealNegotiationProofs -------------------------
(***************************************************************************)
(* Proofs about DealNegotiation, for every number of requests in flight,   *)
(* guests, texts, versions and invitations.                                *)
(***************************************************************************)
EXTENDS DealNegotiation, FiniteSetTheorems, TLAPS

-----------------------------------------------------------------------------
(* Typing.                                                                 *)

LEMMA IdleType == Idle \in Request
<1>1. 1 \in Versions /\ 1 \in InvitationIds
  BY ConstantsAssumption DEF Versions, InvitationIds
<1> QED
  BY <1>1 DEF Idle, Request, Operations, DealStatus, Roles

(* A read step only fills its slot.                                        *)
LEMMA BeginKeepsTypes ==
  ASSUME TypeOK, NEW r \in Requests, NEW s \in Request, Begin(r, s)
  PROVE  TypeOK'
BY DEF TypeOK, Begin

LEMMA EndKeepsRequests ==
  ASSUME TypeOK, NEW r \in Requests, EndBumping(r) \/ EndQuietly(r)
  PROVE  request' \in [Requests -> Request]
<1>1. \A q \in Requests : [request[q] EXCEPT !.fresh = FALSE] \in Request
  BY DEF TypeOK, Request
<1> QED
  BY <1>1, IdleType DEF TypeOK, EndBumping, EndQuietly

LEMMA DocumentStageType == \A joined \in BOOLEAN : DocumentStage(joined) \in DealStatus
BY DEF DocumentStage, DealStatus

LEMMA TypeOKInit == Init => TypeOK
<1> SUFFICES ASSUME Init PROVE TypeOK
  OBVIOUS
<1>1. status \in DealStatus
  BY ConstantsAssumption DEF Init, DealStatus, PreJoin, DocumentStages
<1>2. invitation \in [InvitationIds -> InvitationState] /\ issued \in 0..MaxInvitations
  BY ConstantsAssumption DEF Init, InvitationState
<1>3. version \in Versions
  BY ConstantsAssumption DEF Init, Versions
<1> QED
  BY <1>1, <1>2, <1>3, IdleType DEF Init, TypeOK

LEMMA ReadKeepsTypes ==
  ASSUME TypeOK, NEW r \in Requests,
         \/ UpdateDraftRead(r) \/ StartAgreementRead(r) \/ CreateVersionRead(r)
         \/ CreateInvitationRead(r) \/ MarkSentRead(r) \/ RevokeRead(r)
         \/ JoinRead(r) \/ ApproveRead(r)
  PROVE  TypeOK'
<1> USE IdleType, BeginKeepsTypes DEF TypeOK, Request, Operations
<1>1. CASE UpdateDraftRead(r)
  BY <1>1 DEF UpdateDraftRead
<1>2. CASE StartAgreementRead(r)
  BY <1>2 DEF StartAgreementRead
<1>3. CASE CreateVersionRead(r)
  BY <1>3 DEF CreateVersionRead
<1>4. CASE CreateInvitationRead(r)
  BY <1>4 DEF CreateInvitationRead
<1>5. CASE MarkSentRead(r) \/ RevokeRead(r)
  <2>1. issued > 0 => issued \in InvitationIds
    BY ConstantsAssumption DEF InvitationIds
  <2> QED
    BY <1>5, <2>1 DEF MarkSentRead, RevokeRead, ReadActiveInvitation
<1>6. CASE JoinRead(r)
  BY <1>6 DEF JoinRead
<1>7. CASE ApproveRead(r)
  <2>1. ApprovedBy(version) \in SUBSET Roles
    BY DEF ApprovedBy, Approval
  <2> QED
    BY <1>7, <2>1 DEF ApproveRead
<1> QED
  BY <1>1, <1>2, <1>3, <1>4, <1>5, <1>6, <1>7

LEMMA CommitKeepsTypes ==
  ASSUME TypeOK, NEW r \in Requests,
         \/ UpdateDraftCommit(r) \/ StartAgreementCommit(r) \/ CreateVersionCommit(r)
         \/ CreateInvitationCommit(r) \/ MarkSentCommit(r) \/ RevokeCommit(r)
         \/ JoinCommit(r) \/ ApproveCommit(r) \/ Abort(r)
  PROVE  TypeOK'
<1> USE EndKeepsRequests, DocumentStageType DEF TypeOK
<1>0. request[r] \in Request
  OBVIOUS
<1>1. CASE UpdateDraftCommit(r)
  BY <1>0, <1>1 DEF UpdateDraftCommit, Request
<1>2. CASE StartAgreementCommit(r)
  BY <1>2 DEF StartAgreementCommit, DealStatus, Joined
<1>3. CASE CreateVersionCommit(r)
  <2>1. request[r].version + 1 \in Versions
    BY <1>0, <1>3, ConstantsAssumption DEF CreateVersionCommit, Request, Versions
  <2>2. status' \in DealStatus
    BY <1>0, <1>3 DEF CreateVersionCommit, Request, Joined, StatusAfterRevision, DealStatus
  <2> QED
    BY <1>0, <1>3, <2>1, <2>2 DEF CreateVersionCommit, ApprovalsAfterRevision, Request
<1>4. CASE CreateInvitationCommit(r)
  <2>1. issued' \in 0..MaxInvitations
    BY <1>4, ConstantsAssumption DEF CreateInvitationCommit
  <2>2. status' \in DealStatus
    BY <1>0, <1>4 DEF CreateInvitationCommit, Request, DealStatus
  <2>3. invitation' \in [InvitationIds -> InvitationState]
    BY <1>4 DEF CreateInvitationCommit, InvitationState
  <2> QED
    BY <1>4, <2>1, <2>2, <2>3 DEF CreateInvitationCommit
<1>5. CASE MarkSentCommit(r)
  BY <1>5 DEF MarkSentCommit, DealStatus
<1>6. CASE RevokeCommit(r)
  <2>1. status' \in DealStatus
    BY <1>0, <1>6 DEF RevokeCommit, Request, DealStatus
  <2>2. invitation' \in [InvitationIds -> InvitationState]
    BY <1>6 DEF RevokeCommit, InvitationState
  <2> QED
    BY <1>6, <2>1, <2>2 DEF RevokeCommit
<1>7. CASE JoinCommit(r)
  <2>1. status' \in DealStatus
    BY <1>7 DEF JoinCommit, DealStatus, DocumentStage
  <2>2. invitation' \in [InvitationIds -> InvitationState]
    BY <1>7 DEF JoinCommit, InvitationState
  <2>3. counterparty' \in Guests \cup {Nobody}
    BY <1>0, <1>7 DEF JoinCommit, Request
  <2> QED
    BY <1>7, <2>1, <2>2, <2>3 DEF JoinCommit
<1>8. CASE ApproveCommit(r)
  <2>1. status' \in DealStatus
    BY <1>0, <1>8 DEF ApproveCommit, Request, DealStatus
  <2>2. [version |-> request[r].version, role |-> request[r].role,
         text |-> request[r].text] \in [version: Versions, role: Roles, text: Texts \cup {NoText}]
    BY <1>0 DEF Request
  <2>3. frozen' \in [Versions -> Texts \cup {NoText}]
    BY <1>0, <1>8 DEF ApproveCommit, Request
  <2> QED
    BY <1>8, <2>1, <2>2, <2>3 DEF ApproveCommit, Approval
<1>9. CASE Abort(r)
  BY <1>9 DEF Abort
<1> QED
  BY <1>1, <1>2, <1>3, <1>4, <1>5, <1>6, <1>7, <1>8, <1>9

LEMMA TypeOKStep == TypeOK /\ [Next]_vars => TypeOK'
<1> SUFFICES ASSUME TypeOK, [Next]_vars PROVE TypeOK'
  OBVIOUS
<1>1. CASE \E r \in Requests : Step(r)
  BY <1>1, ReadKeepsTypes, CommitKeepsTypes DEF Step
<1>2. CASE \E i \in InvitationIds : Expire(i)
  BY <1>2 DEF Expire, TypeOK, InvitationState
<1>3. CASE ReconcileDocumentStage
  <2>1. \A q \in Requests : [request[q] EXCEPT !.fresh = FALSE] \in Request
    BY DEF TypeOK, Request
  <2> QED
    BY <1>3, <2>1, DocumentStageType DEF ReconcileDocumentStage, TypeOK, Joined
<1>4. CASE UNCHANGED vars
  BY <1>4 DEF vars, TypeOK
<1> QED
  BY <1>1, <1>2, <1>3, <1>4 DEF Next

(* Every state of the negotiation is well typed.                           *)
THEOREM Typing == Spec => []TypeOK
BY TypeOKInit, TypeOKStep, PTL DEF Spec

-----------------------------------------------------------------------------
(* The inductive invariant.                                                *)

Guarded == {"updateDraft", "startAgreement", "createVersion",
            "createInvitation", "approve"}

(* What a request holds never expires: facts true since its read.          *)
Lasting(q) ==
  /\ q.op \in {"createInvitation", "revoke", "join"} => q.status \in PreJoin
  /\ q.op = "join" => q.guest \in Guests
  /\ q.op \in {"startAgreement", "createVersion"} => Joined
  /\ q.op = "createVersion" => q.text \in Texts
  /\ q.op = "approve" => /\ q.status = "TERMS_REVIEW"
                         /\ q.role \notin q.approvals
                         /\ q.text # NoText
                         /\ q.guest # Nobody => Joined

ReadsStayTrue == \A r \in Requests : Lasting(request[r])

(* What a request read is still so while its updatedAt is current: no step *)
(* changes a version, its text, freeze or approvals without writing it.    *)
Snapshot(q) ==
  q.op \in Guarded /\ q.fresh =>
    /\ q.status = status
    /\ q.version = version
    /\ q.op = "approve" => /\ q.text = content[version]
                           /\ q.approvals = ApprovedBy(version)
                           /\ q.frozen = (frozen[version] # NoText)

FreshReadsAreCurrent == \A r \in Requests : Snapshot(request[r])

(* An invitation is open to one person, and closed once somebody joined.   *)
Admission ==
  /\ \A i, j \in InvitationIds : /\ invitation[i] \in {"ACTIVE", "ACCEPTED"}
                                 /\ invitation[j] \in {"ACTIVE", "ACCEPTED"}
                                 => i = j
  /\ Joined <=> \E i \in InvitationIds : invitation[i] = "ACCEPTED"
  /\ ~Joined => status \in PreJoin

(* A frozen version keeps its text, and later versions are not frozen.     *)
FreezeHolds == \A v \in Versions :
  /\ frozen[v] # NoText => content[v] = frozen[v]
  /\ v > version => frozen[v] = NoText

IInv ==
  /\ TypeOK
  /\ ReadsStayTrue
  /\ FreshReadsAreCurrent
  /\ Admission
  /\ FreezeHolds
  /\ ApprovalsOfCurrentVersion
  /\ ApprovedTextIsFrozen
  /\ ReadyMeansUnanimous

-----------------------------------------------------------------------------
(* Requests in flight keep their facts.                                    *)

LEMMA BeginKeepsInv ==
  ASSUME IInv, NEW r \in Requests, NEW s \in Request, Begin(r, s), Lasting(s), Snapshot(s)
  PROVE  IInv'
<1>1. TypeOK'
  BY BeginKeepsTypes DEF IInv
<1>2. request' = [request EXCEPT ![r] = s] /\ request \in [Requests -> Request]
  BY DEF IInv, TypeOK, Begin
<1>3. ReadsStayTrue'
  BY <1>2 DEF IInv, ReadsStayTrue, Lasting, Joined, Begin
<1>4. FreshReadsAreCurrent'
  BY <1>2 DEF IInv, FreshReadsAreCurrent, Snapshot, ApprovedBy, Begin
<1>5. Admission' /\ FreezeHolds'
  BY DEF IInv, Admission, FreezeHolds, Joined, Begin
<1>6. ApprovalsOfCurrentVersion' /\ ApprovedTextIsFrozen' /\ ReadyMeansUnanimous'
  BY DEF IInv, ApprovalsOfCurrentVersion, ApprovedTextIsFrozen, ReadyMeansUnanimous,
         ApprovedBy, Begin
<1> QED
  BY <1>1, <1>3, <1>4, <1>5, <1>6 DEF IInv

(* A commit that writes updatedAt makes every other read stale.            *)
LEMMA BumpKeepsReads ==
  ASSUME IInv, NEW r \in Requests, EndBumping(r), Joined => Joined'
  PROVE  ReadsStayTrue' /\ FreshReadsAreCurrent'
<1>1. request \in [Requests -> Request]
  BY DEF IInv, TypeOK
<1>2. \A q \in Requests : \/ request'[q] = Idle
                          \/ request'[q] = [request[q] EXCEPT !.fresh = FALSE]
  BY <1>1 DEF EndBumping
<1>3. \A q \in Requests :
        /\ Lasting(request[q])
        /\ request[q] \in Request
  BY <1>1 DEF IInv, ReadsStayTrue
<1>4. ReadsStayTrue'
  <2> SUFFICES ASSUME NEW q \in Requests PROVE Lasting(request[q])'
    BY DEF ReadsStayTrue
  <2>1. CASE request'[q] = Idle
    BY <2>1 DEF Lasting, Idle
  <2>2. CASE request'[q] = [request[q] EXCEPT !.fresh = FALSE]
    BY <1>3, <2>2 DEF Lasting, Request, Joined
  <2> QED
    BY <1>2, <2>1, <2>2
<1>5. FreshReadsAreCurrent'
  <2> SUFFICES ASSUME NEW q \in Requests PROVE Snapshot(request[q])'
    BY DEF FreshReadsAreCurrent
  <2>1. Idle.fresh = FALSE
    BY DEF Idle
  <2>2. [request[q] EXCEPT !.fresh = FALSE].fresh = FALSE
    BY <1>3 DEF Request
  <2>3. request'[q].fresh = FALSE
    BY <1>2, <2>1, <2>2
  <2> QED
    BY <2>3 DEF Snapshot
<1> QED
  BY <1>4, <1>5

(* A commit that leaves updatedAt alone changes nothing a request read.    *)
LEMMA QuietKeepsReads ==
  ASSUME IInv, NEW r \in Requests, EndQuietly(r), Joined => Joined',
         UNCHANGED <<status, version, content, frozen, approved>>
  PROVE  ReadsStayTrue' /\ FreshReadsAreCurrent'
<1>1. \A q \in Requests : request'[q] = Idle \/ request'[q] = request[q]
  BY DEF IInv, TypeOK, EndQuietly
<1>2. ReadsStayTrue'
  BY <1>1 DEF IInv, ReadsStayTrue, Lasting, Idle, Joined
<1>3. FreshReadsAreCurrent'
  BY <1>1 DEF IInv, FreshReadsAreCurrent, Snapshot, Idle, ApprovedBy, Guarded
<1> QED
  BY <1>2, <1>3

-----------------------------------------------------------------------------
(* The invariant holds initially and is kept by every step.                *)

LEMMA InvInit == Init => IInv
<1> SUFFICES ASSUME Init PROVE IInv
  OBVIOUS
<1>1. TypeOK
  BY TypeOKInit
<1>2. ReadsStayTrue /\ FreshReadsAreCurrent
  BY DEF Init, ReadsStayTrue, Lasting, FreshReadsAreCurrent, Snapshot, Idle, Guarded
<1>3. Admission
  <2>1. issued \in {0, 1} /\ (issued = 1 => 1 \in InvitationIds)
    BY ConstantsAssumption DEF Init, InvitationIds
  <2>2. \A i \in InvitationIds : i \in Int /\ (i <= issued => i = 1)
    BY <2>1 DEF InvitationIds
  <2>3. (status \in DocumentStages => issued = 1) /\ status \in PreJoin \cup DocumentStages
    BY ConstantsAssumption DEF Init, DocumentStages, PreJoin
  <2> QED
    BY <2>1, <2>2, <2>3 DEF Init, Admission, Joined
<1>4. FreezeHolds /\ ApprovalsOfCurrentVersion /\ ApprovedTextIsFrozen
  BY DEF Init, FreezeHolds, ApprovalsOfCurrentVersion, ApprovedTextIsFrozen
<1>5. ReadyMeansUnanimous
  BY ConstantsAssumption DEF Init, ReadyMeansUnanimous, PreJoin, DocumentStages
<1> QED
  BY <1>1, <1>2, <1>3, <1>4, <1>5 DEF IInv

LEMMA ReadKeepsInv ==
  ASSUME IInv, NEW r \in Requests,
         \/ UpdateDraftRead(r) \/ StartAgreementRead(r) \/ CreateVersionRead(r)
         \/ CreateInvitationRead(r) \/ MarkSentRead(r) \/ RevokeRead(r)
         \/ JoinRead(r) \/ ApproveRead(r)
  PROVE  IInv'
<1> USE IdleType DEF TypeOK, Request, Operations
<1>0. TypeOK
  BY DEF IInv
<1>1. CASE UpdateDraftRead(r)
  <2>1. PICK t \in Texts \cup {NoText} :
          Begin(r, [Idle EXCEPT !.op = "updateDraft", !.status = status,
                                !.fresh = TRUE, !.version = version, !.text = t])
    BY <1>1 DEF UpdateDraftRead
  <2> DEFINE s == [Idle EXCEPT !.op = "updateDraft", !.status = status,
                               !.fresh = TRUE, !.version = version, !.text = t]
  <2>2. s \in Request
    BY <1>0
  <2>3. Lasting(s) /\ Snapshot(s)
    BY <1>1, <2>2 DEF UpdateDraftRead, Lasting, Snapshot, Idle
  <2> QED
    BY <2>1, <2>2, <2>3, BeginKeepsInv
<1>2. CASE StartAgreementRead(r)
  <2> DEFINE s == [Idle EXCEPT !.op = "startAgreement", !.status = status,
                               !.fresh = TRUE, !.version = version]
  <2>1. s \in Request
    BY <1>0
  <2>2. Lasting(s) /\ Snapshot(s)
    BY <1>2, <2>1 DEF StartAgreementRead, Lasting, Snapshot, Idle
  <2> QED
    BY <1>2, <2>1, <2>2, BeginKeepsInv DEF StartAgreementRead
<1>3. CASE CreateVersionRead(r)
  <2>1. PICK t \in Texts :
          Begin(r, [Idle EXCEPT !.op = "createVersion", !.status = status,
                                !.fresh = TRUE, !.version = version, !.text = t])
    BY <1>3 DEF CreateVersionRead
  <2> DEFINE s == [Idle EXCEPT !.op = "createVersion", !.status = status,
                               !.fresh = TRUE, !.version = version, !.text = t]
  <2>2. s \in Request
    BY <1>0
  <2>3. Lasting(s) /\ Snapshot(s)
    BY <1>3, <2>2 DEF CreateVersionRead, Lasting, Snapshot, Idle
  <2> QED
    BY <2>1, <2>2, <2>3, BeginKeepsInv
<1>4. CASE CreateInvitationRead(r)
  <2>1. PICK replace \in BOOLEAN :
          Begin(r, [Idle EXCEPT !.op = "createInvitation", !.status = status,
                                !.fresh = TRUE, !.version = version, !.replace = replace])
    BY <1>4 DEF CreateInvitationRead
  <2> DEFINE s == [Idle EXCEPT !.op = "createInvitation", !.status = status,
                               !.fresh = TRUE, !.version = version, !.replace = replace]
  <2>2. s \in Request
    BY <1>0
  <2>3. Lasting(s) /\ Snapshot(s)
    BY <1>4, <2>2 DEF CreateInvitationRead, Lasting, Snapshot, Idle
  <2> QED
    BY <2>1, <2>2, <2>3, BeginKeepsInv
<1>5. CASE MarkSentRead(r) \/ RevokeRead(r)
  <2>1. PICK op \in {"markSent", "revoke"} : ReadActiveInvitation(r, op)
    BY <1>5 DEF MarkSentRead, RevokeRead
  <2> DEFINE s == [Idle EXCEPT !.op = op, !.status = status, !.inv = issued]
  <2>2. issued \in InvitationIds
    BY <1>0, <2>1, ConstantsAssumption DEF ReadActiveInvitation, InvitationIds
  <2>3. s \in Request
    BY <1>0, <2>2
  <2>4. status \in PreJoin
    BY <2>1, <2>2 DEF IInv, Admission, ReadActiveInvitation
  <2>5. Lasting(s) /\ Snapshot(s)
    BY <2>3, <2>4 DEF Lasting, Snapshot, Idle, Guarded
  <2> QED
    BY <2>1, <2>3, <2>5, BeginKeepsInv DEF ReadActiveInvitation
<1>6. CASE JoinRead(r)
  <2>1. PICK i \in InvitationIds, g \in Guests :
          /\ invitation[i] = "ACTIVE"
          /\ Begin(r, [Idle EXCEPT !.op = "join", !.status = status, !.inv = i, !.guest = g])
    BY <1>6 DEF JoinRead
  <2> DEFINE s == [Idle EXCEPT !.op = "join", !.status = status, !.inv = i, !.guest = g]
  <2>2. s \in Request
    BY <1>0
  <2>3. status \in PreJoin
    BY <2>1 DEF IInv, Admission
  <2>4. Lasting(s) /\ Snapshot(s)
    BY <2>2, <2>3 DEF Lasting, Snapshot, Idle, Guarded
  <2> QED
    BY <2>1, <2>2, <2>4, BeginKeepsInv
<1>7. CASE ApproveRead(r)
  <2>1. PICK role \in Roles :
          /\ status = "TERMS_REVIEW"
          /\ content[version] # NoText
          /\ role \notin ApprovedBy(version)
          /\ Begin(r, [Idle EXCEPT !.op = "approve", !.status = status, !.fresh = TRUE,
                                   !.version = version, !.role = role,
                                   !.text = content[version],
                                   !.guest = counterparty,
                                   !.approvals = ApprovedBy(version),
                                   !.frozen = (frozen[version] # NoText)])
    BY <1>7 DEF ApproveRead
  <2> DEFINE s == [Idle EXCEPT !.op = "approve", !.status = status, !.fresh = TRUE,
                               !.version = version, !.role = role,
                               !.text = content[version],
                               !.guest = counterparty,
                               !.approvals = ApprovedBy(version),
                               !.frozen = (frozen[version] # NoText)]
  <2>2. ApprovedBy(version) \in SUBSET Roles
    BY <1>0 DEF ApprovedBy, Approval
  <2>3. s \in Request
    BY <1>0, <2>2
  <2>4. /\ s.op = "approve"
        /\ s.status = status
        /\ s.version = version
        /\ s.role = role
        /\ s.text = content[version]
        /\ s.guest = counterparty
        /\ s.approvals = ApprovedBy(version)
        /\ s.frozen = (frozen[version] # NoText)
    BY DEF Idle
  <2>5. Lasting(s)
    BY <2>1, <2>4 DEF Lasting, Joined
  <2>6. Snapshot(s)
    BY <2>4 DEF Snapshot
  <2> QED
    BY <2>1, <2>3, <2>5, <2>6, BeginKeepsInv
<1> QED
  BY <1>1, <1>2, <1>3, <1>4, <1>5, <1>6, <1>7

(* A step that touches no version keeps what was approved, unless it opens *)
(* signing.                                                                *)
LEMMA UntouchedVersions ==
  ASSUME IInv, UNCHANGED <<version, content, frozen, approved>>,
         status' = "READY_TO_SIGN" => status = "READY_TO_SIGN"
  PROVE  /\ FreezeHolds'
         /\ ApprovalsOfCurrentVersion'
         /\ ApprovedTextIsFrozen'
         /\ ReadyMeansUnanimous'
BY DEF IInv, FreezeHolds, ApprovalsOfCurrentVersion, ApprovedTextIsFrozen,
       ReadyMeansUnanimous, ApprovedBy

(* A step of a joined deal, or one that keeps the status, does not disturb *)
(* the admission as long as no invitation changes.                         *)
LEMMA UntouchedInvitations ==
  ASSUME IInv, UNCHANGED <<counterparty, invitation, issued>>,
         Joined \/ status' \in PreJoin \/ status' = status
  PROVE  Admission' /\ (Joined => Joined')
BY DEF IInv, Admission, Joined

LEMMA UpdateDraftKeepsInv ==
  ASSUME IInv, NEW r \in Requests, UpdateDraftCommit(r), TypeOK'
  PROVE  IInv'
<1> DEFINE q == request[r]
<1>0. q \in Request /\ TypeOK
  BY DEF IInv, TypeOK
<1>1. Admission' /\ (Joined => Joined')
  BY UntouchedInvitations DEF UpdateDraftCommit
<1>2. ReadsStayTrue' /\ FreshReadsAreCurrent'
  BY <1>1, BumpKeepsReads DEF UpdateDraftCommit
<1>3. /\ frozen[q.version] = NoText
      /\ content' = [content EXCEPT ![q.version] = q.text]
      /\ UNCHANGED <<status, version, frozen, approved>>
  BY DEF UpdateDraftCommit, Writable
<1>4. FreezeHolds'
  BY <1>0, <1>3 DEF IInv, FreezeHolds, TypeOK
<1>5. ApprovalsOfCurrentVersion' /\ ReadyMeansUnanimous'
  BY <1>3 DEF IInv, ApprovalsOfCurrentVersion, ReadyMeansUnanimous, ApprovedBy
<1>6. ApprovedTextIsFrozen'
  BY <1>0, <1>3 DEF IInv, ApprovedTextIsFrozen, TypeOK, Approval
<1> QED
  BY <1>1, <1>2, <1>4, <1>5, <1>6 DEF IInv

LEMMA StartAgreementKeepsInv ==
  ASSUME IInv, NEW r \in Requests, StartAgreementCommit(r), TypeOK'
  PROVE  IInv'
<1>1. status' \in PreJoin \/ Joined
  BY DEF StartAgreementCommit, PreJoin
<1>2. status' # "READY_TO_SIGN"
  BY DEF StartAgreementCommit, DocumentStage
<1>3. Admission' /\ (Joined => Joined')
  BY <1>1, UntouchedInvitations DEF StartAgreementCommit
<1>4. ReadsStayTrue' /\ FreshReadsAreCurrent'
  BY <1>3, BumpKeepsReads DEF StartAgreementCommit
<1> QED
  BY <1>2, <1>3, <1>4, UntouchedVersions DEF StartAgreementCommit, IInv

(* The new version is not frozen, the old ones keep their text, and the    *)
(* approvals are gone.                                                     *)
LEMMA CreateVersionKeepsInv ==
  ASSUME IInv, NEW r \in Requests, CreateVersionCommit(r), TypeOK'
  PROVE  IInv'
<1> DEFINE q == request[r]
<1>0. q \in Request /\ TypeOK /\ Lasting(q) /\ Snapshot(q)
  BY DEF IInv, TypeOK, ReadsStayTrue, FreshReadsAreCurrent
<1>1. Joined /\ q.version = version
  BY <1>0 DEF CreateVersionCommit, Current, Lasting, Snapshot, Guarded
<1>2. Admission' /\ (Joined => Joined')
  BY <1>1, UntouchedInvitations DEF CreateVersionCommit
<1>3. ReadsStayTrue' /\ FreshReadsAreCurrent'
  BY <1>2, BumpKeepsReads DEF CreateVersionCommit
<1>4. /\ version' = version + 1
      /\ content' = [content EXCEPT ![version + 1] = q.text]
      /\ approved' = {}
      /\ frozen' = frozen
  BY <1>1 DEF CreateVersionCommit, ApprovalsAfterRevision
<1>5. FreezeHolds'
  <2>1. version \in Int /\ \A v \in Versions : v \in Int
    BY <1>0 DEF TypeOK, Versions
  <2>2. \A v \in Versions : v > version => frozen[v] = NoText
    BY DEF IInv, FreezeHolds
  <2>3. \A v \in Versions : v > version + 1 => frozen'[v] = NoText
    BY <1>4, <2>1, <2>2
  <2>4. \A v \in Versions : frozen'[v] # NoText => content'[v] = frozen'[v]
    <3> SUFFICES ASSUME NEW v \in Versions, frozen[v] # NoText
                 PROVE  content'[v] = frozen[v]
      BY <1>4
    <3>1. v # version + 1
      BY <2>1, <2>2
    <3>2. content'[v] = content[v]
      BY <1>0, <1>4, <3>1 DEF TypeOK
    <3> QED
      BY <3>2 DEF IInv, FreezeHolds
  <2> QED
    BY <1>4, <2>3, <2>4 DEF FreezeHolds
<1>6. ApprovalsOfCurrentVersion' /\ ApprovedTextIsFrozen'
  BY <1>4 DEF ApprovalsOfCurrentVersion, ApprovedTextIsFrozen
<1>7. ReadyMeansUnanimous'
  BY <1>1 DEF CreateVersionCommit, StatusAfterRevision, DocumentStage, ReadyMeansUnanimous
<1> QED
  BY <1>2, <1>3, <1>5, <1>6, <1>7 DEF IInv

LEMMA CreateInvitationKeepsInv ==
  ASSUME IInv, NEW r \in Requests, CreateInvitationCommit(r), TypeOK'
  PROVE  IInv'
<1> DEFINE q == request[r]
<1>0. q \in Request /\ TypeOK /\ Lasting(q)
  BY DEF IInv, TypeOK, ReadsStayTrue
<1>1. q.status \in PreJoin
  BY <1>0 DEF CreateInvitationCommit, Lasting
<1>2. status' \in PreJoin /\ status' # "READY_TO_SIGN"
  BY <1>1 DEF CreateInvitationCommit, PreJoin
<1>3. ReadsStayTrue' /\ FreshReadsAreCurrent'
  <2>1. Joined => Joined'
    BY DEF CreateInvitationCommit, Joined
  <2>2. CASE q.status = "DRAFT"
    <3>1. EndQuietly(r) /\ status' = status
      BY <2>2 DEF CreateInvitationCommit, Current
    <3> QED
      BY <2>1, <3>1, QuietKeepsReads DEF CreateInvitationCommit
  <2>3. CASE q.status # "DRAFT"
    BY <2>1, <2>3, BumpKeepsReads DEF CreateInvitationCommit
  <2> QED
    BY <2>2, <2>3
<1>4. Admission'
  <2>1. /\ ~Joined
        /\ counterparty' = counterparty
        /\ issued' = issued + 1
        /\ \A i \in InvitationIds :
             invitation'[i] = IF i = issued + 1 THEN "ACTIVE"
                              ELSE IF invitation[i] \in {"ACTIVE", "EXPIRED"} THEN "REVOKED"
                              ELSE invitation[i]
    BY DEF CreateInvitationCommit
  <2>2. \A i \in InvitationIds : invitation[i] # "ACCEPTED"
    BY <2>1 DEF IInv, Admission
  <2>3. \A i \in InvitationIds : invitation'[i] \in {"ACTIVE", "ACCEPTED"} => i = issued + 1
    BY <2>1, <2>2
  <2>4. \A i \in InvitationIds : invitation'[i] # "ACCEPTED"
    BY <2>1, <2>2
  <2> QED
    BY <1>2, <2>1, <2>3, <2>4 DEF Admission, Joined
<1> QED
  BY <1>2, <1>3, <1>4, UntouchedVersions DEF CreateInvitationCommit, IInv

LEMMA MarkSentKeepsInv ==
  ASSUME IInv, NEW r \in Requests, MarkSentCommit(r), TypeOK'
  PROVE  IInv'
<1>1. status' \in PreJoin /\ status' # "READY_TO_SIGN"
  BY DEF MarkSentCommit, PreJoin
<1>2. Admission' /\ (Joined => Joined')
  BY <1>1, UntouchedInvitations DEF MarkSentCommit
<1>3. ReadsStayTrue' /\ FreshReadsAreCurrent'
  BY <1>2, BumpKeepsReads DEF MarkSentCommit
<1> QED
  BY <1>1, <1>2, <1>3, UntouchedVersions DEF MarkSentCommit, IInv

(* The status written back was read while an invitation was open, before   *)
(* anybody joined: it never opens signing.                                 *)
LEMMA RevokeKeepsInv ==
  ASSUME IInv, NEW r \in Requests, RevokeCommit(r), TypeOK'
  PROVE  IInv'
<1> DEFINE q == request[r]
<1>0. q \in Request /\ TypeOK /\ Lasting(q)
  BY DEF IInv, TypeOK, ReadsStayTrue
<1>1. status' \in PreJoin /\ status' # "READY_TO_SIGN"
  BY <1>0 DEF RevokeCommit, Lasting, PreJoin
<1>2. ReadsStayTrue' /\ FreshReadsAreCurrent'
  BY BumpKeepsReads DEF RevokeCommit, Joined
<1>3. Admission'
  <2>1. /\ UNCHANGED <<counterparty, issued>>
        /\ invitation[q.inv] # "ACCEPTED"
        /\ \A i \in InvitationIds :
             invitation'[i] = IF i = q.inv THEN "REVOKED" ELSE invitation[i]
    BY <1>0 DEF RevokeCommit, Revocable, TypeOK
  <2> QED
    BY <1>1, <2>1 DEF IInv, Admission, Joined
<1> QED
  BY <1>1, <1>2, <1>3, UntouchedVersions DEF RevokeCommit, IInv

(* Accepting needs the only open invitation and no counterparty.           *)
LEMMA JoinKeepsInv ==
  ASSUME IInv, NEW r \in Requests, JoinCommit(r), TypeOK'
  PROVE  IInv'
<1> DEFINE q == request[r]
<1>0. q \in Request /\ TypeOK
  BY DEF IInv, TypeOK
<1>1. q.guest \in Guests
  BY DEF IInv, ReadsStayTrue, Lasting, JoinCommit
<1>2. Joined'
  BY <1>1, ConstantsAssumption DEF JoinCommit, Joined
<1>3. ReadsStayTrue' /\ FreshReadsAreCurrent'
  <2>1. CASE q.status = "DRAFT"
    <3>1. EndQuietly(r) /\ status' = status
      BY <2>1 DEF JoinCommit
    <3> QED
      BY <1>2, <3>1, QuietKeepsReads DEF JoinCommit
  <2>2. CASE q.status # "DRAFT"
    BY <1>2, <2>2, BumpKeepsReads DEF JoinCommit
  <2> QED
    BY <2>1, <2>2
<1>4. Admission'
  <2>1. /\ invitation[q.inv] = "ACTIVE"
        /\ q.inv \in InvitationIds
        /\ invitation' = [invitation EXCEPT ![q.inv] = "ACCEPTED"]
    BY <1>0 DEF JoinCommit, Request
  <2>2. \A i \in InvitationIds \ {q.inv} :
          invitation'[i] \notin {"ACTIVE", "ACCEPTED"} /\ invitation'[i] = invitation[i]
    BY <1>0, <2>1 DEF IInv, Admission, TypeOK
  <2>3. invitation'[q.inv] = "ACCEPTED"
    BY <1>0, <2>1 DEF TypeOK
  <2> QED
    BY <1>2, <2>1, <2>2, <2>3 DEF Admission
<1>5. status' # "READY_TO_SIGN"
  BY DEF JoinCommit, DocumentStage
<1> QED
  BY <1>3, <1>4, <1>5, UntouchedVersions DEF JoinCommit, IInv

LEMMA BothRoles ==
  ASSUME NEW S \in SUBSET Roles, NEW role \in Roles, role \notin S
  PROVE  Cardinality(S) + 1 = Cardinality(Roles) <=> S \cup {role} = Roles
<1>1. IsFiniteSet(Roles)
  <2>1. Roles = {"INITIATOR"} \cup {"COUNTERPARTY"}
    BY DEF Roles
  <2> QED
    BY <2>1, FS_Singleton, FS_AddElement
<1>2. IsFiniteSet(S) /\ S \cup {role} \in SUBSET Roles
  BY <1>1, FS_Subset
<1>3. Cardinality(S \cup {role}) = Cardinality(S) + 1
  BY <1>2, FS_AddElement
<1> QED
  BY <1>1, <1>2, <1>3, FS_Subset

(* The approvals a fresh request read are all there are, so its own        *)
(* approval completes them exactly when it counts them all.                *)
LEMMA ApproveEffect ==
  ASSUME IInv, NEW r \in Requests, ApproveCommit(r)
  PROVE  LET q == request[r] IN
         /\ Joined
         /\ status = "TERMS_REVIEW"
         /\ q.version = version
         /\ q.text = content[version]
         /\ q.text # NoText
         /\ q.role \in Roles
         /\ ApprovedBy(version)' = ApprovedBy(version) \cup {q.role}
         /\ frozen' = [frozen EXCEPT ![version] = content[version]]
         /\ status' = IF ApprovedBy(version)' = Roles THEN "READY_TO_SIGN" ELSE status
<1> DEFINE q == request[r]
           a == [version |-> q.version, role |-> q.role, text |-> q.text]
<1>0. q \in Request /\ TypeOK /\ Lasting(q) /\ Snapshot(q)
  BY DEF IInv, TypeOK, ReadsStayTrue, FreshReadsAreCurrent
<1>1. /\ q.op = "approve"
      /\ q.version = version
      /\ q.status = status
      /\ q.text = content[version]
      /\ q.approvals = ApprovedBy(version)
      /\ q.frozen = (frozen[version] # NoText)
  BY <1>0 DEF ApproveCommit, Current, Snapshot, Guarded
<1>2. /\ Joined
      /\ q.status = "TERMS_REVIEW"
      /\ q.role \notin q.approvals
      /\ q.text # NoText
  BY <1>0 DEF ApproveCommit, Lasting
<1>3. frozen' = [frozen EXCEPT ![version] = content[version]]
  <2>1. CASE frozen[version] # NoText
    <3>1. frozen[version] = content[version] /\ frozen' = frozen
      BY <1>0, <1>1, <2>1 DEF ApproveCommit, IInv, FreezeHolds, TypeOK
    <3> QED
      BY <1>0, <3>1 DEF ApproveCommit, TypeOK
  <2>2. CASE frozen[version] = NoText
    BY <1>1, <2>2 DEF ApproveCommit
  <2> QED
    BY <2>1, <2>2
<1>4. ApprovedBy(version)' = ApprovedBy(version) \cup {q.role}
  <2>1. \A S, b, v : b.version = v =>
          {c.role : c \in {d \in S \cup {b} : d.version = v}}
            = {c.role : c \in {d \in S : d.version = v}} \cup {b.role}
    OBVIOUS
  <2>2. a.version = version /\ a.role = q.role
    BY <1>1
  <2>3. ApprovedBy(version)' = {c.role : c \in {d \in approved \cup {a} : d.version = version}}
    BY <1>1 DEF ApproveCommit, ApprovedBy
  <2> HIDE DEF a
  <2> QED
    BY <2>1, <2>2, <2>3 DEF ApprovedBy
<1>5. q.approvals \in SUBSET Roles /\ q.role \in Roles
  BY <1>0 DEF Request
<1>6. Cardinality(q.approvals) + 1 = Cardinality(Roles) <=> ApprovedBy(version)' = Roles
  BY <1>1, <1>2, <1>4, <1>5, BothRoles
<1>7. status' = IF ApprovedBy(version)' = Roles THEN "READY_TO_SIGN" ELSE status
  BY <1>1, <1>6 DEF ApproveCommit
<1> QED
  BY <1>1, <1>2, <1>3, <1>4, <1>5, <1>7

LEMMA ApproveKeepsInv ==
  ASSUME IInv, NEW r \in Requests, ApproveCommit(r), TypeOK'
  PROVE  IInv'
<1> DEFINE q == request[r]
           a == [version |-> q.version, role |-> q.role, text |-> q.text]
<1>0. TypeOK
  BY DEF IInv
<1>1. /\ Joined
      /\ q.version = version
      /\ q.text = content[version]
      /\ q.text # NoText
      /\ frozen' = [frozen EXCEPT ![version] = content[version]]
      /\ status' = IF ApprovedBy(version)' = Roles THEN "READY_TO_SIGN" ELSE status
      /\ status # "READY_TO_SIGN"
  BY ApproveEffect
<1>2. Admission' /\ (Joined => Joined')
  BY <1>1, UntouchedInvitations DEF ApproveCommit
<1>3. ReadsStayTrue' /\ FreshReadsAreCurrent'
  BY <1>2, BumpKeepsReads DEF ApproveCommit
<1>4. approved' = approved \cup {a} /\ UNCHANGED <<version, content>>
  BY DEF ApproveCommit
<1>5. version \in Versions /\ frozen'[version] = content[version]
      /\ \A v \in Versions \ {version} : frozen'[v] = frozen[v]
  BY <1>0, <1>1 DEF TypeOK
<1>6. FreezeHolds'
  <2> SUFFICES ASSUME NEW v \in Versions
               PROVE  /\ frozen'[v] # NoText => content[v] = frozen'[v]
                      /\ v > version => frozen'[v] = NoText
    BY <1>4 DEF FreezeHolds
  <2>1. CASE v = version
    <3>1. ~(v > version)
      BY <1>5, <2>1 DEF Versions
    <3> QED
      BY <1>5, <2>1, <3>1
  <2>2. CASE v # version
    <3>1. frozen'[v] = frozen[v]
      BY <1>5, <2>2
    <3> QED
      BY <3>1 DEF IInv, FreezeHolds
  <2> QED
    BY <2>1, <2>2
<1>7. ApprovalsOfCurrentVersion'
  BY <1>1, <1>4 DEF IInv, ApprovalsOfCurrentVersion
<1>8. ApprovedTextIsFrozen'
  <2> SUFFICES ASSUME NEW b \in approved'
               PROVE  /\ b.text # NoText
                      /\ frozen'[b.version] = b.text
                      /\ content'[b.version] = b.text
    BY DEF ApprovedTextIsFrozen
  <2>1. CASE b = a
    BY <1>1, <1>4, <1>5, <2>1
  <2>2. CASE b \in approved
    BY <1>4, <1>5, <2>2 DEF IInv, ApprovedTextIsFrozen, ApprovalsOfCurrentVersion
  <2> QED
    BY <1>4, <2>1, <2>2
<1>9. ReadyMeansUnanimous'
  BY <1>1 DEF ReadyMeansUnanimous
<1> QED
  BY <1>2, <1>3, <1>6, <1>7, <1>8, <1>9 DEF IInv

LEMMA OtherStepsKeepInv ==
  ASSUME IInv, TypeOK',
         \/ \E r \in Requests : Abort(r)
         \/ \E i \in InvitationIds : Expire(i)
         \/ ReconcileDocumentStage
         \/ UNCHANGED vars
  PROVE  IInv'
<1>0. TypeOK
  BY DEF IInv
<1>1. ASSUME NEW r \in Requests, Abort(r) PROVE IInv'
  <2>1. Admission' /\ (Joined => Joined')
    BY <1>1, UntouchedInvitations DEF Abort
  <2> QED
    BY <1>1, <2>1, QuietKeepsReads, UntouchedVersions DEF Abort, IInv
<1>2. ASSUME NEW i \in InvitationIds, Expire(i) PROVE IInv'
  <2>1. Admission'
    BY <1>0, <1>2 DEF IInv, Admission, Expire, Joined, TypeOK
  <2>2. ReadsStayTrue' /\ FreshReadsAreCurrent'
    BY <1>2 DEF IInv, ReadsStayTrue, FreshReadsAreCurrent, Lasting, Snapshot, Joined,
                ApprovedBy, Expire
  <2> QED
    BY <1>2, <2>1, <2>2, UntouchedVersions DEF Expire, IInv
<1>3. CASE ReconcileDocumentStage
  <2>1. Joined /\ status' = "TERMS_REVIEW"
    BY <1>3 DEF IInv, Admission, ReconcileDocumentStage, DocumentStage, PreJoin, DocumentStages
  <2>2. Admission' /\ (Joined => Joined')
    BY <1>3, <2>1, UntouchedInvitations DEF ReconcileDocumentStage
  <2>3. \A q \in Requests : request'[q] = [request[q] EXCEPT !.fresh = FALSE]
                           /\ request[q] \in Request
    BY <1>0, <1>3 DEF ReconcileDocumentStage, TypeOK
  <2>4. ReadsStayTrue'
    BY <2>1, <2>2, <2>3 DEF IInv, ReadsStayTrue, Lasting, Request
  <2>5. FreshReadsAreCurrent'
    <3> SUFFICES ASSUME NEW q \in Requests PROVE Snapshot(request[q])'
      BY DEF FreshReadsAreCurrent
    <3>1. request'[q].fresh = FALSE
      BY <2>3 DEF Request
    <3> QED
      BY <3>1 DEF Snapshot
  <2> QED
    BY <1>3, <2>1, <2>2, <2>4, <2>5, UntouchedVersions DEF ReconcileDocumentStage, IInv
<1>4. CASE UNCHANGED vars
  BY <1>4 DEF vars, IInv, TypeOK, ReadsStayTrue, Lasting, FreshReadsAreCurrent, Snapshot,
              Admission, FreezeHolds, ApprovalsOfCurrentVersion, ApprovedTextIsFrozen,
              ReadyMeansUnanimous, ApprovedBy, Joined
<1> QED
  BY <1>1, <1>2, <1>3, <1>4

LEMMA InvStep == IInv /\ [Next]_vars => IInv'
<1> SUFFICES ASSUME IInv, [Next]_vars PROVE IInv'
  OBVIOUS
<1>1. TypeOK'
  BY TypeOKStep DEF IInv
<1>2. ASSUME NEW r \in Requests, Step(r) PROVE IInv'
  BY <1>1, <1>2, ReadKeepsInv, UpdateDraftKeepsInv, StartAgreementKeepsInv,
     CreateVersionKeepsInv, CreateInvitationKeepsInv, MarkSentKeepsInv, RevokeKeepsInv,
     JoinKeepsInv, ApproveKeepsInv, OtherStepsKeepInv DEF Step
<1> QED
  BY <1>1, <1>2, OtherStepsKeepInv DEF Next

(* The inductive invariant of the negotiation.                             *)
THEOREM Invariance == Spec => []IInv
BY InvInit, InvStep, PTL DEF Spec

(* A deal is ready to sign only with the approvals of both parties to its  *)
(* current version: status and approvals agree in every state.             *)
THEOREM ReadinessIsUnanimous == Spec => []ReadyMeansUnanimous
<1>1. IInv => ReadyMeansUnanimous
  BY DEF IInv
<1> QED
  BY <1>1, Invariance, PTL

(* No approval survives the version it was given to.                       *)
THEOREM NoStaleApproval == Spec => []ApprovalsOfCurrentVersion
<1>1. IInv => ApprovalsOfCurrentVersion
  BY DEF IInv
<1> QED
  BY <1>1, Invariance, PTL

(* The approved text, the frozen text and the stored text are one.         *)
THEOREM ApprovalsFreezeText == Spec => []ApprovedTextIsFrozen
<1>1. IInv => ApprovedTextIsFrozen
  BY DEF IInv
<1> QED
  BY <1>1, Invariance, PTL

-----------------------------------------------------------------------------
(* Admission of the counterparty.                                          *)

LEMMA AtMostOne ==
  ASSUME NEW S, \A x, y \in S : x = y
  PROVE  S = {} \/ Cardinality(S) = 1
<1> SUFFICES ASSUME S # {} PROVE Cardinality(S) = 1
  OBVIOUS
<1>1. PICK x \in S : S = {x}
  OBVIOUS
<1> QED
  BY <1>1, FS_Singleton

(* One link admits one person, whatever creates, revocations and joins     *)
(* overlap.                                                                *)
THEOREM AdmissionIsUnique == Spec => []OneAdmission
<1>1. IInv => OneAdmission
  <2> SUFFICES ASSUME IInv PROVE OneAdmission
    OBVIOUS
  <2> DEFINE S == {i \in InvitationIds : invitation[i] = "ACTIVE"}
             T == {i \in InvitationIds : invitation[i] = "ACCEPTED"}
  <2>1. S = {} \/ T = {}
    BY DEF IInv, Admission
  <2>2. S = {} \/ Cardinality(S) = 1
    BY AtMostOne DEF IInv, Admission
  <2>3. T = {} \/ Cardinality(T) = 1
    BY AtMostOne DEF IInv, Admission
  <2>4. Cardinality({}) = 0
    BY FS_EmptySet
  <2>5. Cardinality(S) + Cardinality(T) <= 1
    BY <2>1, <2>2, <2>3, <2>4
  <2>6. Joined <=> T # {}
    BY DEF IInv, Admission
  <2> QED
    BY <2>5, <2>6 DEF OneAdmission
<1> QED
  BY <1>1, Invariance, PTL

-----------------------------------------------------------------------------
(* The negotiation implements the abstract agreement.                      *)

LEMMA RefinesInit == Init => A!Init
<1> SUFFICES ASSUME Init PROVE A!Init
  OBVIOUS
<1>1. 1 \in Versions
  BY ConstantsAssumption DEF Versions
<1>2. status # "READY_TO_SIGN"
  BY ConstantsAssumption DEF Init, PreJoin, DocumentStages
<1> QED
  BY <1>1, <1>2 DEF Init, A!Init, ApprovedBy

(* A step that touches no version is Suspend or a stutter, as long as it   *)
(* does not open signing.                                                  *)
LEMMA RefinesUntouched ==
  ASSUME UNCHANGED <<version, content, frozen, approved>>,
         status' = "READY_TO_SIGN" => status = "READY_TO_SIGN"
  PROVE  [A!Next]_A!vars
<1>1. UNCHANGED <<version, content[version], frozen[version] # NoText, ApprovedBy(version)>>
  BY DEF ApprovedBy
<1>2. CASE (status' = "READY_TO_SIGN") = (status = "READY_TO_SIGN")
  BY <1>1, <1>2 DEF A!vars
<1>3. CASE status = "READY_TO_SIGN" /\ status' # "READY_TO_SIGN"
  BY <1>1, <1>3 DEF A!Next, A!Suspend
<1> QED
  BY <1>2, <1>3

LEMMA RefinesUpdateDraft ==
  ASSUME IInv, NEW r \in Requests, UpdateDraftCommit(r)
  PROVE  [A!Next]_A!vars
<1> DEFINE q == request[r]
<1>1. q \in Request /\ TypeOK /\ Snapshot(q)
  BY DEF IInv, TypeOK, FreshReadsAreCurrent
<1>2. /\ q.version = version
      /\ frozen[version] = NoText
      /\ content'[version] = q.text
      /\ q.text \in Texts \cup {NoText}
      /\ UNCHANGED <<status, version, frozen, approved>>
  BY <1>1 DEF UpdateDraftCommit, Current, Writable, Snapshot, Guarded, TypeOK, Request
<1>3. ApprovedBy(version)' = ApprovedBy(version)
  BY <1>2 DEF ApprovedBy
<1>4. A!Draft
  BY <1>2, <1>3 DEF A!Draft
<1> QED
  BY <1>4 DEF A!Next

LEMMA RefinesCreateVersion ==
  ASSUME IInv, IInv', NEW r \in Requests, CreateVersionCommit(r)
  PROVE  [A!Next]_A!vars
<1> DEFINE q == request[r]
<1>1. q \in Request /\ TypeOK /\ TypeOK' /\ Snapshot(q) /\ Lasting(q)
  BY DEF IInv, TypeOK, FreshReadsAreCurrent, ReadsStayTrue
<1>2. /\ q.version = version
      /\ q.text \in Texts
      /\ Joined
  BY <1>1 DEF CreateVersionCommit, Current, Snapshot, Lasting, Guarded
<1>3. /\ version' = version + 1
      /\ version' \in Versions
      /\ content'[version'] = q.text
      /\ frozen' = frozen
      /\ approved' = {}
  BY <1>1, <1>2 DEF CreateVersionCommit, ApprovalsAfterRevision, TypeOK
<1>4. frozen'[version'] = NoText
  BY <1>1, <1>3 DEF IInv, FreezeHolds, TypeOK, Versions
<1>5. status' # "READY_TO_SIGN"
  BY <1>2 DEF CreateVersionCommit, StatusAfterRevision, DocumentStage
<1>6. ApprovedBy(version)' = {}
  BY <1>3 DEF ApprovedBy
<1>7. A!Revise
  BY <1>2, <1>3, <1>4, <1>5, <1>6 DEF A!Revise
<1> QED
  BY <1>7 DEF A!Next

LEMMA RefinesApprove ==
  ASSUME IInv, NEW r \in Requests, ApproveCommit(r)
  PROVE  [A!Next]_A!vars
<1> DEFINE q == request[r]
<1>1. /\ status = "TERMS_REVIEW"
      /\ content[version] # NoText
      /\ q.role \in Roles
      /\ ApprovedBy(version)' = ApprovedBy(version) \cup {q.role}
      /\ frozen' = [frozen EXCEPT ![version] = content[version]]
      /\ status' = IF ApprovedBy(version)' = Roles THEN "READY_TO_SIGN" ELSE status
  BY ApproveEffect
<1>2. UNCHANGED <<version, content>>
  BY DEF ApproveCommit
<1>3. frozen'[version] # NoText
  BY <1>1 DEF IInv, TypeOK
<1>4. (status' = "READY_TO_SIGN") = (ApprovedBy(version)' = Roles)
  BY <1>1
<1>5. A!Approve(q.role)
  BY <1>1, <1>2, <1>3, <1>4 DEF A!Approve
<1> QED
  BY <1>1, <1>5 DEF A!Next

LEMMA RefinesStep == IInv /\ IInv' /\ [Next]_vars => [A!Next]_A!vars
<1> SUFFICES ASSUME IInv, IInv', [Next]_vars PROVE [A!Next]_A!vars
  OBVIOUS
<1>1. ASSUME NEW r \in Requests,
             \/ UpdateDraftRead(r) \/ StartAgreementRead(r) \/ CreateVersionRead(r)
             \/ CreateInvitationRead(r) \/ MarkSentRead(r) \/ RevokeRead(r)
             \/ JoinRead(r) \/ ApproveRead(r) \/ Abort(r)
      PROVE  [A!Next]_A!vars
  BY <1>1, RefinesUntouched
     DEF UpdateDraftRead, StartAgreementRead, CreateVersionRead, CreateInvitationRead,
         MarkSentRead, RevokeRead, ReadActiveInvitation, JoinRead, ApproveRead, Begin, Abort
<1>2. ASSUME NEW r \in Requests,
             \/ StartAgreementCommit(r) \/ CreateInvitationCommit(r)
             \/ MarkSentCommit(r) \/ RevokeCommit(r) \/ JoinCommit(r)
      PROVE  [A!Next]_A!vars
  <2>1. UNCHANGED <<version, content, frozen, approved>>
    BY <1>2 DEF StartAgreementCommit, CreateInvitationCommit, MarkSentCommit, RevokeCommit,
                JoinCommit
  <2>2. Lasting(request[r])
    BY DEF IInv, ReadsStayTrue
  <2>3. status' # "READY_TO_SIGN"
    BY <1>2, <2>2
       DEF StartAgreementCommit, CreateInvitationCommit, MarkSentCommit, RevokeCommit,
           JoinCommit, DocumentStage, Lasting, PreJoin
  <2> QED
    BY <2>1, <2>3, RefinesUntouched
<1>3. CASE \E i \in InvitationIds : Expire(i)
  BY <1>3, RefinesUntouched DEF Expire
<1>4. CASE ReconcileDocumentStage
  BY <1>4, RefinesUntouched DEF ReconcileDocumentStage, DocumentStage
<1>5. CASE UNCHANGED vars
  BY <1>5, RefinesUntouched DEF vars
<1> QED
  BY <1>1, <1>2, <1>3, <1>4, <1>5, RefinesUpdateDraft, RefinesCreateVersion, RefinesApprove
     DEF Next, Step

(* Whatever requests overlap, a text is agreed only by both parties'       *)
(* approvals of one sealed version: the handlers implement Agreement.      *)
THEOREM Refinement == Spec => ImplementsAgreement
BY RefinesInit, RefinesStep, Invariance, PTL DEF Spec, ImplementsAgreement, A!Spec

-----------------------------------------------------------------------------
(* The transition graph: what one write of a handler reaches.              *)

Hop(s, t) == t = s \/ t \in TransitionGraph[s]

(* A walk of at most five edges.                                           *)
LEMMA WalkReaches ==
  ASSUME NEW a, NEW b, NEW c, NEW d, NEW e, NEW f,
         Hop(a, b), Hop(b, c), Hop(c, d), Hop(d, e), Hop(e, f)
  PROVE  f \in Reachable(a)
<1>1. \A S, s, t : s \in S /\ Hop(s, t) => t \in Beyond(S)
  BY DEF Beyond, Hop
<1>2. b \in Beyond({a})
  BY <1>1
<1>3. c \in Beyond(Beyond({a}))
  BY <1>1, <1>2
<1>4. d \in Beyond(Beyond(Beyond({a})))
  BY <1>1, <1>3
<1>5. e \in Beyond(Beyond(Beyond(Beyond({a}))))
  BY <1>1, <1>4
<1>6. f \in Beyond(Beyond(Beyond(Beyond(Beyond({a})))))
  BY <1>1, <1>5
<1> QED
  BY <1>6 DEF Reachable

LEMMA WalksOfTheHandlers ==
  /\ \A s \in DealStatus : s \in Reachable(s) /\ "TERMS_REVIEW" \in Reachable(s)
  /\ \A s \in {"COLLECTING_DATA", "INVITED"} : "INVITATION_READY" \in Reachable(s)
  /\ "READY_TO_SIGN" \in Reachable("TERMS_REVIEW")
<1>1. \A s : Hop(s, s)
  BY DEF Hop
<1>2. /\ Hop("DRAFT", "COLLECTING_DATA")
      /\ Hop("COLLECTING_DATA", "INVITATION_READY")
      /\ Hop("INVITATION_READY", "INVITED")
      /\ Hop("INVITED", "INVITATION_READY")
      /\ Hop("INVITED", "COUNTERPARTY_JOINED")
      /\ Hop("COUNTERPARTY_JOINED", "TERMS_REVIEW")
      /\ Hop("DOCUMENTS_PENDING", "DOCUMENTS_REVIEW")
      /\ Hop("DOCUMENTS_REVIEW", "CONTRACT_DRAFT")
      /\ Hop("CONTRACT_DRAFT", "TERMS_REVIEW")
      /\ Hop("TERMS_REVIEW", "READY_TO_SIGN")
      /\ Hop("READY_TO_SIGN", "TERMS_REVIEW")
  BY DEF Hop, TransitionGraph, DealStatus
<1>3. \A s \in DealStatus : s \in Reachable(s)
  BY <1>1, WalkReaches
<1>4. "TERMS_REVIEW" \in Reachable("DRAFT")
  BY <1>2, WalkReaches
<1>5. "TERMS_REVIEW" \in Reachable("COLLECTING_DATA")
  BY <1>1, <1>2, WalkReaches
<1>6. "TERMS_REVIEW" \in Reachable("INVITATION_READY")
  BY <1>1, <1>2, WalkReaches
<1>7. "TERMS_REVIEW" \in Reachable("INVITED")
  BY <1>1, <1>2, WalkReaches
<1>8. "TERMS_REVIEW" \in Reachable("COUNTERPARTY_JOINED")
  BY <1>1, <1>2, WalkReaches
<1>9. "TERMS_REVIEW" \in Reachable("DOCUMENTS_PENDING")
  BY <1>1, <1>2, WalkReaches
<1>10. "TERMS_REVIEW" \in Reachable("DOCUMENTS_REVIEW")
  BY <1>1, <1>2, WalkReaches
<1>11. "TERMS_REVIEW" \in Reachable("READY_TO_SIGN")
  BY <1>1, <1>2, WalkReaches
<1>12. /\ "INVITATION_READY" \in Reachable("COLLECTING_DATA")
       /\ "INVITATION_READY" \in Reachable("INVITED")
       /\ "READY_TO_SIGN" \in Reachable("TERMS_REVIEW")
  BY <1>1, <1>2, WalkReaches
<1>13. "TERMS_REVIEW" \in Reachable("TERMS_REVIEW")
  BY <1>3 DEF DealStatus
<1> QED
  BY <1>3, <1>4, <1>5, <1>6, <1>7, <1>8, <1>9, <1>10, <1>11, <1>12, <1>13 DEF DealStatus

(* Only a draft starts its agreement.                                      *)
StartsFromDraft ==
  \A r \in Requests : request[r].op = "startAgreement" => request[r].status = "DRAFT"

LEMMA StartsFromDraftStep ==
  ASSUME TypeOK, StartsFromDraft, [Next]_vars
  PROVE  StartsFromDraft'
<1>1. request \in [Requests -> Request]
  BY DEF TypeOK
<1>2. ASSUME NEW r \in Requests,
             \/ UpdateDraftRead(r) \/ StartAgreementRead(r) \/ CreateVersionRead(r)
             \/ CreateInvitationRead(r) \/ MarkSentRead(r) \/ RevokeRead(r)
             \/ JoinRead(r) \/ ApproveRead(r)
      PROVE  StartsFromDraft'
  <2>1. \A q \in Requests \ {r} : request'[q] = request[q]
    BY <1>1, <1>2
       DEF UpdateDraftRead, StartAgreementRead, CreateVersionRead, CreateInvitationRead,
           MarkSentRead, RevokeRead, ReadActiveInvitation, JoinRead, ApproveRead, Begin
  <2>2. request'[r].op = "startAgreement" => request'[r].status = "DRAFT"
    <3>1. CASE UpdateDraftRead(r)
      BY <1>1, <3>1 DEF UpdateDraftRead, Begin, Idle
    <3>2. CASE StartAgreementRead(r)
      BY <1>1, <3>2 DEF StartAgreementRead, Begin, Idle
    <3>3. CASE CreateVersionRead(r)
      BY <1>1, <3>3 DEF CreateVersionRead, Begin, Idle
    <3>4. CASE CreateInvitationRead(r)
      BY <1>1, <3>4 DEF CreateInvitationRead, Begin, Idle
    <3>5. CASE MarkSentRead(r)
      BY <1>1, <3>5 DEF MarkSentRead, ReadActiveInvitation, Begin, Idle
    <3>6. CASE RevokeRead(r)
      BY <1>1, <3>6 DEF RevokeRead, ReadActiveInvitation, Begin, Idle
    <3>7. CASE JoinRead(r)
      BY <1>1, <3>7 DEF JoinRead, Begin, Idle
    <3>8. CASE ApproveRead(r)
      BY <1>1, <3>8 DEF ApproveRead, Begin, Idle
    <3> QED
      BY <1>2, <3>1, <3>2, <3>3, <3>4, <3>5, <3>6, <3>7, <3>8
  <2> QED
    BY <2>1, <2>2 DEF StartsFromDraft
<1>3. ASSUME NEW r \in Requests, EndBumping(r) \/ EndQuietly(r)
      PROVE  StartsFromDraft'
  BY <1>1, <1>3 DEF StartsFromDraft, EndBumping, EndQuietly, Idle, Request
<1>4. ASSUME NEW r \in Requests,
             \/ UpdateDraftCommit(r) \/ StartAgreementCommit(r) \/ CreateVersionCommit(r)
             \/ CreateInvitationCommit(r) \/ MarkSentCommit(r) \/ RevokeCommit(r)
             \/ JoinCommit(r) \/ ApproveCommit(r) \/ Abort(r)
      PROVE  StartsFromDraft'
  BY <1>3, <1>4
     DEF UpdateDraftCommit, StartAgreementCommit, CreateVersionCommit, CreateInvitationCommit,
         MarkSentCommit, RevokeCommit, JoinCommit, ApproveCommit, Abort
<1>5. CASE \E i \in InvitationIds : Expire(i)
  BY <1>5 DEF Expire, StartsFromDraft
<1>6. CASE ReconcileDocumentStage
  BY <1>1, <1>6 DEF ReconcileDocumentStage, StartsFromDraft, Request
<1>7. CASE UNCHANGED vars
  BY <1>7 DEF vars, StartsFromDraft
<1> QED
  BY <1>2, <1>4, <1>5, <1>6, <1>7 DEF Next, Step

(* The two writes no guard compares with what the deal has become.         *)
UnguardedWrite == \E r \in Requests : MarkSentCommit(r) \/ RevokeCommit(r)

LEMMA GuardedStepsFollowGraph ==
  ASSUME IInv, StartsFromDraft, [Next]_vars, ~UnguardedWrite
  PROVE  status' \in Reachable(status)
<1>1. TypeOK /\ status \in DealStatus
  BY DEF IInv, TypeOK
<1>2. status \in Reachable(status) /\ "TERMS_REVIEW" \in Reachable(status)
  BY <1>1, WalksOfTheHandlers
<1>3. ASSUME NEW r \in Requests,
             \/ UpdateDraftRead(r) \/ StartAgreementRead(r) \/ CreateVersionRead(r)
             \/ CreateInvitationRead(r) \/ MarkSentRead(r) \/ RevokeRead(r)
             \/ JoinRead(r) \/ ApproveRead(r) \/ UpdateDraftCommit(r) \/ Abort(r)
      PROVE  status' = status
  BY <1>3
     DEF UpdateDraftRead, StartAgreementRead, CreateVersionRead, CreateInvitationRead,
         MarkSentRead, RevokeRead, ReadActiveInvitation, JoinRead, ApproveRead, Begin,
         UpdateDraftCommit, Abort
<1>4. ASSUME NEW r \in Requests, StartAgreementCommit(r)
      PROVE  status' \in Reachable(status)
  <2>1. Lasting(request[r])
    BY DEF IInv, ReadsStayTrue
  <2>2. status' = "TERMS_REVIEW"
    BY <1>4, <2>1 DEF StartAgreementCommit, Lasting, DocumentStage
  <2> QED
    BY <1>2, <2>2
<1>5. ASSUME NEW r \in Requests, CreateVersionCommit(r)
      PROVE  status' \in Reachable(status)
  <2>1. Lasting(request[r])
    BY DEF IInv, ReadsStayTrue
  <2>2. status' = "TERMS_REVIEW" \/ status' = status
    BY <1>5, <2>1
       DEF CreateVersionCommit, Current, Lasting, DocumentStage, StatusAfterRevision
  <2> QED
    BY <1>2, <2>2
<1>6. ASSUME NEW r \in Requests, CreateInvitationCommit(r)
      PROVE  status' \in Reachable(status)
  <2>1. \/ status' = status
        \/ status \in {"COLLECTING_DATA", "INVITED"} /\ status' = "INVITATION_READY"
    BY <1>6 DEF CreateInvitationCommit, Current
  <2> QED
    BY <1>2, <2>1, WalksOfTheHandlers
<1>7. ASSUME NEW r \in Requests, JoinCommit(r)
      PROVE  status' \in Reachable(status)
  <2>1. status' = status \/ status' = "TERMS_REVIEW"
    BY <1>7 DEF JoinCommit, DocumentStage
  <2> QED
    BY <1>2, <2>1
<1>8. ASSUME NEW r \in Requests, ApproveCommit(r)
      PROVE  status' \in Reachable(status)
  <2>1. Lasting(request[r])
    BY DEF IInv, ReadsStayTrue
  <2>2. status = "TERMS_REVIEW" /\ status' \in {status, "READY_TO_SIGN"}
    BY <1>8, <2>1 DEF ApproveCommit, Current, Lasting
  <2> QED
    BY <1>2, <2>2, WalksOfTheHandlers
<1>9. CASE ReconcileDocumentStage
  <2>1. Joined
    BY <1>9 DEF ReconcileDocumentStage, IInv, Admission, PreJoin, DocumentStages
  <2>2. status' = "TERMS_REVIEW"
    BY <1>9, <2>1 DEF ReconcileDocumentStage, DocumentStage
  <2> QED
    BY <1>2, <2>2
<1>10. CASE (\E i \in InvitationIds : Expire(i)) \/ UNCHANGED vars
  BY <1>2, <1>10 DEF Expire, vars
<1> QED
  BY <1>2, <1>3, <1>4, <1>5, <1>6, <1>7, <1>8, <1>9, <1>10 DEF Next, Step, UnguardedWrite

(* For every deal, stored by this release or an earlier one: only the      *)
(* unguarded writes of markSent and revoke leave the transition graph.     *)
THEOREM OnlyUnguardedWritesLeaveTheGraph ==
  Spec => [][UnguardedWrite \/ status' \in Reachable(status)]_vars
<1>1. Init => StartsFromDraft
  BY DEF Init, StartsFromDraft, Idle
<1>2. IInv /\ StartsFromDraft /\ [Next]_vars => StartsFromDraft'
  BY StartsFromDraftStep DEF IInv
<1>3. IInv /\ StartsFromDraft /\ [Next]_vars
        => [UnguardedWrite \/ status' \in Reachable(status)]_vars
  BY GuardedStepsFollowGraph
<1> QED
  BY <1>1, <1>2, <1>3, Invariance, PTL DEF Spec

(* A new deal with one invitation: no stage but those before the join and  *)
(* after the start, so neither unguarded write finds a deal it can break.  *)
NewDeal ==
  /\ status \in {"DRAFT", "TERMS_REVIEW", "READY_TO_SIGN"}
  /\ ~Joined => status = "DRAFT"
  /\ \A r \in Requests : /\ request[r].op # "markSent"
                         /\ request[r].op = "revoke" => request[r].status = "DRAFT"

LEMMA NewDealUnguarded ==
  ASSUME MaxInvitations = 1, IInv, NewDeal, UnguardedWrite
  PROVE  status = "DRAFT" /\ status' = "DRAFT" /\ UNCHANGED counterparty
<1>1. PICK r \in Requests : RevokeCommit(r)
  BY DEF UnguardedWrite, NewDeal, MarkSentCommit
<1>2. InvitationIds = {1}
  BY DEF InvitationIds
<1>3. request[r].inv = 1 /\ invitation[1] # "ACCEPTED"
  BY <1>1, <1>2 DEF RevokeCommit, Revocable, IInv, TypeOK, Request
<1>4. ~Joined /\ status = "DRAFT"
  BY <1>2, <1>3 DEF IInv, Admission, NewDeal
<1>5. request[r].status = "DRAFT"
  BY <1>1 DEF NewDeal, RevokeCommit
<1> QED
  BY <1>1, <1>4, <1>5 DEF RevokeCommit

LEMMA NewDealStep ==
  ASSUME MaxInvitations = 1, IInv, NewDeal, [Next]_vars
  PROVE  NewDeal'
<1>1. request \in [Requests -> Request] /\ TypeOK
  BY DEF IInv, TypeOK
<1>2. InvitationIds = {1}
  BY DEF InvitationIds
<1>3. ASSUME NEW r \in Requests,
             \/ UpdateDraftRead(r) \/ StartAgreementRead(r) \/ CreateVersionRead(r)
             \/ CreateInvitationRead(r) \/ MarkSentRead(r) \/ RevokeRead(r)
             \/ JoinRead(r) \/ ApproveRead(r)
      PROVE  NewDeal'
  <2>1. RevokeRead(r) => status = "DRAFT"
    BY <1>1, <1>2 DEF RevokeRead, ReadActiveInvitation, IInv, TypeOK, Admission, NewDeal
  <2>2. /\ UNCHANGED <<status, counterparty>>
        /\ \A q \in Requests \ {r} : request'[q] = request[q]
    BY <1>1, <1>3
       DEF UpdateDraftRead, StartAgreementRead, CreateVersionRead, CreateInvitationRead,
           MarkSentRead, RevokeRead, ReadActiveInvitation, JoinRead, ApproveRead, Begin
  <2>3. /\ request'[r].op # "markSent"
        /\ request'[r].op = "revoke" => request'[r].status = "DRAFT"
    <3>1. CASE UpdateDraftRead(r)
      BY <1>1, <2>1, <3>1 DEF UpdateDraftRead, Begin, Idle, NewDeal
    <3>2. CASE StartAgreementRead(r)
      BY <1>1, <2>1, <3>2 DEF StartAgreementRead, Begin, Idle, NewDeal
    <3>3. CASE CreateVersionRead(r)
      BY <1>1, <2>1, <3>3 DEF CreateVersionRead, Begin, Idle, NewDeal
    <3>4. CASE CreateInvitationRead(r)
      BY <1>1, <2>1, <3>4 DEF CreateInvitationRead, Begin, Idle, NewDeal
    <3>5. CASE MarkSentRead(r)
      BY <1>1, <2>1, <3>5 DEF MarkSentRead, ReadActiveInvitation, Begin, Idle, NewDeal
    <3>6. CASE RevokeRead(r)
      BY <1>1, <2>1, <3>6 DEF RevokeRead, ReadActiveInvitation, Begin, Idle, NewDeal
    <3>7. CASE JoinRead(r)
      BY <1>1, <2>1, <3>7 DEF JoinRead, Begin, Idle, NewDeal
    <3>8. CASE ApproveRead(r)
      BY <1>1, <2>1, <3>8 DEF ApproveRead, Begin, Idle, NewDeal
    <3> QED
      BY <1>3, <3>1, <3>2, <3>3, <3>4, <3>5, <3>6, <3>7, <3>8
  <2> QED
    BY <2>2, <2>3 DEF NewDeal, Joined
<1>4. ASSUME NEW r \in Requests,
             \/ UpdateDraftCommit(r) \/ StartAgreementCommit(r) \/ CreateVersionCommit(r)
             \/ CreateInvitationCommit(r) \/ MarkSentCommit(r) \/ RevokeCommit(r)
             \/ JoinCommit(r) \/ ApproveCommit(r) \/ Abort(r)
      PROVE  NewDeal'
  <2>1. \A q \in Requests : /\ request'[q].op # "markSent"
                            /\ request'[q].op = "revoke" => request'[q].status = "DRAFT"
    <3>1. EndBumping(r) \/ EndQuietly(r)
      BY <1>4
         DEF UpdateDraftCommit, StartAgreementCommit, CreateVersionCommit,
             CreateInvitationCommit, MarkSentCommit, RevokeCommit, JoinCommit,
             ApproveCommit, Abort
    <3> QED
      BY <1>1, <3>1 DEF NewDeal, EndBumping, EndQuietly, Idle, Request
  <2>2. Lasting(request[r])
    BY DEF IInv, ReadsStayTrue
  <2>3. /\ status' \in {"DRAFT", "TERMS_REVIEW", "READY_TO_SIGN"}
        /\ ~Joined' => status' = "DRAFT"
    <3>1. CASE UpdateDraftCommit(r) \/ Abort(r)
      BY <3>1 DEF UpdateDraftCommit, Abort, NewDeal, Joined
    <3>2. CASE StartAgreementCommit(r)
      BY <2>2, <3>2 DEF StartAgreementCommit, DocumentStage, Lasting, Joined
    <3>3. CASE CreateVersionCommit(r)
      BY <2>2, <3>3
         DEF CreateVersionCommit, Current, DocumentStage, StatusAfterRevision, Lasting,
             Joined, NewDeal
    <3>4. CASE CreateInvitationCommit(r)
      BY <3>4 DEF CreateInvitationCommit, Current, NewDeal, Joined
    <3>5. CASE MarkSentCommit(r) \/ RevokeCommit(r)
      BY <3>5, NewDealUnguarded DEF UnguardedWrite
    <3>6. CASE JoinCommit(r)
      BY <3>6 DEF JoinCommit, NewDeal, PreJoin
    <3>7. CASE ApproveCommit(r)
      BY <2>2, <3>7 DEF ApproveCommit, Current, Lasting, NewDeal, Joined
    <3> QED
      BY <1>4, <3>1, <3>2, <3>3, <3>4, <3>5, <3>6, <3>7
  <2> QED
    BY <2>1, <2>3 DEF NewDeal
<1>5. CASE \E i \in InvitationIds : Expire(i)
  BY <1>5 DEF Expire, NewDeal, Joined
<1>6. CASE UNCHANGED vars
  BY <1>6 DEF vars, NewDeal, Joined
<1> QED
  BY <1>3, <1>4, <1>5, <1>6 DEF Next, Step, ReconcileDocumentStage, NewDeal, DocumentStages

(* A deal made by this release whose one invitation is never replaced: no  *)
(* write, however late, takes it off the graph.  Both hypotheses are       *)
(* needed: the runs StaleSentMark and StaleRevoke are the counterexamples. *)
THEOREM NewDealsFollowTheGraph ==
  ASSUME LegacyStatuses = {}, MaxInvitations = 1
  PROVE  Spec => StatusFollowsGraph
<1>1. Init => NewDeal
  BY DEF Init, NewDeal, Joined, Idle, DocumentStages
<1>2. IInv /\ NewDeal /\ [Next]_vars => NewDeal'
  BY NewDealStep
<1>3. ASSUME IInv, NewDeal, [UnguardedWrite \/ status' \in Reachable(status)]_vars
      PROVE  [status' \in Reachable(status)]_vars
  <2>1. "DRAFT" \in Reachable("DRAFT")
    BY WalksOfTheHandlers DEF DealStatus
  <2>2. UnguardedWrite => status = "DRAFT" /\ status' = "DRAFT"
    BY <1>3, NewDealUnguarded
  <2> QED
    BY <1>3, <2>1, <2>2
<1> QED
  BY <1>1, <1>2, <1>3, Invariance, OnlyUnguardedWritesLeaveTheGraph, PTL
     DEF Spec, StatusFollowsGraph
=============================================================================
