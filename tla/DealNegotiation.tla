-------------------------- MODULE DealNegotiation --------------------------
(***************************************************************************)
(* One deal from its draft to READY_TO_SIGN: invitations, the join of the  *)
(* counterparty, the start of the agreement, new versions, approvals and   *)
(* the freeze of the approved version (apps/api/src/deals).                *)
(*                                                                         *)
(* Every handler reads the deal outside a transaction, checks what it read *)
(* and then opens one transaction that writes.  A request slot holds what  *)
(* a handler read between the two steps, so the steps of concurrent        *)
(* requests interleave.  A transaction is one step: its statements take    *)
(* the row locks of the invitation or of the deal, and the uniqueness and  *)
(* CHECK constraints of the schema decide between those that overlap.      *)
(*                                                                         *)
(* The optimistic lock `updatedAt = expectedUpdatedAt' is the field        *)
(* `fresh' of a request: TRUE until a committed step writes updatedAt.     *)
(***************************************************************************)
EXTENDS Integers, FiniteSets

CONSTANTS
  Requests,        \* slots for HTTP requests in flight (bounds concurrency)
  Guests,          \* users who hold an invitation link and may join
  Nobody,          \* no counterparty yet
  Texts,           \* contract texts (terms and contractDraft of a version)
  NoText,          \* contractDraft / frozenSnapshot is null
  MaxVersions,     \* bound on deal_versions rows
  MaxInvitations,  \* bound on deal_invitations rows
  LegacyStatuses   \* statuses, besides DRAFT, that stored deals start in

Roles == {"INITIATOR", "COUNTERPARTY"}

DealStatus == {"DRAFT", "COLLECTING_DATA", "INVITATION_READY", "INVITED",
               "COUNTERPARTY_JOINED", "DOCUMENTS_PENDING", "DOCUMENTS_REVIEW",
               "TERMS_REVIEW", "READY_TO_SIGN"}

PreJoin == {"DRAFT", "COLLECTING_DATA", "INVITATION_READY", "INVITED"}
DocumentStages == {"COUNTERPARTY_JOINED", "DOCUMENTS_PENDING", "DOCUMENTS_REVIEW"}

ASSUME ConstantsAssumption ==
  /\ Nobody \notin Guests
  /\ NoText \notin Texts
  /\ MaxVersions \in Nat \ {0}
  /\ MaxInvitations \in Nat \ {0}
  /\ LegacyStatuses \subseteq (PreJoin \cup DocumentStages) \ {"DRAFT"}

Versions == 1..MaxVersions
InvitationIds == 1..MaxInvitations
InvitationState == {"NONE", "ACTIVE", "EXPIRED", "REVOKED", "ACCEPTED"}

VARIABLES
  status,        \* deals.status
  counterparty,  \* user of the COUNTERPARTY row of deal_parties
  invitation,    \* state of every deal_invitations row, by creation order
  issued,        \* number of invitations created
  version,       \* number of the current (highest) deal_versions row
  content,       \* text of every version
  frozen,        \* frozenSnapshot of every version
  approved,      \* deal_approvals rows in status APPROVED
  request        \* what every request in flight has read

vars == <<status, counterparty, invitation, issued, version, content, frozen,
          approved, request>>

Operations == {"idle", "updateDraft", "startAgreement", "createVersion",
               "createInvitation", "markSent", "revoke", "join", "approve"}

(* What a handler keeps from its read; a field an operation does not use   *)
(* holds its value in Idle.                                                *)
Request ==
  [op: Operations,
   status: DealStatus,               \* record.status
   fresh: BOOLEAN,                   \* updatedAt is still the one it read
   version: Versions,                \* id of the version it read
   text: Texts \cup {NoText},        \* text to write, or text that was read
   inv: InvitationIds,               \* invitation it addresses
   replace: BOOLEAN,                 \* input.replaceActive
   guest: Guests \cup {Nobody},      \* the joining user
   role: Roles,                      \* the approving party
   approvals: SUBSET Roles,          \* version.approvals it read
   frozen: BOOLEAN]                  \* version.frozenAt it read was set

Idle == [op |-> "idle", status |-> "DRAFT", fresh |-> FALSE, version |-> 1,
         text |-> NoText, inv |-> 1, replace |-> FALSE, guest |-> Nobody,
         role |-> "INITIATOR", approvals |-> {}, frozen |-> FALSE]

Approval == [version: Versions, role: Roles, text: Texts \cup {NoText}]

ApprovedBy(v) == {a.role : a \in {b \in approved : b.version = v}}
Joined == counterparty # Nobody

-----------------------------------------------------------------------------
(* Deals the table may hold: a new draft, or a deal that an earlier        *)
(* release left in a status this release still handles.                    *)

Init ==
  /\ status \in {"DRAFT"} \cup LegacyStatuses
  /\ counterparty \in Guests \cup {Nobody}
  /\ (counterparty # Nobody) <=> (status \in DocumentStages)
  /\ issued = (IF status \in {"DRAFT", "COLLECTING_DATA"} THEN 0 ELSE 1)
  /\ invitation = [i \in InvitationIds |->
                     IF i > issued THEN "NONE"
                     ELSE IF status \in DocumentStages THEN "ACCEPTED" ELSE "ACTIVE"]
  /\ version = 1
  /\ \E t \in Texts \cup {NoText} :
       /\ (status # "DRAFT") => (t # NoText)
       /\ content = [v \in Versions |-> IF v = 1 THEN t ELSE NoText]
  /\ frozen = [v \in Versions |-> NoText]
  /\ approved = {}
  /\ request = [r \in Requests |-> Idle]

-----------------------------------------------------------------------------
(* Requests: a read step fills a slot, the transaction empties it.         *)

Begin(r, snapshot) ==
  /\ request[r] = Idle
  /\ request' = [request EXCEPT ![r] = snapshot]
  /\ UNCHANGED <<status, counterparty, invitation, issued, version, content,
                 frozen, approved>>

(* The transaction of r committed and wrote updatedAt.                     *)
EndBumping(r) ==
  request' = [q \in Requests |->
                IF q = r THEN Idle ELSE [request[q] EXCEPT !.fresh = FALSE]]

(* The transaction of r committed and left updatedAt alone.                *)
EndQuietly(r) == request' = [request EXCEPT ![r] = Idle]

(* A transaction that finds its guard false, violates a constraint, or     *)
(* dies with its process writes nothing.                                   *)
Abort(r) ==
  /\ request[r] # Idle
  /\ EndQuietly(r)
  /\ UNCHANGED <<status, counterparty, invitation, issued, version, content,
                 frozen, approved>>

(* The guard of the guarded updates: same status, same updatedAt.          *)
CurrentIgnoringStamp(q) == status = q.status
Current(q) == status = q.status /\ q.fresh

(* loadDocumentStage: uploads gate nothing, only the second party does.    *)
DocumentStageOldFlow(joined) == IF joined THEN "CONTRACT_DRAFT" ELSE "DOCUMENTS_PENDING"
DocumentStage(joined) == IF joined THEN "TERMS_REVIEW" ELSE "DOCUMENTS_PENDING"

-----------------------------------------------------------------------------
(* Drafting                                                                *)

UpdateDraftRead(r) ==
  /\ status = "DRAFT"
  /\ \E t \in Texts \cup {NoText} :
       Begin(r, [Idle EXCEPT !.op = "updateDraft", !.status = status,
                             !.fresh = TRUE, !.version = version, !.text = t])

(* The trigger deal_versions_prevent_frozen_mutation aborts a write to a   *)
(* frozen version.                                                         *)
WritableWithoutTrigger(v) == v = version
Writable(v) == frozen[v] = NoText

UpdateDraftCommit(r) ==
  LET q == request[r] IN
  /\ q.op = "updateDraft"
  /\ Current(q)
  /\ Writable(q.version)
  /\ content' = [content EXCEPT ![q.version] = q.text]
  /\ EndBumping(r)
  /\ UNCHANGED <<status, counterparty, invitation, issued, version, frozen, approved>>

(* findCompletedGeneration wants both parties with complete profiles, and  *)
(* the stored text must match the generation it names.                     *)
StartAgreementRead(r) ==
  /\ status = "DRAFT"
  /\ Joined
  /\ content[version] # NoText
  /\ Begin(r, [Idle EXCEPT !.op = "startAgreement", !.status = status,
                           !.fresh = TRUE, !.version = version])

StartAgreementCommit(r) ==
  LET q == request[r] IN
  /\ q.op = "startAgreement"
  /\ Current(q)
  /\ status' = IF Joined THEN DocumentStage(Joined)
               ELSE IF \E i \in InvitationIds : invitation[i] = "ACTIVE"
                    THEN "INVITATION_READY" ELSE "COLLECTING_DATA"
  /\ EndBumping(r)
  /\ UNCHANGED <<counterparty, invitation, issued, version, content, frozen, approved>>

-----------------------------------------------------------------------------
(* New versions: createVersion (a new generation) and editContract (manual *)
(* text) differ only in where the text comes from.                         *)

CreateVersionRead(r) ==
  /\ status # "DRAFT"
  /\ Joined
  /\ content[version] # NoText
  /\ \E t \in Texts :
       Begin(r, [Idle EXCEPT !.op = "createVersion", !.status = status,
                             !.fresh = TRUE, !.version = version, !.text = t])

(* Every APPROVED approval of the deal becomes SUPERSEDED.                 *)
ApprovalsKeptByRevision == {a \in approved : a.role = "COUNTERPARTY"}
ApprovalsAfterRevision == {}

StatusKeptByRevision(s) == s
StatusAfterRevision(s) == IF s = "READY_TO_SIGN" THEN "TERMS_REVIEW" ELSE s

CreateVersionCommit(r) ==
  LET q == request[r]
      next == StatusAfterRevision(q.status)
  IN
  /\ q.op = "createVersion"
  /\ Current(q)
  /\ q.version < MaxVersions
  /\ version' = q.version + 1
  /\ content' = [content EXCEPT ![q.version + 1] = q.text]
  /\ approved' = ApprovalsAfterRevision
  /\ status' = IF next \in DocumentStages \cup {"TERMS_REVIEW"}
               THEN DocumentStage(Joined) ELSE next
  /\ EndBumping(r)
  /\ UNCHANGED <<counterparty, invitation, issued, frozen>>

-----------------------------------------------------------------------------
(* Invitations                                                             *)

(* Time passes the expiry of an invitation that nobody used.               *)
Expire(i) ==
  /\ invitation[i] = "ACTIVE"
  /\ invitation' = [invitation EXCEPT ![i] = "EXPIRED"]
  /\ UNCHANGED <<status, counterparty, issued, version, content, frozen,
                 approved, request>>

CreateInvitationRead(r) ==
  /\ ~Joined
  /\ status \in PreJoin
  /\ \E replace \in BOOLEAN :
       Begin(r, [Idle EXCEPT !.op = "createInvitation", !.status = status,
                             !.fresh = TRUE, !.version = version, !.replace = replace])

(* Revokes what expired and, if asked to, the active invitation; a DRAFT   *)
(* keeps its updatedAt.                                                    *)
CreateInvitationCommit(r) ==
  LET q == request[r]
      open == {i \in InvitationIds : invitation[i] \in {"ACTIVE", "EXPIRED"}}
  IN
  /\ q.op = "createInvitation"
  /\ (\E i \in InvitationIds : invitation[i] = "ACTIVE") => q.replace
  /\ Current(q)
  /\ ~Joined
  /\ issued < MaxInvitations
  /\ issued' = issued + 1
  /\ invitation' = [i \in InvitationIds |->
                      IF i = issued + 1 THEN "ACTIVE"
                      ELSE IF i \in open THEN "REVOKED" ELSE invitation[i]]
  /\ status' = IF q.status \in {"COLLECTING_DATA", "INVITED"}
               THEN "INVITATION_READY" ELSE q.status
  /\ IF q.status = "DRAFT" THEN EndQuietly(r) ELSE EndBumping(r)
  /\ UNCHANGED <<counterparty, version, content, frozen, approved>>

(* Reads the newest invitation, which must be the active one it names.     *)
ReadActiveInvitation(r, op) ==
  /\ issued > 0
  /\ invitation[issued] = "ACTIVE"
  /\ Begin(r, [Idle EXCEPT !.op = op, !.status = status, !.inv = issued])

(* sentAt is not kept: only the read that goes on to write the status      *)
(* changes the deal.                                                       *)
MarkSentRead(r) == status = "INVITATION_READY" /\ ReadActiveInvitation(r, "markSent")

(* deal.update by id alone: no guard on what the row holds by now.         *)
MarkSentCommit(r) ==
  /\ request[r].op = "markSent"
  /\ status' = "INVITED"
  /\ EndBumping(r)
  /\ UNCHANGED <<counterparty, invitation, issued, version, content, frozen, approved>>

RevokeRead(r) == ReadActiveInvitation(r, "revoke")

(* Writes back the status it read.  The CHECK constraint on the invitation *)
(* row, not a guard, keeps it from revoking an accepted one.               *)
RevocableWithoutCheck(i) == invitation[i] # "NONE"
Revocable(i) == invitation[i] # "ACCEPTED"

RevokeCommit(r) ==
  LET q == request[r] IN
  /\ q.op = "revoke"
  /\ Revocable(q.inv)
  /\ invitation' = [invitation EXCEPT ![q.inv] = "REVOKED"]
  /\ status' = IF q.status = "INVITED" THEN "INVITATION_READY" ELSE q.status
  /\ EndBumping(r)
  /\ UNCHANGED <<counterparty, issued, version, content, frozen, approved>>

-----------------------------------------------------------------------------
(* Joining                                                                 *)

JoinRead(r) ==
  \E i \in InvitationIds, g \in Guests :
    /\ invitation[i] = "ACTIVE"
    /\ Begin(r, [Idle EXCEPT !.op = "join", !.status = status, !.inv = i, !.guest = g])

(* Accepts the invitation once, inserts the unique COUNTERPARTY row and    *)
(* moves the deal on, unless it is still a draft: then updatedAt stays.    *)
JoinCommit(r) ==
  LET q == request[r] IN
  /\ q.op = "join"
  /\ invitation[q.inv] = "ACTIVE"
  /\ ~Joined
  /\ q.status \in PreJoin
  /\ status = q.status
  /\ invitation' = [invitation EXCEPT ![q.inv] = "ACCEPTED"]
  /\ counterparty' = q.guest
  /\ status' = IF q.status = "DRAFT" THEN "DRAFT" ELSE DocumentStage(TRUE)
  /\ IF q.status = "DRAFT" THEN EndQuietly(r) ELSE EndBumping(r)
  /\ UNCHANGED <<issued, version, content, frozen, approved>>

(* reconcileDocumentStage, on every workspace read, before every approve   *)
(* and (for two of the stages) after an upload.                            *)
ReconcileDocumentStage ==
  /\ status \in DocumentStages
  /\ DocumentStage(Joined) # status
  /\ status' = DocumentStage(Joined)
  /\ request' = [q \in Requests |-> [request[q] EXCEPT !.fresh = FALSE]]
  /\ UNCHANGED <<counterparty, invitation, issued, version, content, frozen, approved>>

-----------------------------------------------------------------------------
(* Approving                                                               *)

(* A party that already approved this version gets its approval back.      *)
ApproveRead(r) ==
  \E role \in Roles :
    /\ status = "TERMS_REVIEW"
    /\ role = "COUNTERPARTY" => Joined
    /\ content[version] # NoText
    /\ role \notin ApprovedBy(version)
    /\ Begin(r, [Idle EXCEPT !.op = "approve", !.status = status, !.fresh = TRUE,
                             !.version = version, !.role = role,
                             !.text = content[version],
                             !.guest = counterparty,
                             !.approvals = ApprovedBy(version),
                             !.frozen = (frozen[version] # NoText)])

(* Counts the approvals it read; the first approver freezes the text it    *)
(* read; a deal read with one party throws after the guarded update.       *)
ApproveCommit(r) ==
  LET q == request[r] IN
  /\ q.op = "approve"
  /\ Current(q)
  /\ q.guest # Nobody
  /\ status' = IF Cardinality(q.approvals) + 1 = Cardinality(Roles)
               THEN "READY_TO_SIGN" ELSE q.status
  /\ approved' = approved \cup {[version |-> q.version, role |-> q.role, text |-> q.text]}
  /\ IF q.frozen THEN UNCHANGED frozen
     ELSE /\ frozen[q.version] = NoText
          /\ frozen' = [frozen EXCEPT ![q.version] = q.text]
  /\ EndBumping(r)
  /\ UNCHANGED <<counterparty, invitation, issued, version, content>>

-----------------------------------------------------------------------------

Step(r) ==
  \/ UpdateDraftRead(r) \/ UpdateDraftCommit(r)
  \/ StartAgreementRead(r) \/ StartAgreementCommit(r)
  \/ CreateVersionRead(r) \/ CreateVersionCommit(r)
  \/ CreateInvitationRead(r) \/ CreateInvitationCommit(r)
  \/ MarkSentRead(r) \/ MarkSentCommit(r)
  \/ RevokeRead(r) \/ RevokeCommit(r)
  \/ JoinRead(r) \/ JoinCommit(r)
  \/ ApproveRead(r) \/ ApproveCommit(r)
  \/ Abort(r)

Next ==
  \/ \E r \in Requests : Step(r)
  \/ \E i \in InvitationIds : Expire(i)
  \/ ReconcileDocumentStage

Spec == Init /\ [][Next]_vars

-----------------------------------------------------------------------------
(* The type invariant.                                                     *)
TypeOK ==
  /\ status \in DealStatus
  /\ counterparty \in Guests \cup {Nobody}
  /\ invitation \in [InvitationIds -> InvitationState]
  /\ issued \in 0..MaxInvitations
  /\ version \in Versions
  /\ content \in [Versions -> Texts \cup {NoText}]
  /\ frozen \in [Versions -> Texts \cup {NoText}]
  /\ approved \in SUBSET Approval
  /\ request \in [Requests -> Request]

(* A deal is READY_TO_SIGN only when both parties hold an approval of the  *)
(* current version, whatever stale counts the two approve requests used.   *)
ReadyMeansUnanimous ==
  status = "READY_TO_SIGN" => ApprovedBy(version) = Roles

(* Approvals never outlive the version they were given to, even when an    *)
(* approve and a createVersion overlap.                                    *)
ApprovalsOfCurrentVersion == \A a \in approved : a.version = version

(* What each party approved is what the snapshot froze and what the        *)
(* version still says: no draft save or second freeze slips in between.    *)
ApprovedTextIsFrozen ==
  \A a \in approved : /\ a.text # NoText
                      /\ frozen[a.version] = a.text
                      /\ content[a.version] = a.text

(* One link admits one person: at most one invitation is open, none is     *)
(* once the counterparty joined, and exactly then one was accepted.        *)
OneAdmission ==
  LET inState(s) == {i \in InvitationIds : invitation[i] = s} IN
  /\ Cardinality(inState("ACTIVE")) + Cardinality(inState("ACCEPTED")) <= 1
  /\ Joined <=> inState("ACCEPTED") # {}

(* The negotiation implements the abstract agreement: READY_TO_SIGN stands *)
(* for `agreed', the frozen snapshot for `sealed'.                         *)
A == INSTANCE Agreement WITH
       Parties <- Roles,
       text <- content[version],
       sealed <- frozen[version] # NoText,
       approvers <- ApprovedBy(version),
       agreed <- status = "READY_TO_SIGN"

ImplementsAgreement == A!Spec

(* transitionGraph of the state machine service.                           *)
TransitionGraph == [s \in DealStatus \cup {"CONTRACT_DRAFT"} |->
  CASE s = "DRAFT" -> {"COLLECTING_DATA"}
    [] s = "COLLECTING_DATA" -> {"INVITATION_READY"}
    [] s = "INVITATION_READY" -> {"COLLECTING_DATA", "INVITED"}
    [] s = "INVITED" -> {"INVITATION_READY", "COUNTERPARTY_JOINED"}
    [] s = "COUNTERPARTY_JOINED" -> {"DOCUMENTS_PENDING", "TERMS_REVIEW"}
    [] s = "DOCUMENTS_PENDING" -> {"DOCUMENTS_REVIEW"}
    [] s = "DOCUMENTS_REVIEW" -> {"DOCUMENTS_PENDING", "CONTRACT_DRAFT"}
    [] s = "CONTRACT_DRAFT" -> {"DOCUMENTS_REVIEW", "TERMS_REVIEW"}
    [] s = "TERMS_REVIEW" -> {"CONTRACT_DRAFT", "READY_TO_SIGN"}
    [] s = "READY_TO_SIGN" -> {"TERMS_REVIEW"}]

(* One handler may take several transitions of the graph in one write.     *)
Beyond(S) == S \cup UNION {TransitionGraph[s] : s \in S}
Reachable(s) == Beyond(Beyond(Beyond(Beyond(Beyond({s})))))

(* No write moves a deal to a status the transition graph does not lead    *)
(* to from where the deal is: a joined deal is never INVITED again.        *)
StatusFollowsGraph == [][status' \in Reachable(status)]_vars

(* Once the agreement started the deal is not a draft again.               *)
DraftIsNotReentered == [][status # "DRAFT" => status' # "DRAFT"]_vars
=============================================================================
