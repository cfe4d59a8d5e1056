------------------------------ MODULE Signing ------------------------------
(***************************************************************************)
(* Signing of the frozen current version and completion of the deal        *)
(* (apps/api/src/signing/signing.service.ts, artifacts/deal-artifacts      *)
(* .service.ts).                                                           *)
(*                                                                         *)
(* A confirm request loads the deal, verifies the one-time code, and then  *)
(* runs a READ COMMITTED transaction: it inserts the signature and counts  *)
(* the signatures it can see, and only later locks the deal row with an    *)
(* update guarded by status alone.  The insert and the count are therefore *)
(* one step, the guarded update with the commit another, and a signature   *)
(* is invisible to the other transactions between them.                    *)
(*                                                                         *)
(* DealNegotiation is reduced to the two steps that matter here: a new     *)
(* version reopens the review, and full approval freezes it for signing.   *)
(* The two unguarded status writes of the invitations, markSent and revoke *)
(* (DealNegotiation, runs StaleSentMark and StaleRevoke), are left out:    *)
(* what is shown here of a status holds while none of them is outstanding, *)
(* one that read the deal before its second party joined and writes only   *)
(* when it is being signed.                                                *)
(***************************************************************************)
EXTENDS Integers, FiniteSets

CONSTANTS
  Requests,      \* slots for confirm requests in flight
  Parties,       \* the parties of the deal
  MaxVersions    \* bound on deal_versions rows

ASSUME SigningAssumption ==
  /\ IsFiniteSet(Parties)
  /\ Parties # {}
  /\ MaxVersions \in Nat \ {0}

Versions == 1..MaxVersions

DealStatus == {"TERMS_REVIEW", "READY_TO_SIGN", "SIGNED_BY_ONE", "SIGNED", "COMPLETED"}
SigningOpen == DealStatus \ {"TERMS_REVIEW"}

VARIABLES
  status,      \* deals.status
  version,     \* number of the current version
  signatures,  \* committed deal_signatures rows
  artifacts,   \* deal_artifacts rows
  outbox,      \* artifact_deliveries rows
  request      \* confirm requests in flight

vars == <<status, version, signatures, artifacts, outbox, request>>

ArtifactTypes == {"FINAL_PDF", "EVIDENCE_ZIP"}

Signature == [version: Versions, party: Parties]
Artifact == [version: Versions, type: ArtifactTypes]
Delivery == [artifact: Artifact, party: Parties]

(* loaded: context read; verified: code accepted; inserted: signature      *)
(* written and counted, not committed; confirmed: transaction over;        *)
(* completing: completeDeal called; rendered: the PDF is there; packaged:  *)
(* the evidence package is there.                                          *)
Phases == {"idle", "loaded", "verified", "inserted", "confirmed", "completing",
           "rendered", "packaged"}

Request == [phase: Phases, version: Versions, party: Parties,
            total: 0..Cardinality(Parties)]

SignersOf(v) == {s.party : s \in {t \in signatures : t.version = v}}
FullySignedDeal(v) == {s.party : s \in signatures} = Parties
FullySigned(v) == SignersOf(v) = Parties

Init ==
  /\ status = "READY_TO_SIGN"
  /\ version = 1
  /\ signatures = {}
  /\ artifacts = {}
  /\ outbox = {}
  /\ request \in [Requests -> [phase: {"idle"}, version: {1}, party: Parties, total: {0}]]

-----------------------------------------------------------------------------
(* The negotiation, seen from signing                                      *)

(* createVersion is guarded by the status and updatedAt it read, so its    *)
(* commit is one step; READY_TO_SIGN goes back to TERMS_REVIEW.            *)
RevisableOnceSigned == status \in {"TERMS_REVIEW", "READY_TO_SIGN", "SIGNED_BY_ONE"}
Revisable == status \in {"TERMS_REVIEW", "READY_TO_SIGN"}

NewVersion ==
  /\ Revisable
  /\ version < MaxVersions
  /\ version' = version + 1
  /\ status' = "TERMS_REVIEW"
  /\ UNCHANGED <<signatures, artifacts, outbox, request>>

(* The second approval of the current version, which is frozen by then.    *)
AllApproved ==
  /\ status = "TERMS_REVIEW"
  /\ status' = "READY_TO_SIGN"
  /\ UNCHANGED <<version, signatures, artifacts, outbox, request>>

-----------------------------------------------------------------------------
(* Confirming                                                              *)

Advance(r, phase) == request' = [request EXCEPT ![r].phase = phase]

(* loadContext, requireFrozenVersion, assertSigningOpen and the branch for *)
(* a party that has signed: it retries the completion.                     *)
Load(r) ==
  /\ request[r].phase = "idle"
  /\ status \in SigningOpen
  /\ \E p \in Parties :
       /\ (p \in SignersOf(version)) => FullySigned(version)
       /\ request' = [request EXCEPT ![r] =
            [phase |-> IF p \in SignersOf(version) THEN "completing" ELSE "loaded",
             version |-> version, party |-> p, total |-> 0]]
  /\ UNCHANGED <<status, version, signatures, artifacts, outbox>>

(* otp.verify accepted the code for the loaded version.                    *)
VerifyOtp(r) ==
  /\ request[r].phase = "loaded"
  /\ Advance(r, "verified")
  /\ UNCHANGED <<status, version, signatures, artifacts, outbox>>

(* The signature exists already: nothing is written.                       *)
FindExisting(r) ==
  /\ request[r].phase = "verified"
  /\ request[r].party \in SignersOf(request[r].version)
  /\ Advance(r, "confirmed")
  /\ UNCHANGED <<status, version, signatures, artifacts, outbox>>

(* An uncommitted row with the same (version, party) makes the insert wait. *)
InsertBlocked(q) ==
  \E o \in Requests : /\ request[o].phase = "inserted"
                      /\ request[o].version = q.version
                      /\ request[o].party = q.party

(* dealSignature.create, then count of the rows this transaction sees: the *)
(* committed ones and its own.                                             *)
Visible(q) == Cardinality(SignersOf(q.version)) + 1

InsertAndCount(r) ==
  LET q == request[r] IN
  /\ q.phase = "verified"
  /\ q.party \notin SignersOf(q.version)
  /\ ~InsertBlocked(q)
  /\ request' = [request EXCEPT ![r].phase = "inserted", ![r].total = Visible(q)]
  /\ UNCHANGED <<status, version, signatures, artifacts, outbox>>

StatusFor(total) == IF total >= Cardinality(Parties) THEN "SIGNED" ELSE "SIGNED_BY_ONE"

(* The guard of the update and the commit; a false guard rolls back.       *)
SignableWhenSigned == status \in SigningOpen \ {"COMPLETED"}
Signable == status \in {"READY_TO_SIGN", "SIGNED_BY_ONE"}

Commit(r) ==
  LET q == request[r] IN
  /\ q.phase = "inserted"
  /\ Signable
  /\ status' = StatusFor(q.total)
  /\ signatures' = signatures \cup {[version |-> q.version, party |-> q.party]}
  /\ Advance(r, "confirmed")
  /\ UNCHANGED <<version, artifacts, outbox>>

(* state(): the signatures of what is now the current version decide       *)
(* whether completeDeal is called.                                         *)
ReadState(r) ==
  /\ request[r].phase = "confirmed"
  /\ Advance(r, IF FullySigned(version) THEN "completing" ELSE "idle")
  /\ UNCHANGED <<status, version, signatures, artifacts, outbox>>

(* An error, a rollback or a crash ends the request where it is.           *)
Fail(r) ==
  /\ request[r].phase # "idle"
  /\ Advance(r, "idle")
  /\ UNCHANGED <<status, version, signatures, artifacts, outbox>>

-----------------------------------------------------------------------------
(* Completing                                                              *)

(* requireSignedVersion: the current version, signed by every party.       *)
Signed == status \in {"SIGNED", "COMPLETED"} /\ FullySigned(version)

(* An artifact is unique per version and type: whoever stores it second    *)
(* finds it or loses to the unique index, and goes on with the first one.  *)
Ensure(r, type) ==
  /\ Signed
  /\ artifacts' = artifacts \cup {[version |-> version, type |-> type]}
  /\ UNCHANGED <<status, version, signatures, outbox>>

EnsureFinalPdf(r) ==
  /\ request[r].phase = "completing"
  /\ Ensure(r, "FINAL_PDF")
  /\ Advance(r, "rendered")

EnsureEvidencePackage(r) ==
  /\ request[r].phase = "rendered"
  /\ [version |-> version, type |-> "FINAL_PDF"] \in artifacts
  /\ Ensure(r, "EVIDENCE_ZIP")
  /\ Advance(r, "packaged")

(* One transaction completes the deal and creates a delivery of each       *)
(* artifact of the deal to each party; a deal that is COMPLETED by now is  *)
(* left alone.                                                             *)
DeliveriesToOthers(r) == [artifact: artifacts, party: Parties \ {request[r].party}]
Deliveries(r) == [artifact: artifacts, party: Parties]

Complete(r) ==
  /\ request[r].phase = "packaged"
  /\ status = "SIGNED"
  /\ status' = "COMPLETED"
  /\ outbox' = outbox \cup Deliveries(r)
  /\ Advance(r, "idle")
  /\ UNCHANGED <<version, signatures, artifacts>>

-----------------------------------------------------------------------------

Confirm(r) ==
  \/ Load(r) \/ VerifyOtp(r) \/ FindExisting(r) \/ InsertAndCount(r) \/ Commit(r)
  \/ ReadState(r) \/ EnsureFinalPdf(r) \/ EnsureEvidencePackage(r) \/ Complete(r)
  \/ Fail(r)

Next == NewVersion \/ AllApproved \/ \E r \in Requests : Confirm(r)

Spec == Init /\ [][Next]_vars

-----------------------------------------------------------------------------
(* The type invariant; a transaction never counts more signatures than     *)
(* there are parties.                                                      *)
TypeOK ==
  /\ status \in DealStatus
  /\ version \in Versions
  /\ signatures \in SUBSET Signature
  /\ artifacts \in SUBSET Artifact
  /\ outbox \in SUBSET Delivery
  /\ request \in [Requests -> Request]

(* A completed deal was signed by every party in its current version,      *)
(* although the update that made it SIGNED looks at no version.            *)
CompletedIsSigned == status = "COMPLETED" => SignersOf(version) = Parties

(* The completion promises both artifacts of the signed version to every   *)
(* party, exactly once and never before, whichever of the overlapping      *)
(* confirm requests and retries completes the deal.                        *)
DeliveriesOfCompletion ==
  outbox = IF status = "COMPLETED"
           THEN [artifact: [version: {version}, type: ArtifactTypes], party: Parties]
           ELSE {}

(* SIGNED is never lost to a late confirm: it goes on to COMPLETED only.   *)
SignedIsStable ==
  [][/\ status = "SIGNED" => status' \in {"SIGNED", "COMPLETED"}
     /\ status = "COMPLETED" => status' = "COMPLETED"]_vars

(* Signing implements the abstract completion: COMPLETED stands for        *)
(* `completed', and the artifacts of the current version for `issued'.  So *)
(* no signed version is replaced, however stale the reads of the confirms. *)
Promise == INSTANCE Completion WITH
             Kinds <- ArtifactTypes,
             signers <- SignersOf(version),
             issued <- {a.type : a \in {b \in artifacts : b.version = version}},
             completed <- status = "COMPLETED",
             deliveries <- outbox

ImplementsCompletion == Promise!Spec

(* When both parties signed the current version and no request is in       *)
(* flight, the deal shows it.                                              *)
BothSignedIsSigned ==
  (FullySigned(version) /\ \A r \in Requests : request[r].phase = "idle")
    => status \in {"SIGNED", "COMPLETED"}

(* A signature is only ever added to the current version.                  *)
SignaturesOnCurrentVersion ==
  [][\A s \in Signature : (s \in signatures' /\ s \notin signatures)
                            => s.version = version]_vars
=============================================================================
