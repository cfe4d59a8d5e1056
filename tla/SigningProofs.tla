---------------------------- MODULE SigningProofs ---------------------------
(***************************************************************************)
(* Proofs about Signing, for any number of confirm requests and revisions, *)
(* about Otp, for any number of holders, of issue and verify requests in   *)
(* flight, of tries and of codes, and about SigningWithOtp: confirm        *)
(* requests that make the Redis calls of a verification are confirm        *)
(* requests of Signing and verifications of Otp, so what is proved of      *)
(* either holds of both together.                                          *)
(***************************************************************************)
EXTENDS SigningWithOtp, FiniteSetTheorems, TLAPS

-----------------------------------------------------------------------------
(* Signing.                                                                *)

Closed == {"SIGNED", "COMPLETED"}

(* The current version is the newest anybody signed or is about to sign,   *)
(* and nobody signed it while it can still be replaced.                    *)
NewestIsUnsigned ==
  /\ \A s \in signatures : s.version <= version
  /\ \A r \in Requests : request[r].version <= version
  /\ Revisable => SignersOf(version) = {}

(* Artifacts are those of the current version, once everybody signed it.   *)
ArtifactsAreSigned ==
  /\ artifacts # {} => status \in Closed /\ FullySigned(version)
  /\ \A a \in artifacts : a.version = version
  /\ \A r \in Requests : request[r].phase = "packaged" =>
       \A type \in ArtifactTypes : [version |-> version, type |-> type] \in artifacts

IInv ==
  /\ TypeOK
  /\ NewestIsUnsigned
  /\ ArtifactsAreSigned
  /\ CompletedIsSigned
  /\ DeliveriesOfCompletion

-----------------------------------------------------------------------------
(* Counting.                                                               *)

LEMMA CountingOneMore ==
  ASSUME NEW S \in SUBSET Parties, NEW p \in Parties, p \notin S
  PROVE  Cardinality(S) + 1 \in 0..Cardinality(Parties)
<1>1. IsFiniteSet(S) /\ S \cup {p} \in SUBSET Parties
  BY SigningAssumption, FS_Subset
<1>2. Cardinality(S \cup {p}) = Cardinality(S) + 1
  BY <1>1, FS_AddElement
<1>3. Cardinality(S \cup {p}) <= Cardinality(Parties)
  BY <1>1, SigningAssumption, FS_Subset
<1>4. Cardinality(S) \in Nat /\ Cardinality(Parties) \in Nat
  BY <1>1, SigningAssumption, FS_CardinalityType
<1> QED
  BY <1>2, <1>3, <1>4

LEMMA ZeroCount == 0 \in 0..Cardinality(Parties)
BY SigningAssumption, FS_CardinalityType

-----------------------------------------------------------------------------
(* Steps.                                                                  *)

LEMMA InvInit == Init => IInv
<1> SUFFICES ASSUME Init PROVE IInv
  OBVIOUS
<1>1. 1 \in Versions /\ 1 <= 1
  BY SigningAssumption DEF Versions
<1>2. TypeOK
  BY <1>1, ZeroCount DEF Init, TypeOK, DealStatus, Request, Phases
<1>3. \A r \in Requests : request[r].version = 1 /\ request[r].phase = "idle"
  BY DEF Init
<1> QED
  BY <1>1, <1>2, <1>3 DEF Init, IInv, NewestIsUnsigned, ArtifactsAreSigned, CompletedIsSigned,
                          DeliveriesOfCompletion, SignersOf

(* A step that only moves a request forward.                               *)
LEMMA QuietStepKeepsInv ==
  ASSUME IInv, NEW r \in Requests, NEW q \in Request,
         request' = [request EXCEPT ![r] = q],
         q.version <= version,
         q.phase # "packaged",
         UNCHANGED <<status, version, signatures, artifacts, outbox>>
  PROVE  IInv'
<1>1. TypeOK'
  BY DEF IInv, TypeOK
<1>2. NewestIsUnsigned'
  BY DEF IInv, NewestIsUnsigned, TypeOK, Revisable, SignersOf
<1>3. ArtifactsAreSigned'
  BY DEF IInv, ArtifactsAreSigned, TypeOK, FullySigned, SignersOf
<1>4. CompletedIsSigned' /\ DeliveriesOfCompletion'
  BY DEF IInv, CompletedIsSigned, DeliveriesOfCompletion, FullySigned, SignersOf
<1> QED
  BY <1>1, <1>2, <1>3, <1>4 DEF IInv

LEMMA ReadKeepsInv ==
  ASSUME IInv, NEW r \in Requests,
         \/ Load(r) \/ VerifyOtp(r) \/ FindExisting(r) \/ InsertAndCount(r)
         \/ ReadState(r) \/ Fail(r)
  PROVE  IInv'
<1> DEFINE old == request[r]
<1>0. old \in Request /\ TypeOK /\ old.version <= version
  BY DEF IInv, TypeOK, NewestIsUnsigned
<1>1. CASE Load(r)
  <2>1. PICK p \in Parties : request' = [request EXCEPT ![r] =
            [phase |-> IF p \in SignersOf(version) THEN "completing" ELSE "loaded",
             version |-> version, party |-> p, total |-> 0]]
    BY <1>1 DEF Load
  <2> DEFINE q == [phase |-> IF p \in SignersOf(version) THEN "completing" ELSE "loaded",
                   version |-> version, party |-> p, total |-> 0]
  <2>2. q \in Request /\ q.version <= version /\ q.phase # "packaged"
    BY <1>0, ZeroCount DEF Request, Phases, TypeOK, Versions
  <2> QED
    BY <1>1, <2>1, <2>2, QuietStepKeepsInv DEF Load
<1>2. ASSUME NEW phase \in Phases \ {"packaged"}, Advance(r, phase),
             UNCHANGED <<status, version, signatures, artifacts, outbox>>
      PROVE  IInv'
  <2> DEFINE q == [old EXCEPT !.phase = phase]
  <2>1. q \in Request /\ q.version <= version /\ q.phase # "packaged"
    BY <1>0 DEF Request
  <2>2. request' = [request EXCEPT ![r] = q]
    BY <1>2 DEF Advance
  <2> QED
    BY <1>2, <2>1, <2>2, QuietStepKeepsInv
<1>3. CASE VerifyOtp(r) \/ FindExisting(r) \/ ReadState(r) \/ Fail(r)
  BY <1>2, <1>3 DEF VerifyOtp, FindExisting, ReadState, Fail, Phases
<1>4. CASE InsertAndCount(r)
  <2>1. SignersOf(old.version) \in SUBSET Parties
    BY <1>0 DEF SignersOf, TypeOK, Signature
  <2>2. Visible(old) \in 0..Cardinality(Parties)
    BY <1>0, <1>4, <2>1, CountingOneMore DEF InsertAndCount, Visible, Request
  <2> DEFINE q == [old EXCEPT !.phase = "inserted", !.total = Visible(old)]
  <2>3. q \in Request /\ q.version <= version /\ q.phase # "packaged"
    BY <1>0, <2>2 DEF Request, Phases
  <2>4. request' = [request EXCEPT ![r] = q]
    BY <1>4 DEF InsertAndCount
  <2> QED
    BY <1>4, <2>3, <2>4, QuietStepKeepsInv DEF InsertAndCount
<1> QED
  BY <1>1, <1>3, <1>4

LEMMA AdvanceType ==
  ASSUME TypeOK, NEW r \in Requests, NEW phase \in Phases, Advance(r, phase)
  PROVE  /\ request' \in [Requests -> Request]
         /\ \A o \in Requests : request'[o].version = request[o].version
         /\ request'[r].phase = phase
         /\ \A o \in Requests \ {r} : request'[o].phase = request[o].phase
BY DEF TypeOK, Advance, Request

LEMMA RevisionKeepsInv ==
  ASSUME IInv, NewVersion \/ AllApproved
  PROVE  IInv'
<1>0. TypeOK /\ version \in Int /\ (\A s \in signatures : s.version \in Int)
      /\ \A r \in Requests : request[r].version \in Int
  BY DEF IInv, TypeOK, Versions, Signature, Request
<1>1. /\ status \notin Closed
      /\ status' \in {"TERMS_REVIEW", "READY_TO_SIGN"}
      /\ SignersOf(version) = {}
      /\ artifacts = {}
      /\ outbox = {}
      /\ UNCHANGED <<signatures, artifacts, outbox, request>>
      /\ version' \in {version, version + 1}
  BY DEF NewVersion, AllApproved, Revisable, Closed, IInv, ArtifactsAreSigned,
         NewestIsUnsigned, DeliveriesOfCompletion
<1>2. TypeOK'
  BY <1>0, <1>1, SigningAssumption DEF NewVersion, AllApproved, TypeOK, Versions, DealStatus
<1>3. NewestIsUnsigned'
  <2>1. \A s \in signatures : s.version < version + 1
    BY <1>0 DEF IInv, NewestIsUnsigned
  <2>2. SignersOf(version)' = {}
    <3>1. CASE version' = version
      BY <1>1, <3>1 DEF SignersOf
    <3>2. CASE version' = version + 1
      BY <1>0, <1>1, <2>1, <3>2 DEF SignersOf
    <3> QED
      BY <1>1, <3>1, <3>2
  <2>3. \A s \in signatures' : s.version <= version'
    BY <1>0, <1>1, <2>1 DEF IInv, NewestIsUnsigned
  <2>4. \A r \in Requests : request'[r].version <= version'
    BY <1>0, <1>1 DEF IInv, NewestIsUnsigned
  <2> QED
    BY <2>2, <2>3, <2>4 DEF NewestIsUnsigned
<1>4. ArtifactsAreSigned'
  BY <1>1 DEF IInv, ArtifactsAreSigned
<1>5. CompletedIsSigned' /\ DeliveriesOfCompletion'
  BY <1>1 DEF CompletedIsSigned, DeliveriesOfCompletion
<1> QED
  BY <1>2, <1>3, <1>4, <1>5 DEF IInv

LEMMA CommitKeepsInv ==
  ASSUME IInv, NEW r \in Requests, Commit(r)
  PROVE  IInv'
<1> DEFINE q == request[r]
<1>0. TypeOK /\ q \in Request /\ q.version <= version
  BY DEF IInv, TypeOK, NewestIsUnsigned
<1>1. /\ status \notin Closed
      /\ status' \in {"SIGNED_BY_ONE", "SIGNED"}
      /\ signatures' = signatures \cup {[version |-> q.version, party |-> q.party]}
      /\ artifacts = {} /\ outbox = {}
      /\ UNCHANGED <<version, artifacts, outbox>>
  BY DEF Commit, Signable, StatusFor, Closed, IInv, ArtifactsAreSigned, DeliveriesOfCompletion
<1>2. /\ request' \in [Requests -> Request]
      /\ \A o \in Requests : request'[o].version = request[o].version
      /\ \A o \in Requests : request'[o].phase = "packaged" => request[o].phase = "packaged"
  BY <1>0, AdvanceType DEF Commit, Phases
<1>3. TypeOK'
  BY <1>0, <1>1, <1>2 DEF TypeOK, DealStatus, Signature, Request
<1>4. NewestIsUnsigned'
  BY <1>0, <1>1, <1>2 DEF IInv, NewestIsUnsigned, Revisable
<1>5. ArtifactsAreSigned'
  BY <1>1, <1>2 DEF IInv, ArtifactsAreSigned
<1>6. CompletedIsSigned' /\ DeliveriesOfCompletion'
  BY <1>1 DEF CompletedIsSigned, DeliveriesOfCompletion
<1> QED
  BY <1>3, <1>4, <1>5, <1>6 DEF IInv

LEMMA EnsureKeepsInv ==
  ASSUME IInv, NEW r \in Requests, EnsureFinalPdf(r) \/ EnsureEvidencePackage(r)
  PROVE  IInv'
<1>0. TypeOK /\ ArtifactTypes = {"FINAL_PDF", "EVIDENCE_ZIP"}
  BY DEF IInv, ArtifactTypes
<1>1. PICK type \in ArtifactTypes, phase \in {"rendered", "packaged"} :
        /\ Ensure(r, type)
        /\ Advance(r, phase)
        /\ phase = "packaged" => /\ type = "EVIDENCE_ZIP"
                                /\ [version |-> version, type |-> "FINAL_PDF"] \in artifacts
  BY <1>0 DEF EnsureFinalPdf, EnsureEvidencePackage
<1>2. /\ request' \in [Requests -> Request]
      /\ \A o \in Requests : request'[o].version = request[o].version
      /\ request'[r].phase = phase
      /\ \A o \in Requests \ {r} : request'[o].phase = request[o].phase
  BY <1>0, <1>1, AdvanceType DEF Phases
<1>3. /\ status \in Closed /\ FullySigned(version)
      /\ artifacts' = artifacts \cup {[version |-> version, type |-> type]}
      /\ UNCHANGED <<status, version, signatures, outbox>>
  BY <1>1 DEF Ensure, Signed, Closed
<1>4. TypeOK'
  BY <1>0, <1>2, <1>3 DEF TypeOK, Artifact
<1>5. NewestIsUnsigned'
  BY <1>2, <1>3 DEF IInv, NewestIsUnsigned, Revisable, SignersOf
<1>6. ArtifactsAreSigned'
  <2>1. (status \in Closed /\ FullySigned(version))'
    BY <1>3 DEF FullySigned, SignersOf
  <2>2. \A a \in artifacts' : a.version = version'
    BY <1>3 DEF IInv, ArtifactsAreSigned
  <2>3. \A o \in Requests : request'[o].phase = "packaged" =>
          \A t \in ArtifactTypes : [version |-> version, type |-> t] \in artifacts'
    BY <1>0, <1>1, <1>2, <1>3 DEF IInv, ArtifactsAreSigned
  <2> QED
    BY <1>3, <2>1, <2>2, <2>3 DEF ArtifactsAreSigned
<1>7. CompletedIsSigned' /\ DeliveriesOfCompletion'
  BY <1>3 DEF IInv, CompletedIsSigned, DeliveriesOfCompletion, FullySigned, SignersOf
<1> QED
  BY <1>4, <1>5, <1>6, <1>7 DEF IInv

LEMMA CompleteKeepsInv ==
  ASSUME IInv, NEW r \in Requests, Complete(r)
  PROVE  IInv'
<1>0. TypeOK
  BY DEF IInv
<1>1. /\ \A type \in ArtifactTypes : [version |-> version, type |-> type] \in artifacts
      /\ FullySigned(version)
      /\ status = "SIGNED" /\ status' = "COMPLETED"
      /\ outbox = {}
      /\ outbox' = outbox \cup [artifact: artifacts, party: Parties]
      /\ UNCHANGED <<version, signatures, artifacts>>
  BY DEF Complete, Deliveries, IInv, ArtifactsAreSigned, ArtifactTypes, DeliveriesOfCompletion
<1>2. /\ request' \in [Requests -> Request]
      /\ \A o \in Requests : request'[o].version = request[o].version
      /\ \A o \in Requests : request'[o].phase = "packaged" => request[o].phase = "packaged"
  BY <1>0, AdvanceType DEF Complete, Phases
<1>3. artifacts = [version: {version}, type: ArtifactTypes]
  <2>1. artifacts \subseteq [version: {version}, type: ArtifactTypes]
    BY <1>0 DEF IInv, ArtifactsAreSigned, TypeOK, Artifact
  <2>2. ASSUME NEW a \in [version: {version}, type: ArtifactTypes] PROVE a \in artifacts
    <3>1. a = [version |-> version, type |-> a.type] /\ a.type \in ArtifactTypes
      OBVIOUS
    <3> QED
      BY <1>1, <3>1
  <2> QED
    BY <2>1, <2>2
<1>4. TypeOK'
  BY <1>0, <1>1, <1>2 DEF TypeOK, DealStatus, Delivery
<1>5. NewestIsUnsigned'
  BY <1>1, <1>2 DEF IInv, NewestIsUnsigned, Revisable
<1>6. ArtifactsAreSigned'
  BY <1>1, <1>2 DEF IInv, ArtifactsAreSigned, FullySigned, SignersOf, Closed
<1>7. CompletedIsSigned'
  BY <1>1 DEF CompletedIsSigned, FullySigned, SignersOf
<1>8. DeliveriesOfCompletion'
  BY <1>1, <1>3 DEF DeliveriesOfCompletion
<1> QED
  BY <1>4, <1>5, <1>6, <1>7, <1>8 DEF IInv

LEMMA InvStep == IInv /\ [Next]_vars => IInv'
<1> SUFFICES ASSUME IInv, [Next]_vars PROVE IInv'
  OBVIOUS
<1>1. ASSUME NEW r \in Requests, Confirm(r) PROVE IInv'
  BY <1>1, ReadKeepsInv, CommitKeepsInv, EnsureKeepsInv, CompleteKeepsInv DEF Confirm
<1>2. CASE UNCHANGED vars
  BY <1>2 DEF vars, IInv, TypeOK, NewestIsUnsigned, ArtifactsAreSigned, CompletedIsSigned,
              DeliveriesOfCompletion, FullySigned, SignersOf, Revisable
<1> QED
  BY <1>1, <1>2, RevisionKeepsInv DEF Next

-----------------------------------------------------------------------------

(* Every state of the signing is well typed, and no transaction counts     *)
(* more signatures than there are parties.                                 *)
THEOREM Invariance == Spec => []IInv
BY InvInit, InvStep, PTL DEF Spec

THEOREM Typing == Spec => []TypeOK
<1>1. IInv => TypeOK
  BY DEF IInv
<1> QED
  BY <1>1, Invariance, PTL

(* A completed deal was signed by every party in its current version.      *)
THEOREM CompletionIsSigned == Spec => []CompletedIsSigned
<1>1. IInv => CompletedIsSigned
  BY DEF IInv
<1> QED
  BY <1>1, Invariance, PTL

(* The completion creates every delivery of the signed version, and no     *)
(* other step creates one.                                                 *)
THEOREM CompletionDelivers == Spec => []DeliveriesOfCompletion
<1>1. IInv => DeliveriesOfCompletion
  BY DEF IInv
<1> QED
  BY <1>1, Invariance, PTL

(* A deal that is SIGNED is never moved back by a late confirm.            *)
THEOREM SignedStays == Spec => SignedIsStable
<1>1. [Next]_vars => [/\ status = "SIGNED" => status' \in {"SIGNED", "COMPLETED"}
                      /\ status = "COMPLETED" => status' = "COMPLETED"]_vars
  BY DEF Next, NewVersion, AllApproved, Revisable, Confirm, Load, VerifyOtp,
         FindExisting, InsertAndCount, Commit, Signable, ReadState, Fail, EnsureFinalPdf,
         EnsureEvidencePackage, Ensure, Complete
<1> QED
  BY <1>1, PTL DEF Spec, SignedIsStable

-----------------------------------------------------------------------------
(* Signing implements the abstract completion.                             *)

LEMMA PromiseInit == Init => Promise!Init
BY DEF Init, Promise!Init, SignersOf

(* A step that changes no version, signature, artifact or delivery.        *)
LEMMA PromiseUntouched ==
  ASSUME UNCHANGED <<version, signatures, artifacts, outbox>>,
         (status' = "COMPLETED") = (status = "COMPLETED")
  PROVE  [Promise!Next]_Promise!vars
<1>1. UNCHANGED <<SignersOf(version), {a.type : a \in {b \in artifacts : b.version = version}}>>
  BY DEF SignersOf
<1> QED
  BY <1>1 DEF Promise!vars

LEMMA PromiseRevise ==
  ASSUME IInv, NewVersion
  PROVE  [Promise!Next]_Promise!vars
<1>1. SignersOf(version) = {} /\ artifacts = {}
  BY DEF IInv, NewestIsUnsigned, ArtifactsAreSigned, NewVersion, Revisable, Closed
<1>2. SignersOf(version)' = {}
  BY DEF IInv, TypeOK, NewestIsUnsigned, NewVersion, SignersOf, Versions, Signature
<1>3. (status = "COMPLETED") = FALSE /\ (status' = "COMPLETED") = FALSE
  BY DEF NewVersion, Revisable
<1>4. Promise!Revise
  BY <1>1, <1>2, <1>3 DEF NewVersion, Promise!Revise
<1> QED
  BY <1>4 DEF Promise!Next

(* A signature of another version, or one that is there already, shows in  *)
(* nothing that is promised.                                               *)
LEMMA PromiseSign ==
  ASSUME IInv, NEW r \in Requests, Commit(r)
  PROVE  [Promise!Next]_Promise!vars
<1> DEFINE q == request[r]
<1>1. q \in Request
  BY DEF IInv, TypeOK
<1>2. UNCHANGED <<version, artifacts, outbox>>
  BY DEF Commit
<1>3. (status = "COMPLETED") = FALSE /\ (status' = "COMPLETED") = FALSE
  BY DEF Commit, Signable, StatusFor
<1>4. SignersOf(version)' = IF q.version = version THEN SignersOf(version) \cup {q.party}
                            ELSE SignersOf(version)
  <2> DEFINE s == [version |-> q.version, party |-> q.party]
  <2>1. signatures' = signatures \cup {s} /\ s.version = q.version /\ s.party = q.party
    BY DEF Commit
  <2> HIDE DEF s
  <2>2. {t \in signatures' : t.version = version}
          = {t \in signatures : t.version = version} \cup (IF q.version = version THEN {s} ELSE {})
    BY <2>1
  <2>3. SignersOf(version)' = {t.party : t \in {u \in signatures' : u.version = version}}
    BY <1>2 DEF SignersOf
  <2> QED
    BY <2>1, <2>2, <2>3 DEF SignersOf
<1>5. CASE SignersOf(version)' = SignersOf(version)
  BY <1>2, <1>3, <1>5 DEF Promise!vars
<1>6. CASE SignersOf(version)' # SignersOf(version)
  <2>1. q.party \in Parties /\ q.party \notin SignersOf(version)
    BY <1>1, <1>4, <1>6 DEF Request
  <2>2. Promise!Sign(q.party)
    BY <1>2, <1>3, <1>4, <1>6, <2>1 DEF Promise!Sign
  <2> QED
    BY <2>1, <2>2 DEF Promise!Next
<1> QED
  BY <1>5, <1>6

LEMMA PromiseIssue ==
  ASSUME NEW r \in Requests, EnsureFinalPdf(r) \/ EnsureEvidencePackage(r)
  PROVE  [Promise!Next]_Promise!vars
<1>1. PICK type \in ArtifactTypes : Ensure(r, type)
  BY DEF EnsureFinalPdf, EnsureEvidencePackage, ArtifactTypes
<1>2. UNCHANGED <<status, version, SignersOf(version), outbox>>
  BY <1>1 DEF Ensure, SignersOf
<1>3. {a.type : a \in {b \in artifacts' : b.version = version'}}
        = {a.type : a \in {b \in artifacts : b.version = version}} \cup {type}
  <2> DEFINE new == [version |-> version, type |-> type]
  <2>1. artifacts' = artifacts \cup {new} /\ new.version = version /\ new.type = type
    BY <1>1 DEF Ensure
  <2> HIDE DEF new
  <2>2. {b \in artifacts' : b.version = version'} = {b \in artifacts : b.version = version} \cup {new}
    BY <1>2, <2>1
  <2> QED
    BY <2>1, <2>2
<1>4. SignersOf(version) = Parties
  BY <1>1 DEF Ensure, Signed, FullySigned
<1>5. Promise!Issue(type)
  BY <1>2, <1>3, <1>4 DEF Promise!Issue
<1> QED
  BY <1>5 DEF Promise!Next

LEMMA PromiseComplete ==
  ASSUME IInv, IInv', NEW r \in Requests, Complete(r)
  PROVE  [Promise!Next]_Promise!vars
<1>1. UNCHANGED <<version, signatures, artifacts>>
  BY DEF Complete
<1>2. (status = "COMPLETED") = FALSE /\ (status' = "COMPLETED") = TRUE
  BY DEF Complete
<1>3. {a.type : a \in {b \in artifacts : b.version = version}} = ArtifactTypes
  <2>1. \A type \in ArtifactTypes : [version |-> version, type |-> type] \in artifacts
    BY DEF IInv, ArtifactsAreSigned, Complete
  <2>2. \A a \in artifacts : a.type \in ArtifactTypes
    BY DEF IInv, TypeOK, Artifact
  <2>3. ASSUME NEW type \in ArtifactTypes
        PROVE  type \in {a.type : a \in {b \in artifacts : b.version = version}}
    <3> DEFINE a == [version |-> version, type |-> type]
    <3>1. a \in artifacts /\ a.version = version /\ a.type = type
      BY <2>1
    <3> HIDE DEF a
    <3> QED
      BY <3>1
  <2> QED
    BY <2>2, <2>3
<1>4. outbox' = [artifact: [version: {version}, type: ArtifactTypes], party: Parties]
  BY <1>1, <1>2 DEF IInv, DeliveriesOfCompletion
<1>5. UNCHANGED <<SignersOf(version), {a.type : a \in {b \in artifacts : b.version = version}}>>
  BY <1>1 DEF SignersOf
<1>6. Promise!Complete
  BY <1>1, <1>2, <1>3, <1>4, <1>5 DEF Promise!Complete
<1> QED
  BY <1>6 DEF Promise!Next

LEMMA PromiseStep == IInv /\ IInv' /\ [Next]_vars => [Promise!Next]_Promise!vars
<1> SUFFICES ASSUME IInv, IInv', [Next]_vars PROVE [Promise!Next]_Promise!vars
  OBVIOUS
<1>1. CASE AllApproved
  BY <1>1, PromiseUntouched DEF AllApproved
<1>2. ASSUME NEW r \in Requests,
             \/ Load(r) \/ VerifyOtp(r) \/ FindExisting(r) \/ InsertAndCount(r)
             \/ ReadState(r) \/ Fail(r)
      PROVE  [Promise!Next]_Promise!vars
  BY <1>2, PromiseUntouched
     DEF Load, VerifyOtp, FindExisting, InsertAndCount, ReadState, Fail
<1>3. CASE UNCHANGED vars
  BY <1>3, PromiseUntouched DEF vars
<1> QED
  BY <1>1, <1>2, <1>3, PromiseRevise, PromiseSign, PromiseIssue, PromiseComplete DEF Next, Confirm

(* Whatever confirms, retries and revisions overlap, signing keeps the     *)
(* promise of Completion: a signed version stays, artifacts are those of   *)
(* a version everybody signed, and the deal is completed once, with every  *)
(* artifact due to every party.                                            *)
THEOREM CompletionRefinement == Spec => ImplementsCompletion
BY PromiseInit, PromiseStep, Invariance, PTL DEF Spec, ImplementsCompletion, Promise!Spec

-----------------------------------------------------------------------------
(* Otp.                                                                    *)

CodeOf(h, code, v) == [code |-> code, holder |-> h, version |-> v]

(* A challenge that names a channel, and whatever was read from one, is of *)
(* a code that left for its holder, for that version.                      *)
PublishedWasDelivered ==
  /\ \A i \in Issuers : issuer[i].phase # "idle" =>
       /\ issuer[i].code \in Codes
       /\ issuer[i].phase = "sent" => CodeOf(issuer[i].holder, issuer[i].code, issuer[i].version) \in delivered
  /\ \A h \in Holders : challenge[h].sent => CodeOf(h, challenge[h].code, challenge[h].version) \in delivered
  /\ \A c \in Checkers : checker[c].phase # "idle" =>
       /\ checker[c].seen.version = checker[c].version
       /\ checker[c].seen.sent => CodeOf(checker[c].holder, checker[c].seen.code, checker[c].version) \in delivered
       /\ checker[c].phase = "matched" => checker[c].entered = checker[c].seen.code /\ checker[c].seen.sent

(* Without overlap an issue has its holder's keys for itself ...           *)
IssuesAlone(h) ==
  /\ ~Checking(h)
  /\ promised[h] = 0
  /\ \A i, j \in Issuers :
       /\ issuer[i].phase # "idle" /\ issuer[i].holder = h
       /\ issuer[j].phase # "idle" /\ issuer[j].holder = h
       => i = j

(* ... and from its answer on everybody who reads the challenge reads the  *)
(* code it promised.                                                       *)
Used(code) == \E a \in accepted : a.code = code
Spent(h) == promised[h] \in aged \/ Used(promised[h]) \/ tries[h] >= MaxTries

ReadsThePromised(c, h) ==
  /\ checker[c].seen.code = promised[h]
  /\ checker[c].phase = "exceeded" => Spent(h)

KeepsItsPromise(h) ==
  /\ ~Issuing(h)
  /\ challenge[h] = NoChallenge \/ (challenge[h].code = promised[h] /\ challenge[h].sent)
  /\ challenge[h] = NoChallenge => Spent(h)
  /\ \A c \in Checkers : checker[c].phase # "idle" /\ checker[c].holder = h => ReadsThePromised(c, h)

OneCodeAtATime ==
  \A h \in Holders :
    /\ ~overlap[h] /\ Issuing(h) => IssuesAlone(h)
    /\ ~overlap[h] /\ promised[h] # 0 => KeepsItsPromise(h)

OtpInv == OtpTypeOK /\ PublishedWasDelivered /\ OneCodeAtATime

-----------------------------------------------------------------------------
(* Slots.                                                                  *)

LEMMA IdleTypes ==
  /\ NoChallenge \in Challenge /\ ~NoChallenge.sent
  /\ IdleIssuer \in Issuer /\ IdleIssuer.phase = "idle"
  /\ IdleChecker \in Checker /\ IdleChecker.phase = "idle"
<1>1. PICK h \in Holders, v \in CodeVersions : h = (CHOOSE x \in Holders : TRUE) /\ v = (CHOOSE x \in CodeVersions : TRUE)
  BY OtpAssumption
<1>2. NoChallenge \in Challenge /\ ~NoChallenge.sent /\ 0 \in 0..MaxCodes
  BY OtpAssumption DEF NoChallenge, Challenge
<1>3. IdleIssuer \in Issuer /\ IdleIssuer.phase = "idle"
  BY <1>1, <1>2 DEF IdleIssuer, Issuer
<1>4. IdleChecker = [phase |-> "idle", entered |-> 0, seen |-> NoChallenge, holder |-> h, version |-> v]
  BY <1>1 DEF IdleChecker
<1>5. IdleChecker \in Checker /\ IdleChecker.phase = "idle"
  BY <1>2, <1>4 DEF Checker
<1> QED
  BY <1>2, <1>3, <1>5

LEMMA ChallengeTypes ==
  ASSUME NEW code \in Codes, NEW v \in CodeVersions, NEW sent \in BOOLEAN
  PROVE  [code |-> code, version |-> v, sent |-> sent] \in Challenge
BY DEF Challenge

LEMMA IssuerMoves ==
  ASSUME OtpTypeOK, NEW i \in Issuers, NEW q \in Issuer, issuer' = [issuer EXCEPT ![i] = q]
  PROVE  /\ issuer' \in [Issuers -> Issuer] /\ issuer'[i] = q
         /\ \A j \in Issuers \ {i} : issuer'[j] = issuer[j]
BY DEF OtpTypeOK

LEMMA CheckerMoves ==
  ASSUME OtpTypeOK, NEW c \in Checkers, NEW q \in Checker, checker' = [checker EXCEPT ![c] = q]
  PROVE  /\ checker' \in [Checkers -> Checker] /\ checker'[c] = q
         /\ \A d \in Checkers \ {c} : checker'[d] = checker[d]
BY DEF OtpTypeOK

LEMMA IssuerAdvances ==
  ASSUME OtpTypeOK, NEW i \in Issuers, NEW phase \in {"cleared", "stored", "sent"}, IssuerTo(i, phase)
  PROVE  /\ issuer' \in [Issuers -> Issuer]
         /\ issuer'[i].phase = phase /\ issuer'[i].holder = issuer[i].holder
         /\ issuer'[i].code = issuer[i].code /\ issuer'[i].version = issuer[i].version
         /\ \A j \in Issuers \ {i} : issuer'[j] = issuer[j]
<1> DEFINE q == [issuer[i] EXCEPT !.phase = phase]
<1>1. issuer[i] \in Issuer
  BY DEF OtpTypeOK
<1>2. q \in Issuer /\ q.phase = phase /\ q.holder = issuer[i].holder /\ q.code = issuer[i].code
        /\ q.version = issuer[i].version
  BY <1>1 DEF Issuer
<1>3. issuer' = [issuer EXCEPT ![i] = q]
  BY DEF IssuerTo
<1> HIDE DEF q
<1> QED
  BY <1>2, <1>3, IssuerMoves

LEMMA IssuerRests ==
  ASSUME OtpTypeOK, NEW i \in Issuers, IssuerEnds(i)
  PROVE  /\ issuer' \in [Issuers -> Issuer] /\ issuer'[i].phase = "idle"
         /\ \A j \in Issuers \ {i} : issuer'[j] = issuer[j]
BY IdleTypes, IssuerMoves DEF IssuerEnds

LEMMA CheckerEnds ==
  ASSUME OtpTypeOK, NEW c \in Checkers, CheckerRests(c)
  PROVE  /\ checker' \in [Checkers -> Checker] /\ checker'[c].phase = "idle"
         /\ \A d \in Checkers \ {c} : checker'[d] = checker[d]
BY IdleTypes, CheckerMoves DEF CheckerRests

LEMMA CheckerAdvances ==
  ASSUME OtpTypeOK, NEW c \in Checkers, NEW phase \in {"exceeded", "matched"},
         checker' = [checker EXCEPT ![c].phase = phase]
  PROVE  /\ checker' \in [Checkers -> Checker]
         /\ checker'[c].phase = phase /\ checker'[c].holder = checker[c].holder
         /\ checker'[c].entered = checker[c].entered /\ checker'[c].seen = checker[c].seen
         /\ checker'[c].version = checker[c].version
         /\ \A d \in Checkers \ {c} : checker'[d] = checker[d]
<1> DEFINE q == [checker[c] EXCEPT !.phase = phase]
<1>1. checker[c] \in Checker
  BY DEF OtpTypeOK
<1>2. q \in Checker /\ q.phase = phase /\ q.holder = checker[c].holder /\ q.entered = checker[c].entered
        /\ q.seen = checker[c].seen /\ q.version = checker[c].version
  BY <1>1 DEF Checker
<1>3. checker' = [checker EXCEPT ![c] = q]
  OBVIOUS
<1> HIDE DEF q
<1> QED
  BY <1>2, <1>3, CheckerMoves

(* What the fields of a slot are.                                          *)
LEMMA SlotTypes ==
  ASSUME OtpTypeOK
  PROVE  /\ \A i \in Issuers : /\ issuer[i].holder \in Holders /\ issuer[i].version \in CodeVersions
                               /\ issuer[i].code \in 0..MaxCodes
         /\ \A c \in Checkers : /\ checker[c].holder \in Holders /\ checker[c].version \in CodeVersions
                                /\ checker[c].entered \in 0..MaxCodes /\ checker[c].seen \in Challenge
BY DEF OtpTypeOK, Issuer, Checker

-----------------------------------------------------------------------------
(* Keys.                                                                   *)

LEMMA PutKey ==
  ASSUME OtpTypeOK, NEW h \in Holders, NEW ch \in Challenge, Put(h, ch)
  PROVE  /\ challenge' \in [Holders -> Challenge] /\ challenge'[h] = ch
         /\ \A g \in Holders \ {h} : challenge'[g] = challenge[g]
BY DEF OtpTypeOK, Put

LEMMA DropKeyOf ==
  ASSUME OtpTypeOK, NEW h \in Holders, Drop(h)
  PROVE  /\ challenge' \in [Holders -> Challenge] /\ challenge'[h] = NoChallenge
         /\ \A g \in Holders \ {h} : challenge'[g] = challenge[g]
BY IdleTypes, PutKey DEF Drop

-----------------------------------------------------------------------------
(* A step that begins no request for a holder keeps what is promised to it *)
(* if it takes the challenge away, or gives a try back, only while an      *)
(* issue runs or the code is spent.                                        *)

LEMMA KeepsOneCode ==
  ASSUME OtpTypeOK, NEW h \in Holders,
         ~overlap[h] /\ Issuing(h) => IssuesAlone(h),
         ~overlap[h] /\ promised[h] # 0 => KeepsItsPromise(h),
         overlap'[h] = overlap[h], promised'[h] = promised[h],
         \A i \in Issuers : issuer'[i].phase # "idle" /\ issuer'[i].holder = h
                              => issuer[i].phase # "idle" /\ issuer[i].holder = h,
         \A c \in Checkers : checker'[c].phase # "idle" /\ checker'[c].holder = h =>
            /\ checker[c].phase # "idle" /\ checker[c].holder = h /\ checker'[c].seen = checker[c].seen
            /\ checker'[c].phase = "exceeded" => checker[c].phase = "exceeded" \/ Spent(h)',
         \/ challenge'[h] = challenge[h] \/ Issuing(h)
         \/ challenge'[h] = NoChallenge /\ ((~overlap[h] /\ promised[h] # 0) => Spent(h)'),
         Spent(h) => Spent(h)' \/ Issuing(h)
  PROVE  /\ (~overlap[h] /\ Issuing(h) => IssuesAlone(h))'
         /\ (~overlap[h] /\ promised[h] # 0 => KeepsItsPromise(h))'
<1>1. Issuing(h)' => Issuing(h)
  BY DEF Issuing
<1>2. Checking(h)' => Checking(h)
  BY DEF Checking
<1>3. (~overlap[h] /\ Issuing(h) => IssuesAlone(h))'
  BY <1>1, <1>2 DEF IssuesAlone
<1>4. ASSUME ~overlap'[h], promised'[h] # 0 PROVE KeepsItsPromise(h)'
  <2>1. KeepsItsPromise(h) /\ ~Issuing(h)
    BY <1>4 DEF IssuesAlone
  <2>2. ~Issuing(h)'
    BY <1>1, <2>1
  <2>3. challenge'[h] = NoChallenge \/ (challenge'[h].code = promised'[h] /\ challenge'[h].sent)
    BY <2>1 DEF KeepsItsPromise
  <2>4. challenge'[h] = NoChallenge => Spent(h)'
    BY <1>4, <2>1 DEF KeepsItsPromise
  <2>5. ASSUME NEW c \in Checkers, checker'[c].phase # "idle", checker'[c].holder = h
        PROVE  ReadsThePromised(c, h)'
    BY <2>1, <2>5 DEF KeepsItsPromise, ReadsThePromised
  <2> QED
    BY <2>2, <2>3, <2>4, <2>5 DEF KeepsItsPromise
<1> QED
  BY <1>3, <1>4

(* Nothing is ever taken out of what was accepted or expired.              *)
LEMMA SpentStays ==
  ASSUME OtpTypeOK, NEW h \in Holders, Spent(h),
         promised'[h] = promised[h], accepted \subseteq accepted', aged \subseteq aged',
         tries'[h] = tries[h]
  PROVE  Spent(h)'
BY DEF Spent, Used

-----------------------------------------------------------------------------
(* Issuing.                                                                *)

LEMMA ClaimKeepsInv ==
  ASSUME OtpInv, NEW i \in Issuers, NEW h \in Holders, NEW v \in CodeVersions, Claim(i, h, v)
  PROVE  OtpInv'
<1> DEFINE q == [phase |-> "claimed", holder |-> h, version |-> v, code |-> issued + 1]
<1>0. OtpTypeOK /\ PublishedWasDelivered /\ OneCodeAtATime /\ issued \in Nat /\ MaxCodes \in Nat
  BY OtpAssumption DEF OtpInv, OtpTypeOK
<1>1. issued + 1 \in 0..MaxCodes
  BY <1>0 DEF Claim
<1>2. q \in Issuer /\ q.phase = "claimed" /\ q.holder = h /\ q.code \in Codes
  BY <1>0, <1>1 DEF Issuer, Codes
<1>3. issuer' = [issuer EXCEPT ![i] = q]
  BY DEF Claim
<1> HIDE DEF q
<1>4. /\ issuer' \in [Issuers -> Issuer] /\ issuer'[i] = q
      /\ \A j \in Issuers \ {i} : issuer'[j] = issuer[j]
  BY <1>0, <1>2, <1>3, IssuerMoves
<1>5. /\ resend' \in [Holders -> BOOLEAN]
      /\ promised' \in [Holders -> 0..MaxCodes] /\ promised'[h] = 0
      /\ \A g \in Holders \ {h} : promised'[g] = promised[g]
  BY <1>0, OtpAssumption DEF OtpTypeOK, Claim
<1>6. (Issuing(h) \/ Checking(h)) \in BOOLEAN
  BY DEF Issuing, Checking
<1>7. /\ overlap' \in [Holders -> BOOLEAN] /\ (overlap'[h] <=> Issuing(h) \/ Checking(h))
      /\ \A g \in Holders \ {h} : overlap'[g] = overlap[g]
  BY <1>0, <1>6, Zenon DEF OtpTypeOK, Claim
<1>8. UNCHANGED <<challenge, tries, checker, delivered, accepted, aged>>
  BY DEF Claim
<1>9. OtpTypeOK'
  BY <1>0, <1>1, <1>4, <1>5, <1>7, <1>8 DEF OtpTypeOK, Claim
<1>10. PublishedWasDelivered'
  BY <1>0, <1>2, <1>4, <1>8 DEF PublishedWasDelivered
<1>11. ASSUME NEW g \in Holders \ {h}
       PROVE  /\ (~overlap[g] /\ Issuing(g) => IssuesAlone(g))'
              /\ (~overlap[g] /\ promised[g] # 0 => KeepsItsPromise(g))'
  <2>1. Spent(g) => Spent(g)'
    BY <1>0, <1>5, <1>8, SpentStays
  <2>2. \A j \in Issuers : issuer'[j].phase # "idle" /\ issuer'[j].holder = g
                              => issuer[j].phase # "idle" /\ issuer[j].holder = g
    BY <1>2, <1>4
  <2> QED
    BY <1>0, <1>5, <1>7, <1>8, <2>1, <2>2, KeepsOneCode DEF OneCodeAtATime
<1>12. ~overlap'[h] => IssuesAlone(h)'
  <2>1. SUFFICES ASSUME ~Issuing(h), ~Checking(h) PROVE IssuesAlone(h)'
    BY <1>7
  <2>2. ~Checking(h)'
    BY <1>8, <2>1 DEF Checking
  <2>3. \A j \in Issuers : issuer'[j].phase # "idle" /\ issuer'[j].holder = h => j = i
    BY <1>4, <2>1 DEF Issuing
  <2> QED
    BY <1>5, <2>2, <2>3 DEF IssuesAlone
<1>13. OneCodeAtATime'
  BY <1>5, <1>11, <1>12 DEF OneCodeAtATime
<1> QED
  BY <1>9, <1>10, <1>13 DEF OtpInv

LEMMA ClearTriesKeepsInv ==
  ASSUME OtpInv, NEW i \in Issuers, ClearTries(i) PROVE OtpInv'
<1>0. OtpTypeOK /\ PublishedWasDelivered /\ OneCodeAtATime /\ issuer[i].holder \in Holders
  BY SlotTypes DEF OtpInv
<1>1. /\ issuer' \in [Issuers -> Issuer]
      /\ issuer'[i].phase = "cleared" /\ issuer'[i].holder = issuer[i].holder /\ issuer'[i].code = issuer[i].code
      /\ \A j \in Issuers \ {i} : issuer'[j] = issuer[j]
  BY <1>0, IssuerAdvances DEF ClearTries
<1>2. /\ tries' \in [Holders -> 0..(MaxTries + 1)]
      /\ \A g \in Holders \ {issuer[i].holder} : tries'[g] = tries[g]
  BY <1>0, OtpAssumption DEF ClearTries, Clear, OtpTypeOK
<1>3. UNCHANGED <<challenge, resend, issued, checker, delivered, accepted, aged, promised, overlap>>
  BY DEF ClearTries
<1>4. OtpTypeOK'
  BY <1>0, <1>1, <1>2, <1>3 DEF OtpTypeOK
<1>5. PublishedWasDelivered'
  BY <1>0, <1>1, <1>3 DEF PublishedWasDelivered, ClearTries
<1>6. Issuing(issuer[i].holder)
  BY DEF Issuing, ClearTries
<1>7. \A g \in Holders : Spent(g) => Spent(g)' \/ Issuing(g)
  BY <1>0, <1>2, <1>3, <1>6, SpentStays
<1>8. \A j \in Issuers : \A g \in Holders : issuer'[j].phase # "idle" /\ issuer'[j].holder = g
                              => issuer[j].phase # "idle" /\ issuer[j].holder = g
  BY <1>1 DEF ClearTries
<1>9. OneCodeAtATime'
  BY <1>0, <1>3, <1>7, <1>8, KeepsOneCode DEF OneCodeAtATime
<1> QED
  BY <1>4, <1>5, <1>9 DEF OtpInv

(* An issue may put any challenge of its own holder.                       *)
LEMMA IssueStepKeepsInv ==
  ASSUME OtpInv, NEW i \in Issuers, NEW ch \in Challenge,
         issuer[i].phase # "idle",
         \/ challenge' = challenge
         \/ Put(issuer[i].holder, ch)
            /\ (ch.sent => CodeOf(issuer[i].holder, ch.code, ch.version) \in delivered),
         issuer' \in [Issuers -> Issuer],
         \A j \in Issuers \ {i} : issuer'[j] = issuer[j],
         issuer'[i].phase = "idle" \/ issuer'[i].holder = issuer[i].holder,
         issuer'[i].code = issuer[i].code \/ issuer'[i].phase = "idle",
         issuer'[i].phase = "sent" => CodeOf(issuer'[i].holder, issuer'[i].code, issuer'[i].version) \in delivered',
         delivered \subseteq delivered', delivered' \in SUBSET Code,
         resend' \in [Holders -> BOOLEAN],
         UNCHANGED <<tries, issued, checker, accepted, aged, promised, overlap>>
  PROVE  OtpInv'
<1>0. OtpTypeOK /\ PublishedWasDelivered /\ OneCodeAtATime /\ issuer[i].holder \in Holders
  BY SlotTypes DEF OtpInv
<1>1. /\ challenge' \in [Holders -> Challenge]
      /\ \A g \in Holders \ {issuer[i].holder} : challenge'[g] = challenge[g]
  BY <1>0, PutKey DEF OtpTypeOK
<1>2. OtpTypeOK'
  BY <1>0, <1>1 DEF OtpTypeOK
<1>3. \A h \in Holders : challenge'[h].sent => CodeOf(h, challenge'[h].code, challenge'[h].version) \in delivered'
  <2>1. \A h \in Holders : challenge[h].sent => CodeOf(h, challenge[h].code, challenge[h].version) \in delivered'
    BY <1>0 DEF PublishedWasDelivered
  <2>2. CASE challenge' = challenge
    BY <2>1, <2>2
  <2>3. CASE Put(issuer[i].holder, ch) /\ (ch.sent => CodeOf(issuer[i].holder, ch.code, ch.version) \in delivered)
    <3>1. challenge'[issuer[i].holder] = ch
      BY <1>0, <2>3, PutKey
    <3> QED
      BY <1>1, <2>1, <2>3, <3>1 
  <2> QED
    BY <2>2, <2>3
<1>4. PublishedWasDelivered'
  BY <1>0, <1>3 DEF PublishedWasDelivered
<1>5. Issuing(issuer[i].holder)
  BY DEF Issuing
<1>6. \A g \in Holders : Spent(g) => Spent(g)'
  BY <1>0, SpentStays
<1>7. \A j \in Issuers : \A g \in Holders : issuer'[j].phase # "idle" /\ issuer'[j].holder = g
                              => issuer[j].phase # "idle" /\ issuer[j].holder = g
  OBVIOUS
<1>8. OneCodeAtATime'
  BY <1>0, <1>1, <1>5, <1>6, <1>7, KeepsOneCode DEF OneCodeAtATime
<1> QED
  BY <1>2, <1>4, <1>8 DEF OtpInv

LEMMA StoreKeepsInv ==
  ASSUME OtpInv, NEW i \in Issuers, Store(i) PROVE OtpInv'
<1> DEFINE ch == [code |-> issuer[i].code, version |-> issuer[i].version, sent |-> FALSE]
<1>0. OtpTypeOK /\ issuer[i].version \in CodeVersions /\ issuer[i].code \in Codes
  BY SlotTypes DEF OtpInv, PublishedWasDelivered, Store
<1>1. ch \in Challenge /\ ~ch.sent
  BY <1>0, ChallengeTypes
<1>2. Put(issuer[i].holder, ch)
  BY DEF Store
<1> HIDE DEF ch
<1>3. /\ issuer' \in [Issuers -> Issuer]
      /\ issuer'[i].phase = "stored" /\ issuer'[i].holder = issuer[i].holder /\ issuer'[i].code = issuer[i].code
      /\ \A j \in Issuers \ {i} : issuer'[j] = issuer[j]
  BY <1>0, IssuerAdvances DEF Store
<1> QED
  BY <1>0, <1>1, <1>2, <1>3, IssueStepKeepsInv DEF Store, OtpTypeOK

LEMMA DeliverKeepsInv ==
  ASSUME OtpInv, NEW i \in Issuers, Deliver(i) PROVE OtpInv'
<1> DEFINE d == [code |-> issuer[i].code, holder |-> issuer[i].holder, version |-> issuer[i].version]
<1>0. OtpTypeOK /\ issuer[i].version \in CodeVersions /\ issuer[i].holder \in Holders /\ issuer[i].code \in Codes
  BY SlotTypes DEF OtpInv, PublishedWasDelivered, Deliver
<1>1. d \in Code /\ d = CodeOf(issuer[i].holder, issuer[i].code, issuer[i].version)
  BY <1>0 DEF Code, CodeOf
<1>2. delivered' = delivered \cup {d}
  BY DEF Deliver
<1> HIDE DEF d
<1>3. /\ issuer' \in [Issuers -> Issuer] /\ issuer'[i].phase = "sent" /\ issuer'[i].code = issuer[i].code
      /\ issuer'[i].holder = issuer[i].holder /\ issuer'[i].version = issuer[i].version
      /\ \A j \in Issuers \ {i} : issuer'[j] = issuer[j]
  BY <1>0, IssuerAdvances DEF Deliver
<1>4. delivered' \in SUBSET Code /\ delivered \subseteq delivered'
  BY <1>0, <1>1, <1>2 DEF OtpTypeOK
<1>5. CodeOf(issuer'[i].holder, issuer'[i].code, issuer'[i].version) \in delivered'
  BY <1>1, <1>2, <1>3
<1> QED
  BY <1>0, <1>3, <1>4, <1>5, IdleTypes, IssueStepKeepsInv DEF Deliver, OtpTypeOK

LEMMA UndoKeepsInv ==
  ASSUME OtpInv, NEW i \in Issuers, Undo(i) PROVE OtpInv'
<1>0. OtpTypeOK
  BY DEF OtpInv
<1>1. Put(issuer[i].holder, NoChallenge)
  BY DEF Undo, Drop
<1>2. /\ issuer' \in [Issuers -> Issuer] /\ issuer'[i].phase = "idle"
      /\ \A j \in Issuers \ {i} : issuer'[j] = issuer[j]
  BY <1>0, IssuerRests DEF Undo
<1>3. resend' \in [Holders -> BOOLEAN] /\ delivered' = delivered /\ delivered \in SUBSET Code
  BY <1>0 DEF Undo, OtpTypeOK
<1>4. issuer[i].phase # "idle" /\ UNCHANGED <<tries, issued, checker, accepted, aged, promised, overlap>>
  BY DEF Undo
<1> QED
  BY <1>1, <1>2, <1>3, <1>4, IdleTypes, IssueStepKeepsInv

LEMMA IssuerDiesKeepsInv ==
  ASSUME OtpInv, NEW i \in Issuers, IssuerDies(i) PROVE OtpInv'
<1>0. OtpTypeOK
  BY DEF OtpInv
<1>1. /\ issuer' \in [Issuers -> Issuer] /\ issuer'[i].phase = "idle"
      /\ \A j \in Issuers \ {i} : issuer'[j] = issuer[j]
  BY <1>0, IssuerRests DEF IssuerDies
<1>2. resend' \in [Holders -> BOOLEAN] /\ delivered' = delivered /\ delivered \in SUBSET Code
  BY <1>0 DEF IssuerDies, OtpTypeOK
<1>3. issuer[i].phase # "idle" /\ UNCHANGED <<challenge, tries, issued, checker, accepted, aged, promised, overlap>>
  BY DEF IssuerDies
<1> QED
  BY <1>1, <1>2, <1>3, IdleTypes, IssueStepKeepsInv

(* The answer of an issue: without overlap its request was alone, so the   *)
(* challenge is its own and nobody holds an earlier one.                   *)
LEMMA PublishKeepsInv ==
  ASSUME OtpInv, NEW i \in Issuers, Publish(i) PROVE OtpInv'
<1>h. PICK h \in Holders : h = issuer[i].holder
  BY SlotTypes DEF OtpInv
<1>c. PICK ch : ch = Published(issuer[i])
  OBVIOUS
<1>0. /\ OtpTypeOK /\ PublishedWasDelivered /\ OneCodeAtATime
      /\ issuer[i].code \in Codes /\ issuer[i].version \in CodeVersions
      /\ CodeOf(h, issuer[i].code, issuer[i].version) \in delivered
  BY <1>h, SlotTypes DEF OtpInv, PublishedWasDelivered, Publish
<1>1. /\ ch \in Challenge /\ ch.sent /\ ch.code = issuer[i].code /\ ch.version = issuer[i].version
      /\ ch # NoChallenge
  <2>1. ch = [code |-> issuer[i].code, version |-> issuer[i].version, sent |-> TRUE]
    BY <1>c DEF Published
  <2>2. ch \in Challenge
    BY <1>0, <2>1, ChallengeTypes
  <2> QED
    BY <2>1, <2>2, IdleTypes
<1>2. Put(h, ch)
  BY <1>c, <1>h DEF Publish
<1>3. /\ issuer' \in [Issuers -> Issuer] /\ issuer'[i].phase = "idle"
      /\ \A j \in Issuers \ {i} : issuer'[j] = issuer[j]
  BY <1>0, IssuerRests DEF Publish
<1>4. /\ challenge' \in [Holders -> Challenge] /\ challenge'[h] = ch
      /\ \A g \in Holders \ {h} : challenge'[g] = challenge[g]
  BY <1>0, <1>1, <1>2, PutKey
<1>5. /\ promised' \in [Holders -> 0..MaxCodes] /\ promised'[h] = issuer[i].code
      /\ \A g \in Holders \ {h} : promised'[g] = promised[g]
  BY <1>0, <1>h, OtpAssumption DEF OtpTypeOK, Publish, Codes
<1>6. UNCHANGED <<tries, resend, issued, checker, delivered, accepted, aged, overlap>>
  BY DEF Publish
<1>7. OtpTypeOK'
  BY <1>0, <1>3, <1>4, <1>5, <1>6 DEF OtpTypeOK
<1>8. PublishedWasDelivered'
  BY <1>0, <1>1, <1>3, <1>4, <1>6 DEF PublishedWasDelivered
<1>9. issuer[i].phase # "idle" /\ Issuing(h)
  BY <1>h DEF Issuing, Publish
<1>10. ASSUME NEW g \in Holders \ {h}
       PROVE  /\ (~overlap[g] /\ Issuing(g) => IssuesAlone(g))'
              /\ (~overlap[g] /\ promised[g] # 0 => KeepsItsPromise(g))'
  <2>1. Spent(g) => Spent(g)'
    BY <1>0, <1>5, <1>6, SpentStays
  <2>2. \A j \in Issuers : issuer'[j].phase # "idle" /\ issuer'[j].holder = g
                              => issuer[j].phase # "idle" /\ issuer[j].holder = g
    BY <1>3
  <2> QED
    BY <1>0, <1>4, <1>5, <1>6, <2>1, <2>2, KeepsOneCode DEF OneCodeAtATime
<1>11. ASSUME ~overlap'[h] PROVE ~Issuing(h)' /\ KeepsItsPromise(h)'
  <2>1. IssuesAlone(h)
    BY <1>0, <1>6, <1>9, <1>11 DEF OneCodeAtATime
  <2>2. ~Issuing(h)'
    BY <1>h, <1>3, <1>9, <2>1 DEF IssuesAlone, Issuing
  <2>3. \A c \in Checkers : ~(checker'[c].phase # "idle" /\ checker'[c].holder = h)
    BY <1>6, <2>1 DEF IssuesAlone, Checking
  <2>4. challenge'[h].code = promised'[h] /\ challenge'[h].sent /\ challenge'[h] # NoChallenge
    BY <1>1, <1>4, <1>5
  <2> QED
    BY <2>2, <2>3, <2>4 DEF KeepsItsPromise
<1>12. OneCodeAtATime'
  BY <1>10, <1>11 DEF OneCodeAtATime
<1> QED
  BY <1>7, <1>8, <1>12 DEF OtpInv

-----------------------------------------------------------------------------
(* Verifying.                                                              *)

LEMMA FetchKeepsInv ==
  ASSUME OtpInv, NEW c \in Checkers, NEW h \in Holders, NEW v \in CodeVersions, Fetch(c, h, v)
  PROVE  OtpInv'
<1>0. OtpTypeOK /\ PublishedWasDelivered /\ OneCodeAtATime /\ challenge[h] \in Challenge
  BY DEF OtpInv, OtpTypeOK
<1>1. PICK e \in {0} \cup {d.code : d \in {x \in delivered : x.holder = h}} :
        checker' = [checker EXCEPT ![c] =
          [phase |-> "fetched", holder |-> h, version |-> v, entered |-> e, seen |-> challenge[h]]]
  BY DEF Fetch
<1>2. e \in 0..MaxCodes
  BY <1>0, OtpAssumption DEF OtpTypeOK, Code, Codes
<1> DEFINE q == [phase |-> "fetched", holder |-> h, version |-> v, entered |-> e, seen |-> challenge[h]]
<1>3. q \in Checker /\ q.phase = "fetched" /\ q.holder = h /\ q.version = v /\ q.seen = challenge[h]
  BY <1>0, <1>2 DEF Checker
<1>4. checker' = [checker EXCEPT ![c] = q]
  BY <1>1
<1> HIDE DEF q
<1>5. /\ checker' \in [Checkers -> Checker] /\ checker'[c] = q
      /\ \A d \in Checkers \ {c} : checker'[d] = checker[d]
  BY <1>0, <1>3, <1>4, CheckerMoves
<1>6. UNCHANGED <<challenge, tries, resend, issued, issuer, delivered, accepted, aged, promised>>
  BY DEF Fetch
<1>7. overlap[h] \in BOOLEAN /\ Issuing(h) \in BOOLEAN
  BY <1>0 DEF OtpTypeOK, Issuing
<1>8. /\ overlap' \in [Holders -> BOOLEAN] /\ (overlap'[h] <=> overlap[h] \/ Issuing(h))
      /\ \A g \in Holders \ {h} : overlap'[g] = overlap[g]
  BY <1>0, <1>7, Zenon DEF OtpTypeOK, Fetch
<1>9. OtpTypeOK'
  BY <1>0, <1>5, <1>6, <1>8 DEF OtpTypeOK
<1>10. PublishedWasDelivered'
  BY <1>0, <1>3, <1>5, <1>6 DEF PublishedWasDelivered, Fetch
<1>11. ASSUME NEW g \in Holders \ {h}
       PROVE  /\ (~overlap[g] /\ Issuing(g) => IssuesAlone(g))'
              /\ (~overlap[g] /\ promised[g] # 0 => KeepsItsPromise(g))'
  <2>1. Spent(g) => Spent(g)'
    BY <1>0, <1>6, SpentStays
  <2>2. \A d \in Checkers : checker'[d].phase # "idle" /\ checker'[d].holder = g => checker'[d] = checker[d]
    BY <1>3, <1>5
  <2> QED
    BY <1>0, <1>6, <1>8, <2>1, <2>2, KeepsOneCode DEF OneCodeAtATime
<1>12. ~overlap'[h] => ~Issuing(h)'
  BY <1>6, <1>8 DEF Issuing
<1>13. ASSUME ~overlap'[h], promised'[h] # 0 PROVE KeepsItsPromise(h)'
  <2>1. KeepsItsPromise(h)
    BY <1>0, <1>6, <1>8, <1>13 DEF OneCodeAtATime
  <2>2. Spent(h) => Spent(h)'
    BY <1>0, <1>6, SpentStays
  <2>3. challenge[h].code = promised[h]
    BY <2>1 DEF KeepsItsPromise, Fetch
  <2>4. ASSUME NEW d \in Checkers, checker'[d].phase # "idle", checker'[d].holder = h
        PROVE  ReadsThePromised(d, h)'
    BY <1>3, <1>5, <1>6, <2>1, <2>2, <2>3, <2>4 DEF KeepsItsPromise, ReadsThePromised
  <2> QED
    BY <1>6, <1>12, <1>13, <2>1, <2>2, <2>4 DEF KeepsItsPromise
<1>14. OneCodeAtATime'
  BY <1>11, <1>12, <1>13 DEF OneCodeAtATime
<1> QED
  BY <1>9, <1>10, <1>14 DEF OtpInv

(* A verification of the holder's newest code gives up only once it is     *)
(* spent, and an acceptance spends it.                                     *)
LEMMA VerifyStepKeepsInv ==
  ASSUME OtpInv, NEW c \in Checkers, NEW h \in Holders, h = checker[c].holder,
         checker[c].phase # "idle",
         checker' \in [Checkers -> Checker],
         \A d \in Checkers \ {c} : checker'[d] = checker[d],
         checker'[c].phase # "idle" =>
           /\ checker'[c].holder = h /\ checker'[c].seen = checker[c].seen
           /\ checker'[c].version = checker[c].version
           /\ checker'[c].entered = checker[c].entered,
         checker'[c].phase = "exceeded" => Spent(h)',
         checker'[c].phase = "matched" => checker'[c].entered = checker'[c].seen.code /\ checker'[c].seen.sent,
         challenge' = challenge
           \/ (Drop(h) /\ (~overlap[h] /\ promised[h] # 0 => Spent(h)')),
         tries' \in [Holders -> 0..(MaxTries + 1)],
         \A g \in Holders \ {h} : tries'[g] = tries[g],
         ~overlap[h] /\ promised[h] # 0 => (Spent(h) => Spent(h)'),
         accepted \subseteq accepted',
         accepted' \in SUBSET [code: 0..MaxCodes, holder: Holders, version: CodeVersions],
         resend' \in [Holders -> BOOLEAN],
         UNCHANGED <<issued, issuer, delivered, aged, promised, overlap>>
  PROVE  OtpInv'
<1>0. OtpTypeOK /\ PublishedWasDelivered /\ OneCodeAtATime
  BY DEF OtpInv
<1>1. /\ challenge' \in [Holders -> Challenge]
      /\ challenge'[h] \in {challenge[h], NoChallenge}
      /\ \A g \in Holders \ {h} : challenge'[g] = challenge[g]
  BY <1>0, DropKeyOf DEF OtpTypeOK
<1>2. OtpTypeOK'
  BY <1>0, <1>1 DEF OtpTypeOK
<1>3. \A g \in Holders : challenge'[g].sent => challenge'[g] = challenge[g]
  BY <1>1, IdleTypes
<1>4. \A i \in Issuers : issuer[i].phase # "idle" =>
        /\ issuer[i].code \in Codes
        /\ issuer[i].phase = "sent" => CodeOf(issuer[i].holder, issuer[i].code, issuer[i].version) \in delivered
  BY <1>0 DEF PublishedWasDelivered
<1>5. \A d \in Checkers : checker'[d].phase # "idle" =>
        /\ checker[d].phase # "idle" /\ checker'[d].holder = checker[d].holder
        /\ checker'[d].seen = checker[d].seen /\ checker'[d].version = checker[d].version
        /\ checker'[d].entered = checker[d].entered
        /\ checker'[d].phase = "matched" => checker'[d].entered = checker'[d].seen.code /\ checker'[d].seen.sent
  BY <1>0 DEF PublishedWasDelivered
<1>6. PublishedWasDelivered'
  BY <1>0, <1>3, <1>4, <1>5 DEF PublishedWasDelivered
<1>7. ASSUME NEW g \in Holders \ {h}
      PROVE  /\ (~overlap[g] /\ Issuing(g) => IssuesAlone(g))'
             /\ (~overlap[g] /\ promised[g] # 0 => KeepsItsPromise(g))'
  <2>1. Spent(g) => Spent(g)'
    BY <1>0, SpentStays
  <2>2. \A d \in Checkers : checker'[d].phase # "idle" /\ checker'[d].holder = g => checker'[d] = checker[d]
    OBVIOUS
  <2>3. challenge'[g] = challenge[g] /\ overlap'[g] = overlap[g] /\ promised'[g] = promised[g]
    BY <1>1
  <2> QED
    BY <1>0, <2>1, <2>2, <2>3, KeepsOneCode DEF OneCodeAtATime
<1>8. ~overlap'[h] /\ Issuing(h)' => IssuesAlone(h)'
  <2>1. SUFFICES ASSUME ~overlap[h], Issuing(h) PROVE FALSE
    BY DEF Issuing
  <2>2. IssuesAlone(h)
    BY <1>0, <2>1 DEF OneCodeAtATime
  <2> QED
    BY <2>2 DEF IssuesAlone, Checking
<1>9. ASSUME ~overlap'[h], promised'[h] # 0 PROVE KeepsItsPromise(h)'
  <2>1. KeepsItsPromise(h)
    BY <1>0, <1>9 DEF OneCodeAtATime
  <2>2. ~Issuing(h)'
    BY <2>1 DEF KeepsItsPromise, Issuing
  <2>3. Spent(h) => Spent(h)'
    BY <1>9
  <2>4. /\ challenge'[h] = NoChallenge \/ (challenge'[h].code = promised'[h] /\ challenge'[h].sent)
        /\ challenge'[h] = NoChallenge => Spent(h)'
    <3>1. CASE challenge' = challenge
      BY <2>1, <2>3, <3>1 DEF KeepsItsPromise
    <3>2. CASE Drop(h) /\ (~overlap[h] /\ promised[h] # 0 => Spent(h)')
      BY <1>0, <1>9, <3>2, DropKeyOf
    <3> QED
      BY <3>1, <3>2
  <2>5. ASSUME NEW d \in Checkers, checker'[d].phase # "idle", checker'[d].holder = h
        PROVE  ReadsThePromised(d, h)'
    <3>1. checker[d].phase # "idle" /\ checker[d].holder = h /\ checker'[d].seen = checker[d].seen
      BY <1>5, <2>5
    <3>2. ReadsThePromised(d, h)
      BY <2>1, <3>1 DEF KeepsItsPromise
    <3>3. checker'[d].phase = "exceeded" => checker[d].phase = "exceeded" \/ Spent(h)'
      OBVIOUS
    <3> QED
      BY <2>3, <3>1, <3>2, <3>3 DEF ReadsThePromised
  <2> QED
    BY <2>2, <2>4, <2>5 DEF KeepsItsPromise
<1>10. OneCodeAtATime'
  BY <1>7, <1>8, <1>9 DEF OneCodeAtATime
<1> QED
  BY <1>2, <1>6, <1>10 DEF OtpInv

(* What a verification of a holder read, without overlap.                  *)
LEMMA SeenIsPromised ==
  ASSUME OtpInv, NEW c \in Checkers, NEW h \in Holders, h = checker[c].holder,
         checker[c].phase # "idle", ~overlap[h], promised[h] # 0
  PROVE  ReadsThePromised(c, h)
BY DEF OtpInv, OneCodeAtATime, KeepsItsPromise

LEMMA DropsKeepInv ==
  ASSUME OtpInv, NEW c \in Checkers, NEW h \in Holders, h = checker[c].holder,
         checker[c].phase # "idle",
         challenge' = challenge \/ (Drop(h) /\ (~overlap[h] /\ promised[h] # 0 => Spent(h))),
         CheckerRests(c),
         UNCHANGED <<tries, resend, issued, issuer, delivered, accepted, aged, promised, overlap>>
  PROVE  OtpInv'
<1>0. OtpTypeOK
  BY DEF OtpInv
<1>1. /\ checker' \in [Checkers -> Checker] /\ checker'[c].phase = "idle"
      /\ \A d \in Checkers \ {c} : checker'[d] = checker[d]
  BY <1>0, CheckerEnds
<1>2. Spent(h) => Spent(h)'
  BY <1>0, SpentStays
<1>3. /\ tries' \in [Holders -> 0..(MaxTries + 1)] /\ resend' \in [Holders -> BOOLEAN]
      /\ accepted' \in SUBSET [code: 0..MaxCodes, holder: Holders, version: CodeVersions]
      /\ accepted \subseteq accepted' /\ tries' = tries
  BY <1>0 DEF OtpTypeOK
<1>4. challenge' = challenge \/ (Drop(h) /\ (~overlap[h] /\ promised[h] # 0 => Spent(h)'))
  BY <1>2
<1>5. \A g \in Holders \ {h} : tries'[g] = tries[g]
  BY <1>3
<1> QED
  BY <1>1, <1>2, <1>3, <1>4, <1>5, VerifyStepKeepsInv

LEMMA DropAgedKeepsInv ==
  ASSUME OtpInv, NEW c \in Checkers, DropAged(c) PROVE OtpInv'
<1>1. PICK h \in Holders : h = checker[c].holder
  BY SlotTypes DEF OtpInv
<1>2. ~overlap[h] /\ promised[h] # 0 => Spent(h)
  BY <1>1, SeenIsPromised DEF DropAged, ReadsThePromised, Spent
<1> QED
  BY <1>1, <1>2, DropsKeepInv DEF DropAged

LEMMA DropExceededKeepsInv ==
  ASSUME OtpInv, NEW c \in Checkers, DropExceeded(c) PROVE OtpInv'
<1>1. PICK h \in Holders : h = checker[c].holder
  BY SlotTypes DEF OtpInv
<1>2. ~overlap[h] /\ promised[h] # 0 => Spent(h)
  BY <1>1, SeenIsPromised DEF DropExceeded, ReadsThePromised
<1> QED
  BY <1>1, <1>2, DropsKeepInv DEF DropExceeded

LEMMA CheckerDiesKeepsInv ==
  ASSUME OtpInv, NEW c \in Checkers, CheckerDies(c) PROVE OtpInv'
<1>1. PICK h \in Holders : h = checker[c].holder
  BY SlotTypes DEF OtpInv
<1>2. /\ challenge' = challenge /\ checker[c].phase # "idle" /\ CheckerRests(c)
      /\ UNCHANGED <<tries, resend, issued, issuer, delivered, accepted, aged, promised, overlap>>
  BY DEF CheckerDies
<1>3. challenge' = challenge \/ (Drop(h) /\ (~overlap[h] /\ promised[h] # 0 => Spent(h)))
  BY <1>2
<1> QED
  BY <1>1, <1>2, <1>3, DropsKeepInv

LEMMA CountTryKeepsInv ==
  ASSUME OtpInv, NEW c \in Checkers, CountTry(c) PROVE OtpInv'
<1>0. OtpTypeOK /\ MaxTries \in Nat
  BY OtpAssumption DEF OtpInv
<1>1. PICK h \in Holders : h = checker[c].holder
  BY SlotTypes DEF OtpInv
<1>2. tries \in [Holders -> 0..(MaxTries + 1)] /\ tries[h] \in Nat
  BY <1>0 DEF OtpTypeOK
<1>3. tries' = [tries EXCEPT ![h] = IF tries[h] + 1 > MaxTries + 1 THEN tries[h] ELSE tries[h] + 1]
  BY <1>1 DEF CountTry
<1>4. /\ tries' \in [Holders -> 0..(MaxTries + 1)]
      /\ tries'[h] >= tries[h]
      /\ tries[h] + 1 >= MaxTries => tries'[h] >= MaxTries
      /\ \A g \in Holders \ {h} : tries'[g] = tries[g]
  BY <1>0, <1>2, <1>3
<1>5. /\ checker[c].phase = "fetched"
      /\ UNCHANGED <<challenge, resend, issued, issuer, delivered, accepted, aged, promised, overlap>>
  BY DEF CountTry
<1>6. Spent(h) => Spent(h)'
  BY <1>0, <1>2, <1>4, <1>5 DEF Spent, Used
<1>7. tries[h] + 1 >= MaxTries => Spent(h)'
  BY <1>4 DEF Spent
<1>8. /\ resend' \in [Holders -> BOOLEAN] /\ accepted \subseteq accepted'
      /\ accepted' \in SUBSET [code: 0..MaxCodes, holder: Holders, version: CodeVersions]
  BY <1>0, <1>5 DEF OtpTypeOK
<1>14. challenge' = challenge \/ (Drop(h) /\ (~overlap[h] /\ promised[h] # 0 => Spent(h)'))
  BY <1>5
<1>9. \/ /\ checker' = [checker EXCEPT ![c].phase = "exceeded"]
         /\ OverLimit(tries[h] + 1) \/ LastTry(tries[h] + 1)
      \/ CheckerRests(c)
      \/ /\ checker' = [checker EXCEPT ![c].phase = "matched"]
         /\ Matches(checker[c]) /\ checker[c].seen.sent
  BY <1>1 DEF CountTry
<1>10. OverLimit(tries[h] + 1) \/ LastTry(tries[h] + 1) => tries[h] + 1 >= MaxTries
  BY <1>0, <1>2 DEF OverLimit, LastTry
<1>11. CASE /\ checker' = [checker EXCEPT ![c].phase = "exceeded"]
            /\ OverLimit(tries[h] + 1) \/ LastTry(tries[h] + 1)
  <2>1. Spent(h)'
    BY <1>7, <1>10, <1>11
  <2>2. /\ checker' \in [Checkers -> Checker]
        /\ checker'[c].phase = "exceeded" /\ checker'[c].holder = h
        /\ checker'[c].entered = checker[c].entered /\ checker'[c].seen = checker[c].seen
        /\ checker'[c].version = checker[c].version
        /\ \A d \in Checkers \ {c} : checker'[d] = checker[d]
    BY <1>0, <1>1, <1>11, CheckerAdvances
  <2> QED
    BY <1>1, <1>4, <1>5, <1>8, <1>14, <2>1, <2>2, VerifyStepKeepsInv
<1>12. CASE CheckerRests(c)
  <2>1. /\ checker' \in [Checkers -> Checker] /\ checker'[c].phase = "idle"
        /\ \A d \in Checkers \ {c} : checker'[d] = checker[d]
    BY <1>0, <1>12, CheckerEnds
  <2>2. checker'[c].phase # "exceeded" /\ checker'[c].phase # "matched" /\ checker[c].phase # "idle"
    BY <1>5, <2>1
  <2> QED
    BY <1>1, <1>4, <1>5, <1>6, <1>8, <1>14, <2>1, <2>2, VerifyStepKeepsInv
<1>13. CASE /\ checker' = [checker EXCEPT ![c].phase = "matched"]
            /\ Matches(checker[c]) /\ checker[c].seen.sent
  <2>1. /\ checker' \in [Checkers -> Checker]
        /\ checker'[c].phase = "matched" /\ checker'[c].holder = h
        /\ checker'[c].entered = checker[c].entered /\ checker'[c].seen = checker[c].seen
        /\ checker'[c].version = checker[c].version
        /\ \A d \in Checkers \ {c} : checker'[d] = checker[d]
    BY <1>0, <1>1, <1>13, CheckerAdvances
  <2>2. checker'[c].entered = checker'[c].seen.code /\ checker'[c].seen.sent
    BY <1>13, <2>1 DEF Matches
  <2>3. checker'[c].phase # "exceeded" /\ checker[c].phase # "idle"
    BY <1>5, <2>1
  <2> QED
    BY <1>1, <1>4, <1>5, <1>6, <1>8, <1>14, <2>1, <2>2, <2>3, VerifyStepKeepsInv
<1> QED
  BY <1>9, <1>11, <1>12, <1>13

LEMMA AcceptKeepsInv ==
  ASSUME OtpInv, NEW c \in Checkers, Accept(c) PROVE OtpInv'
<1>0. OtpTypeOK /\ MaxTries \in Nat
  BY OtpAssumption DEF OtpInv
<1>1. PICK h \in Holders : h = checker[c].holder
  BY SlotTypes DEF OtpInv
<1> DEFINE a == [code |-> checker[c].entered, holder |-> h, version |-> checker[c].version]
<1>2. /\ accepted' = accepted \cup {a} /\ a \in [code: 0..MaxCodes, holder: Holders, version: CodeVersions]
      /\ a.code = checker[c].entered
  BY <1>0, <1>1, SlotTypes DEF Accept
<1> HIDE DEF a
<1>3. /\ accepted \subseteq accepted'
      /\ accepted' \in SUBSET [code: 0..MaxCodes, holder: Holders, version: CodeVersions]
  BY <1>0, <1>2 DEF OtpTypeOK
<1>4. ~overlap[h] /\ promised[h] # 0 => Spent(h)'
  <2>1. SUFFICES ASSUME ~overlap[h], promised[h] # 0 PROVE Used(promised[h])'
    BY DEF Spent
  <2>2. checker[c].phase = "matched" /\ promised' = promised
    BY DEF Accept
  <2>3. checker[c].entered = checker[c].seen.code
    BY <2>2 DEF OtpInv, PublishedWasDelivered
  <2>4. checker[c].seen.code = promised[h]
    BY <1>1, <2>1, <2>2, SeenIsPromised DEF ReadsThePromised
  <2> QED
    BY <1>2, <2>2, <2>3, <2>4 DEF Used
<1>5. /\ tries' \in [Holders -> 0..(MaxTries + 1)] /\ resend' \in [Holders -> BOOLEAN]
      /\ \A g \in Holders \ {h} : tries'[g] = tries[g]
  BY <1>0, <1>1 DEF Accept, Clear, OtpTypeOK
<1>6. /\ checker[c].phase # "idle" /\ Drop(h) /\ CheckerRests(c)
      /\ UNCHANGED <<issued, issuer, delivered, aged, promised, overlap>>
  BY <1>1 DEF Accept
<1>7. /\ checker' \in [Checkers -> Checker] /\ checker'[c].phase = "idle"
      /\ \A d \in Checkers \ {c} : checker'[d] = checker[d]
  BY <1>0, <1>6, CheckerEnds
<1> QED
  BY <1>1, <1>3, <1>4, <1>5, <1>6, <1>7, VerifyStepKeepsInv

-----------------------------------------------------------------------------
(* Time.                                                                   *)

LEMMA TimeKeepsInv ==
  ASSUME OtpInv, NEW h \in Holders,
         challenge' = challenge \/ (Drop(h) /\ challenge[h].code \in aged'),
         resend' \in [Holders -> BOOLEAN],
         aged \subseteq aged', aged' \in SUBSET Codes,
         UNCHANGED <<tries, issued, issuer, checker, delivered, accepted, promised, overlap>>
  PROVE  OtpInv'
<1>0. OtpTypeOK /\ PublishedWasDelivered /\ OneCodeAtATime
  BY DEF OtpInv
<1>1. /\ challenge' \in [Holders -> Challenge]
      /\ challenge'[h] \in {challenge[h], NoChallenge}
      /\ \A g \in Holders \ {h} : challenge'[g] = challenge[g]
  BY <1>0, DropKeyOf DEF OtpTypeOK
<1>2. OtpTypeOK'
  BY <1>0, <1>1 DEF OtpTypeOK
<1>3. \A g \in Holders : challenge'[g].sent => challenge'[g] = challenge[g]
  BY <1>1, IdleTypes
<1>4. PublishedWasDelivered'
  BY <1>0, <1>3 DEF PublishedWasDelivered
<1>5. \A g \in Holders : Spent(g) => Spent(g)'
  BY <1>0, SpentStays
<1>6. ASSUME NEW g \in Holders
      PROVE  \/ challenge'[g] = challenge[g]
             \/ challenge'[g] = NoChallenge /\ ((~overlap[g] /\ promised[g] # 0) => Spent(g)')
  <2>1. CASE g = h /\ Drop(h) /\ challenge[h].code \in aged'
    <3>1. ASSUME ~overlap[h], promised[h] # 0, challenge[h] # NoChallenge PROVE Spent(h)'
      <4>1. challenge[h].code = promised[h]
        BY <1>0, <3>1 DEF OneCodeAtATime, KeepsItsPromise
      <4> QED
        BY <2>1, <4>1 DEF Spent
    <3> QED
      BY <1>0, <2>1, <3>1, DropKeyOf
  <2> QED
    BY <1>1, <2>1
<1>7. OneCodeAtATime'
  BY <1>0, <1>5, <1>6, KeepsOneCode DEF OneCodeAtATime
<1> QED
  BY <1>2, <1>4, <1>7 DEF OtpInv

LEMMA ResendRunsOutKeepsInv ==
  ASSUME OtpInv, NEW h \in Holders, ResendRunsOut(h) PROVE OtpInv'
<1>1. resend' \in [Holders -> BOOLEAN] /\ aged' = aged /\ aged \in SUBSET Codes /\ challenge' = challenge
  BY DEF OtpInv, OtpTypeOK, ResendRunsOut
<1> QED
  BY <1>1, TimeKeepsInv DEF ResendRunsOut

LEMMA CodeAgesKeepsInv ==
  ASSUME OtpInv, NEW h \in Holders, CodeAges(h) PROVE OtpInv'
<1>1. challenge[h].code \in Codes
  BY DEF OtpInv, OtpTypeOK, Challenge, CodeAges
<1>2. /\ resend' \in [Holders -> BOOLEAN] /\ aged \subseteq aged' /\ aged' \in SUBSET Codes
      /\ challenge' = challenge
  BY <1>1 DEF OtpInv, OtpTypeOK, CodeAges
<1> QED
  BY <1>2, TimeKeepsInv DEF CodeAges

LEMMA ChallengeVanishesKeepsInv ==
  ASSUME OtpInv, NEW h \in Holders, ChallengeVanishes(h) PROVE OtpInv'
<1>1. /\ resend' \in [Holders -> BOOLEAN] /\ aged' = aged /\ aged' \in SUBSET Codes
      /\ challenge[h].code \in aged' /\ Drop(h)
  BY DEF OtpInv, OtpTypeOK, ChallengeVanishes
<1> QED
  BY <1>1, TimeKeepsInv DEF ChallengeVanishes

-----------------------------------------------------------------------------
LEMMA OtpInvInit == OtpInit => OtpInv
<1> SUFFICES ASSUME OtpInit PROVE OtpInv
  OBVIOUS
<1>1. OtpTypeOK
  BY IdleTypes, OtpAssumption DEF OtpInit, OtpTypeOK
<1>2. /\ \A i \in Issuers : issuer[i].phase = "idle"
      /\ \A c \in Checkers : checker[c].phase = "idle"
      /\ \A h \in Holders : ~challenge[h].sent /\ promised[h] = 0
  BY IdleTypes DEF OtpInit
<1>3. PublishedWasDelivered
  BY <1>2 DEF PublishedWasDelivered
<1>4. OneCodeAtATime
  BY <1>2 DEF OneCodeAtATime, Issuing
<1> QED
  BY <1>1, <1>3, <1>4 DEF OtpInv

LEMMA OtpInvStep == OtpInv /\ [OtpNext]_otpVars => OtpInv'
<1> SUFFICES ASSUME OtpInv, [OtpNext]_otpVars PROVE OtpInv'
  OBVIOUS
<1>1. CASE OtpNext
  BY <1>1, ClaimKeepsInv, ClearTriesKeepsInv, StoreKeepsInv, DeliverKeepsInv, PublishKeepsInv, UndoKeepsInv,
     IssuerDiesKeepsInv, FetchKeepsInv, DropAgedKeepsInv, CountTryKeepsInv, DropExceededKeepsInv, AcceptKeepsInv,
     CheckerDiesKeepsInv, ResendRunsOutKeepsInv, CodeAgesKeepsInv, ChallengeVanishesKeepsInv
     DEF OtpNext, KeysOf, IssueStep, VerifyStep
<1>2. CASE UNCHANGED otpVars
  BY <1>2 DEF otpVars, OtpInv, OtpTypeOK, PublishedWasDelivered, OneCodeAtATime, IssuesAlone,
              KeepsItsPromise, ReadsThePromised, Spent, Used, Issuing, Checking
<1> QED
  BY <1>1, <1>2

LEMMA OtpInvariant == OtpSpec => []OtpInv
BY OtpInvInit, OtpInvStep, PTL DEF OtpSpec

(* Every key and every request in flight keeps its type, and the attempts  *)
(* stay within their limit, for any number of requests and codes.          *)
THEOREM OtpTyping == OtpSpec => []OtpTypeOK
<1>1. OtpInv => OtpTypeOK
  BY DEF OtpInv
<1> QED
  BY <1>1, OtpInvariant, PTL

(* The promised code is the one that verify accepts until it is used, has  *)
(* expired or had its tries, for any number of overlapping verifications   *)
(* and whatever requests die: without a second issue nobody can hold       *)
(* another code of the same holder, and whoever drops the challenge had    *)
(* read this very code as spent.                                           *)
THEOREM PromisedCodeWorks == OtpSpec => []DeliveredCodeWorks
<1>1. ASSUME OtpInv PROVE DeliveredCodeWorks
  <2>1. SUFFICES ASSUME NEW h \in Holders, promised[h] # 0, ~overlap[h],
                        promised[h] \notin aged \cup {a.code : a \in accepted}, tries[h] < MaxTries
                 PROVE  challenge[h].code = promised[h] /\ challenge[h].sent
    BY DEF DeliveredCodeWorks
  <2>2. ~Spent(h)
    BY <1>1, <2>1, OtpAssumption DEF Spent, Used, OtpInv, OtpTypeOK
  <2>3. KeepsItsPromise(h)
    BY <1>1, <2>1 DEF OtpInv, OneCodeAtATime
  <2> QED
    BY <2>2, <2>3 DEF KeepsItsPromise
<1> QED
  BY <1>1, OtpInvariant, PTL

-----------------------------------------------------------------------------
(* SigningWithOtp.                                                         *)

HasCode(p, v) == \E d \in delivered \cap accepted : d.holder = p /\ d.version = v

(* A verification is of its own request, and a request goes on only with a *)
(* code that was sent for its version and accepted.                        *)
VerifiesItsOwn(r) ==
  /\ checker[r].phase # "idle" =>
       /\ request[r].phase = "loaded"
       /\ checker[r].holder = request[r].party
       /\ checker[r].version = request[r].version
  /\ request[r].phase \in {"verified", "inserted"} =>
       HasCode(request[r].party, request[r].version)

ConfirmedByCode ==
  /\ \A r \in Requests : VerifiesItsOwn(r)
  /\ \A s \in signatures : HasCode(s.party, s.version)

Typed == TypeOK /\ OtpInv

-----------------------------------------------------------------------------
(* Each step is a step of either part.                                     *)

LEMMA SigningStep == [ConfirmNext]_confirmVars => [Next]_vars
<1> SUFFICES ASSUME ConfirmNext PROVE Next \/ UNCHANGED vars
  BY DEF confirmVars
<1>1. CASE DealChanges
  BY <1>1 DEF DealChanges, Next
<1>2. CASE \E p \in Parties : ReadForOtp(p) \/ \E i \in Issuers : IssueOtp(i, p)
  BY <1>2 DEF ReadForOtp, IssueOtp, signingVars
<1>3. ASSUME NEW r \in Requests, ConfirmStep(r) PROVE Next \/ UNCHANGED vars
  <2>1. CASE BeginVerify(r)
    BY <2>1 DEF BeginVerify, signingVars
  <2>2. CASE NothingToVerify(r) \/ Dies(r)
    BY <2>2 DEF NothingToVerify, Dies, Next, Confirm
  <2>3. CASE Verifying(r)
    BY <2>3 DEF Verifying, Next, Confirm, signingVars
  <2>4. CASE AcceptAndGoOn(r)
    BY <2>4 DEF AcceptAndGoOn, Next, Confirm
  <2>5. CASE Elsewhere(r)
    BY <2>5 DEF Elsewhere, Next, Confirm
  <2> QED
    BY <1>3, <2>1, <2>2, <2>3, <2>4, <2>5 DEF ConfirmStep
<1>4. CASE KeysChange
  BY <1>4 DEF KeysChange, signingVars
<1> QED
  BY <1>1, <1>2, <1>3, <1>4 DEF ConfirmNext

LEMMA CodesStep == TypeOK /\ [ConfirmNext]_confirmVars => [OtpNext]_otpVars
<1> SUFFICES ASSUME TypeOK, ConfirmNext PROVE OtpNext \/ UNCHANGED otpVars
  BY DEF confirmVars
<1>1. CASE DealChanges
  BY <1>1 DEF DealChanges
<1>2. ASSUME NEW p \in Parties, ReadForOtp(p) \/ \E i \in Issuers : IssueOtp(i, p)
      PROVE  OtpNext \/ UNCHANGED otpVars
  BY <1>2, CompositionAssumption DEF ReadForOtp, IssueOtp, OtpNext, KeysOf
<1>3. ASSUME NEW r \in Requests, ConfirmStep(r) PROVE OtpNext \/ UNCHANGED otpVars
  <2>0. request[r].party \in Holders /\ request[r].version \in CodeVersions /\ r \in Checkers
    BY CompositionAssumption DEF TypeOK, Request
  <2>1. CASE BeginVerify(r)
    BY <2>0, <2>1 DEF BeginVerify, OtpNext, KeysOf
  <2>2. CASE NothingToVerify(r) \/ Dies(r)
    BY <2>0, <2>2 DEF NothingToVerify, Dies, OtpNext, VerifyStep
  <2>3. CASE Verifying(r)
    BY <2>0, <2>3 DEF Verifying, OtpNext, VerifyStep
  <2>4. CASE AcceptAndGoOn(r)
    BY <2>0, <2>4 DEF AcceptAndGoOn, OtpNext, VerifyStep
  <2>5. CASE Elsewhere(r)
    BY <2>5 DEF Elsewhere
  <2> QED
    BY <1>3, <2>1, <2>2, <2>3, <2>4, <2>5 DEF ConfirmStep
<1>4. CASE KeysChange
  BY <1>4 DEF KeysChange, OtpNext, KeysOf
<1> QED
  BY <1>1, <1>2, <1>3, <1>4 DEF ConfirmNext

(* The composition refines both parts: a confirm request with its Redis    *)
(* calls does what Signing says of it in one step, or nothing yet.         *)
THEOREM RefinesSigning == ConfirmSpec => Spec
BY SigningStep, PTL DEF ConfirmSpec, ConfirmInit, Spec

THEOREM RefinesCodes == ConfirmSpec => OtpSpec
<1>1. ConfirmSpec => []TypeOK
  BY RefinesSigning, Typing, PTL
<1> QED
  BY <1>1, CodesStep, PTL DEF ConfirmSpec, ConfirmInit, OtpSpec

-----------------------------------------------------------------------------
(* Signatures and codes.                                                   *)

LEMMA CodeStays ==
  ASSUME delivered \subseteq delivered', accepted \subseteq accepted', NEW p, NEW v, HasCode(p, v)
  PROVE  HasCode(p, v)'
BY DEF HasCode

(* No step of the codes forgets a code that was sent or accepted.          *)
LEMMA CodesGrow ==
  ASSUME [OtpNext]_otpVars
  PROVE  delivered \subseteq delivered' /\ accepted \subseteq accepted'
<1>1. CASE OtpNext
  <2>1. ASSUME NEW h \in Holders, KeysOf(h)
        PROVE  delivered \subseteq delivered' /\ accepted \subseteq accepted'
    BY <2>1 DEF KeysOf, Claim, Fetch, ResendRunsOut, CodeAges, ChallengeVanishes
  <2>2. ASSUME NEW i \in Issuers, IssueStep(i)
        PROVE  delivered \subseteq delivered' /\ accepted \subseteq accepted'
    BY <2>2 DEF IssueStep, ClearTries, Store, Deliver, Publish, Undo, IssuerDies
  <2>3. ASSUME NEW c \in Checkers, VerifyStep(c)
        PROVE  delivered \subseteq delivered' /\ accepted \subseteq accepted'
    BY <2>3 DEF VerifyStep, DropAged, CountTry, DropExceeded, Accept, CheckerDies
  <2> QED
    BY <1>1, <2>1, <2>2, <2>3 DEF OtpNext
<1>2. CASE UNCHANGED otpVars
  BY <1>2 DEF otpVars
<1> QED
  BY <1>1, <1>2

LEMMA OneRequestMoves ==
  ASSUME ConfirmedByCode, NEW r \in Requests,
         delivered \subseteq delivered', accepted \subseteq accepted',
         \A o \in Requests \ {r} : request'[o] = request[o] /\ checker'[o] = checker[o],
         VerifiesItsOwn(r)',
         \A s \in signatures' : s \in signatures \/ HasCode(s.party, s.version)'
  PROVE  ConfirmedByCode'
<1>1. ASSUME NEW o \in Requests \ {r} PROVE VerifiesItsOwn(o)'
  BY <1>1, CodeStays DEF ConfirmedByCode, VerifiesItsOwn
<1>2. ASSUME NEW s \in signatures' PROVE HasCode(s.party, s.version)'
  BY <1>2, CodeStays DEF ConfirmedByCode
<1> QED
  BY <1>1, <1>2 DEF ConfirmedByCode

LEMMA NoRequestMoves ==
  ASSUME ConfirmedByCode,
         delivered \subseteq delivered', accepted \subseteq accepted',
         UNCHANGED <<request, checker, signatures>>
  PROVE  ConfirmedByCode'
<1>1. ASSUME NEW o \in Requests PROVE VerifiesItsOwn(o)'
  BY <1>1, CodeStays DEF ConfirmedByCode, VerifiesItsOwn
<1>2. ASSUME NEW s \in signatures' PROVE HasCode(s.party, s.version)'
  BY <1>2, CodeStays DEF ConfirmedByCode
<1> QED
  BY <1>1, <1>2 DEF ConfirmedByCode

(* A request whose phase alone changes.                                    *)
LEMMA AdvanceIs ==
  ASSUME TypeOK, NEW r \in Requests, NEW phase \in Phases, Advance(r, phase)
  PROVE  /\ request'[r].phase = phase
         /\ request'[r].party = request[r].party /\ request'[r].version = request[r].version
         /\ \A o \in Requests \ {r} : request'[o] = request[o]
BY DEF TypeOK, Request, Advance

LEMMA FailKeepsCodes ==
  ASSUME ConfirmedByCode, TypeOK, NEW r \in Requests, Fail(r), checker'[r].phase = "idle",
         \A o \in Requests \ {r} : checker'[o] = checker[o],
         delivered \subseteq delivered', accepted \subseteq accepted'
  PROVE  ConfirmedByCode'
<1>1. request'[r].phase = "idle" /\ \A o \in Requests \ {r} : request'[o] = request[o]
  BY AdvanceIs DEF Fail, Phases
<1>2. VerifiesItsOwn(r)'
  BY <1>1 DEF VerifiesItsOwn
<1>3. signatures' = signatures
  BY DEF Fail
<1> QED
  BY <1>1, <1>2, <1>3, OneRequestMoves

LEMMA VerifyingKeepsCodes ==
  ASSUME Typed, ConfirmedByCode, NEW r \in Requests, Verifying(r),
         delivered \subseteq delivered', accepted \subseteq accepted'
  PROVE  ConfirmedByCode'
<1>0. OtpTypeOK /\ TypeOK /\ r \in Checkers
  BY CompositionAssumption DEF Typed, OtpInv
<1>1. \/ CheckerRests(r)
      \/ \E phase \in {"exceeded", "matched"} : checker' = [checker EXCEPT ![r].phase = phase]
  BY DEF Verifying, DropAged, CountTry, DropExceeded
<1>2. checker[r].phase # "idle"
  BY DEF Verifying, DropAged, CountTry, DropExceeded
<1>3. CASE CheckerRests(r)
  <2>1. checker'[r].phase = "idle" /\ \A o \in Requests \ {r} : checker'[o] = checker[o]
    BY <1>0, <1>3, CheckerEnds, CompositionAssumption
  <2> QED
    BY <1>0, <2>1, FailKeepsCodes DEF Verifying
<1>4. ASSUME NEW phase \in {"exceeded", "matched"}, checker' = [checker EXCEPT ![r].phase = phase]
      PROVE  ConfirmedByCode'
  <2>1. /\ checker'[r].phase = phase /\ checker'[r].holder = checker[r].holder
        /\ checker'[r].version = checker[r].version
        /\ \A o \in Requests \ {r} : checker'[o] = checker[o]
    BY <1>0, <1>4, CheckerAdvances, CompositionAssumption
  <2>2. UNCHANGED <<request, signatures>>
    BY <2>1 DEF Verifying, signingVars, vars
  <2>3. VerifiesItsOwn(r)'
    BY <1>2, <2>1, <2>2 DEF ConfirmedByCode, VerifiesItsOwn
  <2> QED
    BY <2>1, <2>2, <2>3, OneRequestMoves
<1> QED
  BY <1>1, <1>3, <1>4

(* The code that was accepted left for this holder and version: it is the  *)
(* code of a challenge that names its channel.                             *)
LEMMA AcceptKeepsCodes ==
  ASSUME Typed, ConfirmedByCode, NEW r \in Requests, AcceptAndGoOn(r),
         delivered \subseteq delivered', accepted \subseteq accepted'
  PROVE  ConfirmedByCode'
<1>0. OtpTypeOK /\ TypeOK /\ PublishedWasDelivered /\ r \in Checkers
  BY CompositionAssumption DEF Typed, OtpInv
<1>1. /\ checker[r].phase = "matched" /\ Accept(r) /\ VerifyOtp(r)
  BY DEF AcceptAndGoOn, Accept
<1>2. checker'[r].phase = "idle" /\ \A o \in Requests \ {r} : checker'[o] = checker[o]
  BY <1>0, <1>1, CheckerEnds, CompositionAssumption DEF Accept
<1>3. /\ request'[r].phase = "verified"
      /\ request'[r].party = request[r].party /\ request'[r].version = request[r].version
      /\ \A o \in Requests \ {r} : request'[o] = request[o]
  BY <1>0, <1>1, AdvanceIs DEF VerifyOtp, Phases
<1>4. /\ checker[r].entered = checker[r].seen.code
      /\ CodeOf(checker[r].holder, checker[r].seen.code, checker[r].version) \in delivered
  BY <1>0, <1>1 DEF PublishedWasDelivered
<1>5. checker[r].holder = request[r].party /\ checker[r].version = request[r].version
  BY <1>1 DEF ConfirmedByCode, VerifiesItsOwn
<1> DEFINE d == CodeOf(request[r].party, checker[r].entered, request[r].version)
<1>6. d \in delivered /\ d.holder = request[r].party /\ d.version = request[r].version
  BY <1>4, <1>5 DEF CodeOf
<1>7. d \in accepted'
  BY <1>1, <1>5 DEF Accept, CodeOf
<1> HIDE DEF d
<1>8. VerifiesItsOwn(r)'
  BY <1>2, <1>3, <1>6, <1>7 DEF VerifiesItsOwn, HasCode
<1>9. signatures' = signatures
  BY <1>1 DEF VerifyOtp
<1> QED
  BY <1>2, <1>3, <1>8, <1>9, OneRequestMoves

LEMMA ElsewhereKeepsCodes ==
  ASSUME Typed, ConfirmedByCode, NEW r \in Requests, Elsewhere(r)
  PROVE  ConfirmedByCode'
<1>0. TypeOK /\ VerifiesItsOwn(r) /\ UNCHANGED <<checker, delivered, accepted>>
  BY DEF Typed, ConfirmedByCode, Elsewhere, otpVars
<1>1. request[r].phase # "loaded"
  BY DEF Elsewhere, Load, FindExisting, InsertAndCount, Commit, ReadState, EnsureFinalPdf,
         EnsureEvidencePackage, Complete
<1>2. checker'[r].phase = "idle"
  BY <1>0, <1>1 DEF VerifiesItsOwn
<1>3. CASE Load(r)
  <2>1. /\ request'[r].phase \in {"completing", "loaded"}
        /\ \A o \in Requests \ {r} : request'[o] = request[o]
        /\ signatures' = signatures
    BY <1>0, <1>3 DEF Load, TypeOK
  <2>2. VerifiesItsOwn(r)'
    BY <1>2, <2>1 DEF VerifiesItsOwn
  <2> QED
    BY <1>0, <2>1, <2>2, OneRequestMoves
<1>4. CASE InsertAndCount(r)
  <2>1. /\ request[r].phase = "verified"
        /\ request'[r].party = request[r].party /\ request'[r].version = request[r].version
        /\ \A o \in Requests \ {r} : request'[o] = request[o]
        /\ signatures' = signatures
    BY <1>0, <1>4 DEF InsertAndCount, TypeOK, Request
  <2>2. VerifiesItsOwn(r)'
    BY <1>0, <1>2, <2>1 DEF VerifiesItsOwn, HasCode
  <2> QED
    BY <1>0, <2>1, <2>2, OneRequestMoves
<1>5. CASE Commit(r)
  <2>1. /\ request[r].phase = "inserted" /\ request'[r].phase = "confirmed"
        /\ \A o \in Requests \ {r} : request'[o] = request[o]
    BY <1>0, <1>5, AdvanceIs DEF Commit, Phases
  <2>2. HasCode(request[r].party, request[r].version)
    BY <1>0, <2>1 DEF VerifiesItsOwn
  <2>3. \A s \in signatures' : s \in signatures \/ HasCode(s.party, s.version)'
    <3>1. SUFFICES ASSUME NEW s \in signatures', s \notin signatures PROVE HasCode(s.party, s.version)'
      OBVIOUS
    <3>2. s.party = request[r].party /\ s.version = request[r].version
      BY <1>5, <3>1 DEF Commit
    <3> QED
      BY <1>0, <2>2, <3>2 DEF HasCode
  <2>4. VerifiesItsOwn(r)'
    BY <1>2, <2>1 DEF VerifiesItsOwn
  <2> QED
    BY <1>0, <2>1, <2>3, <2>4, OneRequestMoves
<1>6. CASE FindExisting(r) \/ ReadState(r) \/ EnsureFinalPdf(r) \/ EnsureEvidencePackage(r) \/ Complete(r)
  <2>1. /\ \E phase \in {"confirmed", "completing", "idle", "rendered", "packaged"} : Advance(r, phase)
        /\ signatures' = signatures
    BY <1>6 DEF FindExisting, ReadState, EnsureFinalPdf, EnsureEvidencePackage, Complete, Ensure
  <2>2. /\ request'[r].phase \in {"confirmed", "completing", "idle", "rendered", "packaged"}
        /\ \A o \in Requests \ {r} : request'[o] = request[o]
    BY <1>0, <2>1, AdvanceIs DEF Phases
  <2>3. VerifiesItsOwn(r)'
    BY <1>2, <2>2 DEF VerifiesItsOwn
  <2> QED
    BY <1>0, <2>1, <2>2, <2>3, OneRequestMoves
<1> QED
  BY <1>3, <1>4, <1>5, <1>6 DEF Elsewhere

LEMMA RequestKeepsCodes ==
  ASSUME Typed, ConfirmedByCode, NEW r \in Requests, ConfirmStep(r),
         delivered \subseteq delivered', accepted \subseteq accepted'
  PROVE  ConfirmedByCode'
<1>0. OtpTypeOK /\ TypeOK /\ r \in Checkers /\ Checkers = Requests
  BY CompositionAssumption DEF Typed, OtpInv
<1>1. CASE BeginVerify(r)
  <2>1. PICK e : checker' = [checker EXCEPT ![r] =
            [phase |-> "fetched", holder |-> request[r].party, version |-> request[r].version,
             entered |-> e, seen |-> challenge[request[r].party]]]
    BY <1>1 DEF BeginVerify, Fetch
  <2>2. /\ checker'[r].holder = request[r].party /\ checker'[r].version = request[r].version
        /\ \A o \in Requests \ {r} : checker'[o] = checker[o]
    BY <1>0, <2>1 DEF OtpTypeOK
  <2>3. UNCHANGED <<request, signatures>> /\ request[r].phase = "loaded"
    BY <1>1 DEF BeginVerify, signingVars, vars
  <2>4. VerifiesItsOwn(r)'
    BY <2>2, <2>3 DEF VerifiesItsOwn
  <2> QED
    BY <2>2, <2>3, <2>4, OneRequestMoves
<1>2. CASE NothingToVerify(r)
  BY <1>0, <1>2, FailKeepsCodes DEF NothingToVerify, otpVars
<1>3. CASE Dies(r)
  <2>1. checker'[r].phase = "idle" /\ \A o \in Requests \ {r} : checker'[o] = checker[o]
    BY <1>0, <1>3, CheckerEnds DEF Dies, CheckerDies, otpVars
  <2> QED
    BY <1>0, <1>3, <2>1, FailKeepsCodes DEF Dies
<1> QED
  BY <1>1, <1>2, <1>3, VerifyingKeepsCodes, AcceptKeepsCodes, ElsewhereKeepsCodes DEF ConfirmStep

LEMMA CodesKept ==
  Typed /\ ConfirmedByCode /\ [ConfirmNext]_confirmVars => ConfirmedByCode'
<1> SUFFICES ASSUME Typed, ConfirmedByCode, [ConfirmNext]_confirmVars PROVE ConfirmedByCode'
  OBVIOUS
<1>1. delivered \subseteq delivered' /\ accepted \subseteq accepted'
  BY CodesStep, CodesGrow DEF Typed
<1>2. CASE DealChanges
  BY <1>1, <1>2, NoRequestMoves DEF DealChanges, NewVersion, AllApproved, otpVars
<1>3. CASE \E p \in Parties : ReadForOtp(p) \/ \E i \in Issuers : IssueOtp(i, p)
  <2>1. UNCHANGED <<request, checker, signatures>>
    BY <1>3 DEF ReadForOtp, IssueOtp, Claim, signingVars, vars, otpVars
  <2> QED
    BY <1>1, <2>1, NoRequestMoves
<1>4. CASE \E r \in Requests : ConfirmStep(r)
  BY <1>1, <1>4, RequestKeepsCodes
<1>5. CASE KeysChange
  <2>1. UNCHANGED <<request, signatures>>
    BY <1>5 DEF KeysChange, signingVars, vars
  <2>2. UNCHANGED checker
    BY <1>5 DEF KeysChange, IssueStep, ClearTries, Store, Deliver, Publish, Undo, IssuerDies,
                ResendRunsOut, CodeAges, ChallengeVanishes
  <2> QED
    BY <1>1, <2>1, <2>2, NoRequestMoves
<1>6. CASE UNCHANGED confirmVars
  BY <1>1, <1>6, NoRequestMoves DEF confirmVars, vars, otpVars
<1> QED
  BY <1>2, <1>3, <1>4, <1>5, <1>6 DEF ConfirmNext

LEMMA CodesInit == ConfirmInit => ConfirmedByCode
<1> SUFFICES ASSUME ConfirmInit PROVE ConfirmedByCode
  OBVIOUS
<1>1. /\ \A r \in Requests : request[r].phase = "idle" /\ checker[r].phase = "idle"
      /\ signatures = {}
  BY IdleTypes, CompositionAssumption DEF ConfirmInit, Init, OtpInit
<1> QED
  BY <1>1 DEF ConfirmedByCode, VerifiesItsOwn

(* Every signature was confirmed by a code sent to its signer for exactly  *)
(* its version, for any number of requests, codes and versions: a request  *)
(* verifies for the version it loaded, and a challenge that is accepted    *)
(* names the version its code was sent for.                                *)
THEOREM SignaturesHaveCodes == ConfirmSpec => []SignatureHasCode
<1>1. ConfirmSpec => []Typed
  <2>1. TypeOK /\ OtpInv => Typed
    BY DEF Typed
  <2> QED
    BY <2>1, RefinesSigning, RefinesCodes, Typing, OtpInvariant, PTL
<1>2. ConfirmedByCode => SignatureHasCode
  BY DEF ConfirmedByCode, SignatureHasCode, HasCode
<1> QED
  BY <1>1, <1>2, CodesInit, CodesKept, PTL DEF ConfirmSpec

(* What Signing proves of completion holds with one-time codes as well.    *)
THEOREM CompletionWithCodes ==
  ConfirmSpec => ImplementsCompletion /\ [](CompletedIsSigned /\ DeliveriesOfCompletion)
BY RefinesSigning, CompletionRefinement, CompletionIsSigned, CompletionDelivers, PTL
=============================================================================
