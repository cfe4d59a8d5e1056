-------------------------- MODULE StoredDocuments --------------------------
(***************************************************************************)
(* Objects in storage and the rows that name them: uploads of deal files   *)
(* (apps/api/src/files/files.service.ts) and the two artifacts of a signed *)
(* deal (artifacts/deal-artifacts.service.ts).  Each writes the object     *)
(* first, the row in a transaction afterwards, and deletes the object when *)
(* the transaction throws.  A put, a commit and a delete may each happen   *)
(* although the caller is told that they failed.                           *)
(*                                                                         *)
(* The deal is signed; uploads do not look at its status.  A key is drawn  *)
(* at random for each put and never drawn twice.                           *)
(***************************************************************************)
EXTENDS Integers, FiniteSets

CONSTANTS
  Writers,         \* requests in flight that store a document
  UploadCapacity,  \* uploads the interceptor lets through at once
  MaxKeys          \* bound on object keys drawn

ASSUME StorageAssumption == UploadCapacity \in Nat /\ MaxKeys \in Nat

Kinds == {"FILE", "FINAL_PDF", "EVIDENCE_ZIP"}
Keys == 1..MaxKeys

VARIABLES
  drawn,      \* keys drawn so far
  objects,    \* keys that storage holds an object under
  files,      \* object keys of deal_files rows
  artifact,   \* object key of the deal_artifacts row of each type, 0 when none
  packed,     \* what the package under each key was built from
  writer,     \* requests in flight
  unheard,    \* keys of rows whose commit was not answered
  abandoned   \* keys of objects whose writer died or was not answered

documentVars == <<drawn, objects, files, artifact, packed, writer, unheard, abandoned>>

ArtifactKinds == Kinds \ {"FILE"}
Rest == [phase |-> "idle", kind |-> "FILE", key |-> 0, needs |-> {}]

DocumentsInit ==
  /\ drawn = 0
  /\ objects = {}
  /\ files = {}
  /\ artifact = [k \in ArtifactKinds |-> 0]
  /\ packed = [k \in Keys |-> {}]
  /\ writer = [w \in Writers |-> Rest]
  /\ unheard = {}
  /\ abandoned = {}

-----------------------------------------------------------------------------
WriterTo(w, phase) == writer' = [writer EXCEPT ![w].phase = phase]
WriterRests(w) == writer' = [writer EXCEPT ![w] = Rest]
Begin(w, kind, phase, needs) ==
  /\ writer[w].phase = "idle"
  /\ writer' = [writer EXCEPT ![w] = [phase |-> phase, kind |-> kind, key |-> 0, needs |-> needs]]
  /\ UNCHANGED <<drawn, objects, files, artifact, packed, unheard, abandoned>>

Uploading == {w \in Writers : writer[w].phase # "idle" /\ writer[w].kind = "FILE"}

BeginUpload(w) ==
  /\ Cardinality(Uploading) < UploadCapacity
  /\ Begin(w, "FILE", "ready", {})

(* The PDF is rendered from the frozen snapshot, unless a row is there.    *)
BeginFinalPdf(w) ==
  /\ artifact["FINAL_PDF"] = 0
  /\ Begin(w, "FINAL_PDF", "ready", {})

(* The package is made of the PDF its row names and of every file.         *)
PackageNeeds == {artifact["FINAL_PDF"]} \cup files

BeginPackage(w) ==
  /\ artifact["FINAL_PDF"] # 0
  /\ artifact["EVIDENCE_ZIP"] = 0
  /\ Begin(w, "EVIDENCE_ZIP", "collecting", PackageNeeds)

(* Every object must be there; one that is missing ends the request.       *)
Collect(w) ==
  /\ writer[w].phase = "collecting"
  /\ IF writer[w].needs \subseteq objects THEN WriterTo(w, "ready") ELSE WriterRests(w)
  /\ UNCHANGED <<drawn, objects, files, artifact, packed, unheard, abandoned>>

(* putObject comes before the try block: when it throws, nothing is        *)
(* deleted, whether the object arrived or not.                             *)
PutObject(w) ==
  LET k == drawn + 1 IN
  /\ writer[w].phase = "ready"
  /\ drawn < MaxKeys
  /\ drawn' = k
  /\ packed' = [packed EXCEPT ![k] = writer[w].needs]
  /\ \/ /\ objects' = objects \cup {k}
        /\ writer' = [writer EXCEPT ![w].phase = "stored", ![w].key = k, ![w].needs = {}]
        /\ UNCHANGED abandoned
     \/ objects' = objects \cup {k} /\ WriterRests(w) /\ abandoned' = abandoned \cup {k}
     \/ WriterRests(w) /\ UNCHANGED <<objects, abandoned>>
  /\ UNCHANGED <<files, artifact, unheard>>

(* The unique index on (version, type) admits one artifact of each type.   *)
TakenPackage(kind) == kind = "EVIDENCE_ZIP" /\ artifact[kind] # 0
Taken(kind) == kind # "FILE" /\ artifact[kind] # 0

InsertRow(w) ==
  LET q == writer[w] IN
  /\ IF q.kind = "FILE" THEN files' = files \cup {q.key} /\ UNCHANGED artifact
                        ELSE artifact' = [artifact EXCEPT ![q.kind] = q.key] /\ UNCHANGED files

CommitRow(w) ==
  LET q == writer[w] IN
  /\ q.phase = "stored"
  /\ ~Taken(q.kind)
  /\ InsertRow(w)
  /\ \/ WriterRests(w) /\ UNCHANGED unheard
     \/ WriterTo(w, "cleanup") /\ unheard' = unheard \cup {q.key}
  /\ UNCHANGED <<drawn, objects, packed, abandoned>>

(* The row exists already, or the transaction fails for another reason.    *)
CommitFails(w) ==
  /\ writer[w].phase = "stored"
  /\ WriterTo(w, "cleanup")
  /\ UNCHANGED <<drawn, objects, files, artifact, packed, unheard, abandoned>>

(* The catch block; a failing delete is swallowed.                         *)
CleanupOfRow(w) == IF Taken(writer[w].kind) THEN artifact[writer[w].kind] ELSE writer[w].key
NoCleanup(w) == 0
Cleanup(w) == writer[w].key

DeleteObject(w) ==
  /\ writer[w].phase = "cleanup"
  /\ \/ objects' = objects \ {Cleanup(w)} /\ UNCHANGED abandoned
     \/ UNCHANGED objects /\ abandoned' = abandoned \cup {writer[w].key}
  /\ WriterRests(w)
  /\ UNCHANGED <<drawn, files, artifact, packed, unheard>>

WriterDies(w) ==
  /\ writer[w].phase # "idle"
  /\ abandoned' = IF writer[w].key = 0 THEN abandoned ELSE abandoned \cup {writer[w].key}
  /\ WriterRests(w)
  /\ UNCHANGED <<drawn, objects, files, artifact, packed, unheard>>

DocumentStep(w) ==
  \/ BeginUpload(w) \/ BeginFinalPdf(w) \/ BeginPackage(w) \/ Collect(w) \/ PutObject(w)
  \/ CommitRow(w) \/ CommitFails(w) \/ DeleteObject(w) \/ WriterDies(w)

DocumentsNext == \E w \in Writers : DocumentStep(w)

DocumentsSpec == DocumentsInit /\ [][DocumentsNext]_documentVars

-----------------------------------------------------------------------------
(* The type invariant; a slot holds a key exactly while its object is      *)
(* stored and its row is not settled.                                      *)
DocumentsTypeOK ==
  /\ drawn \in 0..MaxKeys
  /\ objects \in SUBSET Keys
  /\ files \in SUBSET Keys
  /\ artifact \in [ArtifactKinds -> 0..MaxKeys]
  /\ packed \in [Keys -> SUBSET Keys]
  /\ writer \in [Writers -> [phase: {"idle", "ready", "collecting", "stored", "cleanup"}, kind: Kinds,
                             key: 0..MaxKeys, needs: SUBSET Keys]]
  /\ unheard \in SUBSET Keys
  /\ abandoned \in SUBSET Keys

RowKeys == (files \cup {artifact[k] : k \in ArtifactKinds}) \ {0}
HeldKeys == {writer[w].key : w \in Writers} \ {0}

(* A file or artifact row names an object that exists, however writers of  *)
(* the same artifact race and clean up after one another; it takes a       *)
(* commit whose answer was lost to leave a row without its object.         *)
RowsNameObjects == RowKeys \ unheard \subseteq objects

(* An object nobody names any more is the remains of a request that died,  *)
(* of a put that was not answered or of a delete that failed: no race of   *)
(* two writers of one artifact leaves one.                                 *)
OrphansAreExcused == objects \subseteq RowKeys \cup HeldKeys \cup abandoned

(* The package holds the very PDF that the parties receive, although each  *)
(* of the overlapping completions renders one of its own.                  *)
PackageHoldsThePdf ==
  artifact["EVIDENCE_ZIP"] # 0 => artifact["FINAL_PDF"] \in packed[artifact["EVIDENCE_ZIP"]]
=============================================================================
