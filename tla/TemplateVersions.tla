-------------------------- MODULE TemplateVersions --------------------------
(***************************************************************************)
(* The versions of one contract template, as administrators create, edit,  *)
(* publish and archive them (apps/api/src/admin/admin.service.ts).  No     *)
(* handler locks what it reads: the transactions are READ COMMITTED, so a  *)
(* statement sees what had been committed when it began, and an update     *)
(* that waited for a row looks at that row again but at no new ones.       *)
(***************************************************************************)
EXTENDS Integers, FiniteSets

CONSTANTS
  Admins,              \* requests of administrators in flight
  Schemas,             \* questionnaire schemas that pass assertEditableSchema
  RequirementKeys,     \* keys of document requirements
  MaxTemplateVersions  \* bound on contract_template_versions rows

ASSUME TemplatesAssumption == MaxTemplateVersions \in Nat \ {0} /\ Schemas # {}

Numbers == 1..MaxTemplateVersions

VARIABLES
  stage,     \* status of each version, "none" where there is no row
  schema,    \* questionnaire_schema of each version
  required,  \* keys of the template_document_requirements rows of each version
  admin,     \* requests in flight
  late,      \* versions published while an edit that read them as draft ran
  shared,    \* versions two edits of which overlapped
  mixed      \* versions whose requirements are not those of one edit

templateVars == <<stage, schema, required, admin, late, shared, mixed>>

AnySchema == CHOOSE s \in Schemas : TRUE
AtRest == [phase |-> "idle", number |-> 0, schema |-> AnySchema, keys |-> {}, rows |-> {}, seen |-> {}, held |-> {}]

TemplatesInit ==
  /\ stage = [n \in Numbers |-> IF n = 1 THEN "PUBLISHED" ELSE "none"]
  /\ schema = [n \in Numbers |-> AnySchema]
  /\ required = [n \in Numbers |-> {}]
  /\ admin = [a \in Admins |-> AtRest]
  /\ late = {}
  /\ shared = {}
  /\ mixed = {}

-----------------------------------------------------------------------------
AdminTo(a, phase) == admin' = [admin EXCEPT ![a].phase = phase]
AdminRests(a) == admin' = [admin EXCEPT ![a] = AtRest]
Existing == {n \in Numbers : stage[n] # "none"}
InStage(s) == {n \in Numbers : stage[n] = s}

(* The published version is the source of a draft, else the newest one.    *)
Source == CHOOSE n \in Existing :
            IF InStage("PUBLISHED") # {} THEN stage[n] = "PUBLISHED"
                                         ELSE \A m \in Existing : m <= n

MayDraftAlways == TRUE
MayDraft == InStage("DRAFT") = {}
NextNumber == Cardinality(Existing) + 1

(* The versions and their requirements are queries of one findUnique; they *)
(* are one step here: between them only an edit that began on the draft    *)
(* could change the published version that they copy.                      *)
CreateRead(a) ==
  /\ admin[a].phase = "idle"
  /\ MayDraft
  /\ NextNumber \in Numbers
  /\ admin' = [admin EXCEPT ![a] = [AtRest EXCEPT !.phase = "creating", !.number = NextNumber,
       !.schema = schema[Source], !.keys = required[Source]]]
  /\ UNCHANGED <<stage, schema, required, late, shared, mixed>>

(* The number is unique; a request that lost the race for it fails.        *)
CreateCommit(a) ==
  LET q == admin[a] IN
  /\ q.phase = "creating"
  /\ stage[q.number] = "none"
  /\ stage' = [stage EXCEPT ![q.number] = "DRAFT"]
  /\ schema' = [schema EXCEPT ![q.number] = q.schema]
  /\ required' = [required EXCEPT ![q.number] = q.keys]
  /\ AdminRests(a)
  /\ UNCHANGED <<late, shared, mixed>>

-----------------------------------------------------------------------------
Editing(n) == {a \in Admins : admin[a].phase \in {"editing", "replaced"} /\ admin[a].number = n}

EditableAlways(n) == stage[n] # "none"
Editable(n) == stage[n] = "DRAFT"

(* updateDraftVersion: the status is checked once, by a plain read.  What  *)
(* the request asks for is not looked at before it is written.             *)
UpdateRead(a) ==
  /\ admin[a].phase = "idle"
  /\ \E n \in Numbers :
       /\ Editable(n)
       /\ admin' = [admin EXCEPT ![a] = [AtRest EXCEPT !.phase = "editing", !.number = n]]
       /\ shared' = IF Editing(n) = {} THEN shared ELSE shared \cup {n}
  /\ UNCHANGED <<stage, schema, required, late, mixed>>

(* deleteMany takes the rows committed by now.                             *)
NoRows(n) == {}
SeenRows(n) == required[n]

ReplaceRequirements(a) ==
  /\ admin[a].phase = "editing"
  /\ admin' = [admin EXCEPT ![a].phase = "replaced", ![a].rows = SeenRows(admin[a].number)]
  /\ UNCHANGED <<stage, schema, required, late, shared, mixed>>

(* The new rows, perhaps a new schema, by id alone, and the commit.  A key *)
(* that another edit committed meanwhile violates the unique index and the *)
(* request fails.  Rows that go now are no longer there for other edits    *)
(* to delete, and the new ones are not in their view.                      *)
UpdateCommit(a) ==
  LET q == admin[a]
      n == q.number
      kept == required[n] \ q.rows IN
  /\ q.phase = "replaced"
  /\ \E keys \in SUBSET (RequirementKeys \ kept) : required' = [required EXCEPT ![n] = kept \cup keys]
  /\ schema' \in {schema} \cup {[schema EXCEPT ![n] = s] : s \in Schemas}
  /\ mixed' = IF kept = {} THEN mixed \ {n} ELSE mixed \cup {n}
  /\ admin' = [b \in Admins |-> IF b = a THEN AtRest
                 ELSE [admin[b] EXCEPT !.rows = IF admin[b].number = n THEN @ \ q.rows ELSE @]]
  /\ UNCHANGED <<stage, late, shared>>

(* An edit of the schema alone leaves the requirements as they are.        *)
UpdateSchema(a) ==
  /\ admin[a].phase = "editing"
  /\ \E s \in Schemas : schema' = [schema EXCEPT ![admin[a].number] = s]
  /\ AdminRests(a)
  /\ UNCHANGED <<stage, required, late, shared, mixed>>

-----------------------------------------------------------------------------
(* publishDraftVersion reads and checks the candidate before its           *)
(* transaction.                                                            *)
PublishRead(a) ==
  /\ admin[a].phase = "idle"
  /\ \E n \in Numbers :
       /\ stage[n] = "DRAFT"
       /\ admin' = [admin EXCEPT ![a] = [AtRest EXCEPT !.phase = "publishing", !.number = n]]
  /\ UNCHANGED <<stage, schema, required, late, shared, mixed>>

(* The archiving statement begins: it has these rows in view.              *)
PublishedRows == InStage("PUBLISHED")

ArchiveStart(a) ==
  /\ admin[a].phase = "publishing"
  /\ admin' = [admin EXCEPT ![a].phase = "archiving", ![a].seen = PublishedRows]
  /\ UNCHANGED <<stage, schema, required, late, shared, mixed>>

(* It takes their locks, waiting for another transaction that has them,    *)
(* and keeps those that are still published.                               *)
ArchiveRows(a) ==
  /\ admin[a].phase = "archiving"
  /\ \A b \in Admins : admin[b].held \cap admin[a].seen = {}
  /\ admin' = [admin EXCEPT ![a].phase = "swapping", ![a].seen = {},
                            ![a].held = admin[a].seen \cap InStage("PUBLISHED")]
  /\ UNCHANGED <<stage, schema, required, late, shared, mixed>>

(* The candidate must still be a draft; then both changes are committed.   *)
Promote(a) ==
  LET q == admin[a] IN
  /\ q.phase = "swapping"
  /\ stage[q.number] = "DRAFT"
  /\ stage' = [n \in Numbers |-> IF n = q.number THEN "PUBLISHED"
                                 ELSE IF n \in q.held THEN "ARCHIVED" ELSE stage[n]]
  /\ late' = IF Editing(q.number) = {} THEN late ELSE late \cup {q.number}
  /\ AdminRests(a)
  /\ UNCHANGED <<schema, required, shared, mixed>>

(* archiveDraftVersion is one guarded update.                              *)
ArchiveDraft(n) ==
  /\ stage[n] = "DRAFT"
  /\ stage' = [stage EXCEPT ![n] = "ARCHIVED"]
  /\ UNCHANGED <<schema, required, admin, late, shared, mixed>>

(* A guard that is false, a violated index, an error or a crash: the       *)
(* transaction is rolled back.                                             *)
AdminFails(a) ==
  /\ admin[a].phase # "idle"
  /\ AdminRests(a)
  /\ UNCHANGED <<stage, schema, required, late, shared, mixed>>

AdminStep(a) ==
  \/ CreateRead(a) \/ CreateCommit(a) \/ UpdateRead(a) \/ ReplaceRequirements(a) \/ UpdateCommit(a)
  \/ UpdateSchema(a) \/ PublishRead(a) \/ ArchiveStart(a) \/ ArchiveRows(a) \/ Promote(a) \/ AdminFails(a)

TemplatesNext == (\E a \in Admins : AdminStep(a)) \/ (\E n \in Numbers : ArchiveDraft(n))

TemplatesSpec == TemplatesInit /\ [][TemplatesNext]_templateVars

-----------------------------------------------------------------------------
(* The type invariant.                                                     *)
TemplatesTypeOK ==
  /\ stage \in [Numbers -> {"none", "DRAFT", "PUBLISHED", "ARCHIVED"}]
  /\ schema \in [Numbers -> Schemas]
  /\ required \in [Numbers -> SUBSET RequirementKeys]
  /\ admin \in [Admins -> [phase: {"idle", "creating", "editing", "replaced", "publishing", "archiving", "swapping"},
                           number: 0..MaxTemplateVersions, schema: Schemas, keys: SUBSET RequirementKeys,
                           rows: SUBSET RequirementKeys, seen: SUBSET Numbers, held: SUBSET Numbers]]
  /\ late \in SUBSET Numbers
  /\ shared \in SUBSET Numbers
  /\ mixed \in SUBSET Numbers

(* A template always has exactly one published version and at most one     *)
(* draft.  No index says so: it rests on the unique number, on the order   *)
(* of the two updates and on the lock of the row they replace.             *)
OneCurrentVersion ==
  Cardinality(InStage("PUBLISHED")) = 1 /\ Cardinality(InStage("DRAFT")) <= 1

(* What was published stays as it is, except for an edit that had read the *)
(* version as a draft before it was published.                             *)
PublishedTextIsStable ==
  [][\A n \in Numbers : (stage[n] = "PUBLISHED" /\ n \notin late)
                          => schema'[n] = schema[n] /\ required'[n] = required[n]]_templateVars

(* The requirements of a version are those of one edit, or of its source;  *)
(* only two edits at once may be mixed, since the second does not see the  *)
(* rows that the first commits while it runs.                              *)
RequirementsOfOneEdit == mixed \subseteq shared
=============================================================================
