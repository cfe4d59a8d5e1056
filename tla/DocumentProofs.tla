--------------------------- MODULE DocumentProofs ---------------------------
(***************************************************************************)
(* Proofs about what a contract is made of and stored as:                  *)
(* TemplateVersions, for any administrators, schemas and requirements,     *)
(* Clarifications, for any finite set of terms and any tabs, and           *)
(* StoredDocuments, for any writers, keys and interruptions.               *)
(***************************************************************************)
EXTENDS TemplateVersions, Clarifications, StoredDocuments, FiniteSetTheorems, WellFoundedInduction, TLAPS

-----------------------------------------------------------------------------
(* TemplateVersions.                                                       *)

(* The slot of an administrator, as TemplatesTypeOK has it.                *)
Admin == [phase: {"idle", "creating", "editing", "replaced", "publishing", "archiving", "swapping"},
          number: 0..MaxTemplateVersions, schema: Schemas, keys: SUBSET RequirementKeys,
          rows: SUBSET RequirementKeys, seen: SUBSET Numbers, held: SUBSET Numbers]

OnVersion == {"editing", "replaced", "publishing", "archiving", "swapping"}

(* Versions are numbered without gaps, so a number that was read as the    *)
(* next one is taken by the first draft that is created after the reading. *)
NumbersAreInTurn ==
  /\ \E k \in Numbers : Existing = 1..k
  /\ \A a \in Admins :
       /\ admin[a].phase \in OnVersion => admin[a].number \in Existing
       /\ admin[a].phase = "creating" =>
            /\ admin[a].number \in Numbers
            /\ stage[admin[a].number] = "none" =>
                 Existing = 1..(admin[a].number - 1) /\ InStage("DRAFT") = {}

OneOfEach ==
  /\ \E p \in Numbers : InStage("PUBLISHED") = {p}
  /\ \A m, n \in InStage("DRAFT") : m = n

(* As long as its candidate is a draft, what a publication is about to     *)
(* archive is exactly what is published.                                   *)
ReplacesThePublished ==
  \A a \in Admins : admin[a].phase \in OnVersion /\ stage[admin[a].number] = "DRAFT" =>
    /\ admin[a].phase = "archiving" => admin[a].seen = InStage("PUBLISHED")
    /\ admin[a].phase = "swapping" => admin[a].held = InStage("PUBLISHED")

(* Nobody edits a published version but an edit that began before, and a   *)
(* lone edit has every row of its version in view.                         *)
EditsAreNamed ==
  /\ \A n \in Numbers : stage[n] = "PUBLISHED" /\ n \notin late => Editing(n) = {}
  /\ \A n \in Numbers \ shared : \A a \in Editing(n) :
       /\ \A b \in Editing(n) : a = b
       /\ admin[a].phase = "replaced" => required[n] \subseteq admin[a].rows

TemplatesInv ==
  /\ TemplatesTypeOK /\ NumbersAreInTurn /\ OneOfEach /\ ReplacesThePublished
  /\ EditsAreNamed /\ RequirementsOfOneEdit

-----------------------------------------------------------------------------
LEMMA AtRestType == AtRest \in Admin /\ AtRest.phase = "idle"
BY TemplatesAssumption DEF AtRest, Admin, AnySchema

LEMMA StartType ==
  ASSUME NEW p \in {"creating", "editing", "publishing"}, NEW n \in Numbers
  PROVE  [AtRest EXCEPT !.phase = p, !.number = n] \in Admin
<1>1. \A x \in Admin, i \in 0..MaxTemplateVersions :
        [x EXCEPT !.phase = p, !.number = i] \in Admin
  BY DEF Admin
<1>2. n \in 0..MaxTemplateVersions
  BY TemplatesAssumption DEF Numbers
<1> QED
  BY <1>1, <1>2, AtRestType

LEMMA SlotType ==
  ASSUME NEW p \in {"creating", "editing", "publishing"}, NEW n \in Numbers,
         NEW s \in Schemas, NEW k \in SUBSET RequirementKeys
  PROVE  [AtRest EXCEPT !.phase = p, !.number = n, !.schema = s, !.keys = k] \in Admin
<1>1. [AtRest EXCEPT !.phase = p, !.number = n] \in Admin
  BY StartType
<1>2. \A x \in Admin : [x EXCEPT !.schema = s, !.keys = k] \in Admin
  BY DEF Admin
<1> QED
  BY <1>1, <1>2

LEMMA TemplatesInvInit == TemplatesInit => TemplatesInv
<1> SUFFICES ASSUME TemplatesInit PROVE TemplatesInv
  OBVIOUS
<1>1. TemplatesTypeOK
  BY AtRestType, TemplatesAssumption DEF TemplatesInit, TemplatesTypeOK, Admin, AnySchema
<1>2. 1 \in Numbers /\ Existing = 1..1 /\ InStage("PUBLISHED") = {1} /\ InStage("DRAFT") = {}
  BY TemplatesAssumption DEF TemplatesInit, Numbers, Existing, InStage
<1>3. NumbersAreInTurn /\ OneOfEach /\ ReplacesThePublished
  BY <1>2, AtRestType DEF TemplatesInit, NumbersAreInTurn, OneOfEach, ReplacesThePublished, OnVersion
<1>4. EditsAreNamed /\ RequirementsOfOneEdit
  BY AtRestType DEF TemplatesInit, EditsAreNamed, RequirementsOfOneEdit, Editing
<1> QED
  BY <1>1, <1>3, <1>4 DEF TemplatesInv

(* A step in which one request goes on and no version changes.             *)
LEMMA RequestGoesOn ==
  ASSUME TemplatesInv, NEW a \in Admins, NEW q \in Admin,
         admin' = [admin EXCEPT ![a] = q],
         q.phase \in OnVersion => q.number \in Existing,
         q.phase # "creating",
         q.phase = "archiving" => q.seen = InStage("PUBLISHED"),
         q.phase = "swapping" /\ stage[q.number] = "DRAFT" => q.held = InStage("PUBLISHED"),
         q.phase \in {"editing", "replaced"} =>
           /\ admin[a].phase = "editing" /\ admin[a].number = q.number
           /\ q.phase = "replaced" => q.rows = required[q.number],
         UNCHANGED <<stage, schema, required, late, shared, mixed>>
  PROVE  TemplatesInv'
<1>0. admin \in [Admins -> Admin]
  BY DEF TemplatesInv, TemplatesTypeOK, Admin
<1>1. TemplatesTypeOK'
  BY <1>0 DEF TemplatesInv, TemplatesTypeOK, Admin
<1>2. Existing' = Existing /\ \A s : InStage(s)' = InStage(s)
  BY DEF Existing, InStage
<1>3. \A b \in Admins : admin'[b] = IF b = a THEN q ELSE admin[b]
  BY <1>0
<1>4. NumbersAreInTurn' /\ OneOfEach' /\ ReplacesThePublished'
  BY <1>2, <1>3 DEF TemplatesInv, NumbersAreInTurn, OneOfEach, ReplacesThePublished, InStage
<1>5. \A n : Editing(n)' \subseteq Editing(n)
  BY <1>3 DEF Editing
<1>6. EditsAreNamed' /\ RequirementsOfOneEdit'
  BY <1>3, <1>5 DEF TemplatesInv, EditsAreNamed, RequirementsOfOneEdit, Editing
<1> QED
  BY <1>1, <1>4, <1>6 DEF TemplatesInv

LEMMA CreateReadKeeps ==
  ASSUME TemplatesInv, NEW a \in Admins, CreateRead(a) PROVE TemplatesInv'
<1>0. admin \in [Admins -> Admin] /\ schema \in [Numbers -> Schemas]
      /\ required \in [Numbers -> SUBSET RequirementKeys]
  BY DEF TemplatesInv, TemplatesTypeOK, Admin
<1>1. PICK k \in Numbers : Existing = 1..k
  BY DEF TemplatesInv, NumbersAreInTurn
<1>2. NextNumber = k + 1 /\ NextNumber \in Numbers
  BY <1>1, FS_Interval DEF NextNumber, Numbers, CreateRead
<1>3. Source \in Numbers
  <2>1. \E n \in Existing : IF InStage("PUBLISHED") # {} THEN stage[n] = "PUBLISHED"
                                                         ELSE \A m \in Existing : m <= n
    BY DEF TemplatesInv, OneOfEach, InStage, Existing
  <2> QED
    BY <2>1 DEF Source, Existing
<1> DEFINE q == [AtRest EXCEPT !.phase = "creating", !.number = NextNumber,
                               !.schema = schema[Source], !.keys = required[Source]]
<1>4. q \in Admin /\ q.phase = "creating" /\ q.number = k + 1
  <2>1. schema[Source] \in Schemas /\ required[Source] \in SUBSET RequirementKeys
    BY <1>0, <1>3
  <2>2. q \in Admin
    BY <2>1, <1>2, SlotType
  <2> QED
    BY <2>2, <1>2 DEF AtRest
<1>5. /\ admin' = [admin EXCEPT ![a] = q] /\ InStage("DRAFT") = {}
      /\ UNCHANGED <<stage, schema, required, late, shared, mixed>>
  BY DEF CreateRead, MayDraft
<1> HIDE DEF q
<1>6. \A b \in Admins : admin'[b] = IF b = a THEN q ELSE admin[b]
  BY <1>0, <1>5
<1>7. TemplatesTypeOK'
  BY <1>0, <1>4, <1>5 DEF TemplatesInv, TemplatesTypeOK, Admin
<1>8. Existing' = Existing /\ \A s : InStage(s)' = InStage(s)
  BY <1>5 DEF Existing, InStage
<1>9. Existing = 1..((k + 1) - 1)
  BY <1>1 DEF Numbers
<1>10. NumbersAreInTurn'
  BY <1>1, <1>2, <1>4, <1>5, <1>6, <1>8, <1>9 DEF TemplatesInv, NumbersAreInTurn, OnVersion
<1>11. OneOfEach' /\ ReplacesThePublished'
  BY <1>4, <1>5, <1>6, <1>8 DEF TemplatesInv, OneOfEach, ReplacesThePublished, OnVersion
<1>12. \A n : Editing(n)' \subseteq Editing(n)
  BY <1>4, <1>6 DEF Editing
<1>13. EditsAreNamed' /\ RequirementsOfOneEdit'
  BY <1>4, <1>5, <1>6, <1>12 DEF TemplatesInv, EditsAreNamed, RequirementsOfOneEdit, Editing
<1> QED
  BY <1>7, <1>10, <1>11, <1>13 DEF TemplatesInv

LEMMA CreateCommitKeeps ==
  ASSUME TemplatesInv, NEW a \in Admins, CreateCommit(a) PROVE TemplatesInv'
<1> DEFINE n == admin[a].number
<1>0. /\ admin \in [Admins -> Admin] /\ stage \in [Numbers -> {"none", "DRAFT", "PUBLISHED", "ARCHIVED"}]
      /\ schema \in [Numbers -> Schemas] /\ required \in [Numbers -> SUBSET RequirementKeys]
  BY DEF TemplatesInv, TemplatesTypeOK, Admin
<1>1. /\ n \in Numbers /\ stage[n] = "none" /\ Existing = 1..(n - 1) /\ InStage("DRAFT") = {}
      /\ stage' = [stage EXCEPT ![n] = "DRAFT"]
      /\ schema' = [schema EXCEPT ![n] = admin[a].schema]
      /\ required' = [required EXCEPT ![n] = admin[a].keys]
      /\ admin' = [admin EXCEPT ![a] = AtRest]
      /\ UNCHANGED <<late, shared, mixed>>
  BY DEF CreateCommit, AdminRests, TemplatesInv, NumbersAreInTurn
<1>2. \A b \in Admins : admin'[b] = IF b = a THEN AtRest ELSE admin[b]
  BY <1>0, <1>1
<1> HIDE DEF n
<1>3. TemplatesTypeOK'
  <2>1. admin' \in [Admins -> Admin]
    BY <1>0, <1>1, AtRestType
  <2>2. schema' \in [Numbers -> Schemas] /\ required' \in [Numbers -> SUBSET RequirementKeys]
    BY <1>0, <1>1 DEF Admin
  <2> QED
    BY <1>0, <1>1, <2>1, <2>2 DEF TemplatesInv, TemplatesTypeOK, Admin
<1>4. /\ Existing' = Existing \cup {n} /\ n \notin Existing
      /\ InStage("PUBLISHED")' = InStage("PUBLISHED") /\ InStage("DRAFT")' = {n}
  BY <1>0, <1>1 DEF Existing, InStage
<1>5. Existing' = 1..n
  BY <1>1, <1>4 DEF Numbers
<1>6. NumbersAreInTurn'
  BY <1>0, <1>1, <1>2, <1>4, <1>5, AtRestType DEF TemplatesInv, NumbersAreInTurn, Existing, OnVersion, Numbers
<1>7. \A b \in Admins : admin'[b].phase \in OnVersion =>
        /\ admin'[b] = admin[b] /\ admin[b].number # n
        /\ stage'[admin[b].number] = stage[admin[b].number]
        /\ required'[admin[b].number] = required[admin[b].number]
  BY <1>0, <1>1, <1>2, <1>4, AtRestType DEF TemplatesInv, NumbersAreInTurn, OnVersion, Existing
<1>8. OneOfEach' /\ ReplacesThePublished'
  BY <1>4, <1>7 DEF TemplatesInv, OneOfEach, ReplacesThePublished
<1>9. \A m : Editing(m)' \subseteq Editing(m)
  BY <1>2, AtRestType DEF Editing
<1>10. EditsAreNamed' /\ RequirementsOfOneEdit'
  <2>1. \A m \in Numbers : stage'[m] = "PUBLISHED" => stage[m] = "PUBLISHED"
    BY <1>0, <1>1
  <2>2. \A m \in Numbers : \A b \in Editing(m)' :
          admin'[b] = admin[b] /\ required'[m] = required[m]
    BY <1>7 DEF Editing, OnVersion
  <2> QED
    BY <1>1, <1>9, <2>1, <2>2 DEF TemplatesInv, EditsAreNamed, RequirementsOfOneEdit
<1> QED
  BY <1>3, <1>6, <1>8, <1>10 DEF TemplatesInv

LEMMA UpdateReadKeeps ==
  ASSUME TemplatesInv, NEW a \in Admins, UpdateRead(a) PROVE TemplatesInv'
<1>0. admin \in [Admins -> Admin]
  BY DEF TemplatesInv, TemplatesTypeOK, Admin
<1>1. PICK n \in Numbers :
        /\ stage[n] = "DRAFT"
        /\ admin' = [admin EXCEPT ![a] = [AtRest EXCEPT !.phase = "editing", !.number = n]]
        /\ shared' = IF Editing(n) = {} THEN shared ELSE shared \cup {n}
  BY DEF UpdateRead, Editable
<1>2. UNCHANGED <<stage, schema, required, late, mixed>>
  BY DEF UpdateRead
<1> DEFINE q == [AtRest EXCEPT !.phase = "editing", !.number = n]
<1>3. q \in Admin /\ q.phase = "editing" /\ q.number = n
  <2>1. q \in Admin
    BY StartType
  <2> QED
    BY <2>1 DEF AtRest
<1>4. \A b \in Admins : admin'[b] = IF b = a THEN q ELSE admin[b]
  BY <1>0, <1>1
<1> HIDE DEF q
<1>5. TemplatesTypeOK'
  <2>1. admin' \in [Admins -> Admin]
    BY <1>0, <1>1, <1>3 DEF q
  <2> QED
    BY <1>1, <1>2, <2>1 DEF TemplatesInv, TemplatesTypeOK, Admin
<1>6. Existing' = Existing /\ (\A s : InStage(s)' = InStage(s)) /\ n \in Existing
  BY <1>1, <1>2 DEF Existing, InStage
<1>7. NumbersAreInTurn' /\ OneOfEach' /\ ReplacesThePublished'
  BY <1>2, <1>3, <1>4, <1>6 DEF TemplatesInv, NumbersAreInTurn, OneOfEach, ReplacesThePublished, OnVersion
<1>8. \A m : Editing(m)' \subseteq Editing(m) \cup (IF m = n THEN {a} ELSE {})
  BY <1>3, <1>4 DEF Editing
<1>9. EditsAreNamed' /\ RequirementsOfOneEdit'
  <2>1. shared \subseteq shared' /\ (n \notin shared' => Editing(n) = {})
    BY <1>1
  <2>2. \A m \in Numbers : stage'[m] = "PUBLISHED" /\ m \notin late' => Editing(m)' = {}
    BY <1>1, <1>2, <1>8 DEF TemplatesInv, EditsAreNamed
  <2>3. ASSUME NEW m \in Numbers \ shared', NEW b \in Editing(m)'
        PROVE  /\ \A c \in Editing(m)' : b = c
               /\ admin'[b].phase = "replaced" => required'[m] \subseteq admin'[b].rows
    <3>1. CASE m = n
      BY <3>1, <2>1, <2>3, <1>3, <1>4, <1>8
    <3>2. CASE m # n
      <4>1. b # a
        BY <3>2, <2>3, <1>3, <1>4 DEF Editing
      <4>2. admin'[b] = admin[b] /\ b \in Editing(m) /\ m \notin shared
        BY <3>2, <4>1, <2>1, <2>3, <1>4, <1>8 DEF Editing
      <4> QED
        BY <4>2, <3>2, <1>2, <1>8 DEF TemplatesInv, EditsAreNamed
    <3> QED
      BY <3>1, <3>2
  <2> QED
    BY <2>1, <2>2, <2>3, <1>2 DEF TemplatesInv, EditsAreNamed, RequirementsOfOneEdit
<1> QED
  BY <1>5, <1>7, <1>9 DEF TemplatesInv

(* Both ways for an edit to be committed change one version only.          *)
LEMMA UpdateKeeps ==
  ASSUME TemplatesInv, NEW a \in Admins, UpdateCommit(a) \/ UpdateSchema(a)
  PROVE  /\ TemplatesInv'
         /\ \A n \in Numbers \ {admin[a].number} : schema'[n] = schema[n] /\ required'[n] = required[n]
         /\ a \in Editing(admin[a].number)
<1> DEFINE n == admin[a].number
<1>0. /\ admin \in [Admins -> Admin] /\ schema \in [Numbers -> Schemas]
      /\ required \in [Numbers -> SUBSET RequirementKeys]
  BY DEF TemplatesInv, TemplatesTypeOK, Admin
<1>1. a \in Editing(n) /\ n \in Numbers
  BY DEF UpdateCommit, UpdateSchema, Editing, TemplatesInv, NumbersAreInTurn, OnVersion, Existing
<1>2. UNCHANGED <<stage, late, shared>>
  BY DEF UpdateCommit, UpdateSchema
<1>3. \A b \in Admins : \/ b = a /\ admin'[b] = AtRest
                        \/ b # a /\ admin'[b] = admin[b]
                        \/ /\ b # a /\ admin[b].number = n
                           /\ admin'[b] = [admin[b] EXCEPT !.rows = admin[b].rows \ admin[a].rows]
  <2>1. CASE UpdateSchema(a)
    BY <2>1, <1>0 DEF UpdateSchema, AdminRests
  <2>2. CASE UpdateCommit(a)
    <3>1. \A b \in Admins : admin'[b] = IF b = a THEN AtRest ELSE
             [admin[b] EXCEPT !.rows = IF admin[b].number = n THEN admin[b].rows \ admin[a].rows
                                                              ELSE admin[b].rows]
      BY <2>2 DEF UpdateCommit
    <3>2. \A b \in Admins : [admin[b] EXCEPT !.rows = admin[b].rows] = admin[b]
      BY <1>0 DEF Admin
    <3> QED
      BY <3>1, <3>2
  <2> QED
    BY <2>1, <2>2
<1>4. /\ schema' \in [Numbers -> Schemas] /\ required' \in [Numbers -> SUBSET RequirementKeys]
      /\ \A m \in Numbers \ {n} : schema'[m] = schema[m] /\ required'[m] = required[m]
  <2>1. CASE UpdateCommit(a)
    <3>1. PICK keys \in SUBSET RequirementKeys :
            required' = [required EXCEPT ![n] = (required[n] \ admin[a].rows) \cup keys]
      BY <2>1 DEF UpdateCommit
    <3>2. UNCHANGED schema \/ \E s \in Schemas : schema' = [schema EXCEPT ![n] = s]
      BY <2>1 DEF UpdateCommit
    <3> QED
      BY <3>1, <3>2, <1>0, <1>1
  <2>2. CASE UpdateSchema(a)
    BY <2>2, <1>0 DEF UpdateSchema
  <2> QED
    BY <2>1, <2>2
<1> HIDE DEF n
<1>5. TemplatesTypeOK'
  <2>1. \A b \in Admins : admin'[b] \in Admin
    <3>1. ASSUME NEW x \in Admin, NEW k \in SUBSET RequirementKeys
          PROVE  [x EXCEPT !.rows = x.rows \ k] \in Admin
      <4>0. x.rows \ k \in SUBSET RequirementKeys
        BY DEF Admin
      <4>1. [x EXCEPT !.rows = x.rows \ k]
              = [phase |-> x.phase, number |-> x.number, schema |-> x.schema, keys |-> x.keys,
                 rows |-> x.rows \ k, seen |-> x.seen, held |-> x.held]
        BY DEF Admin
      <4> QED
        BY <4>0, <4>1 DEF Admin
    <3>2. admin[a].rows \in SUBSET RequirementKeys
      BY <1>0 DEF Admin
    <3>3. \A b \in Admins : [admin[b] EXCEPT !.rows = admin[b].rows \ admin[a].rows] \in Admin
      BY <3>1, <3>2, <1>0
    <3> QED
      BY <3>3, <1>0, <1>3, AtRestType
  <2>2. admin' = [b \in Admins |-> admin'[b]]
    BY <1>0 DEF UpdateCommit, UpdateSchema, AdminRests
  <2>3. admin' \in [Admins -> Admin]
    BY <2>1, <2>2
  <2>4. mixed' \in SUBSET Numbers
    BY <1>1 DEF UpdateCommit, UpdateSchema, TemplatesInv, TemplatesTypeOK, n
  <2> QED
    BY <1>2, <1>4, <2>3, <2>4 DEF TemplatesInv, TemplatesTypeOK, Admin
<1>6. Existing' = Existing /\ \A s : InStage(s)' = InStage(s)
  BY <1>2 DEF Existing, InStage
<1>7. \A b \in Admins : admin'[b].phase \in OnVersion \cup {"creating"} =>
        /\ b # a /\ admin'[b].phase = admin[b].phase /\ admin'[b].number = admin[b].number
        /\ admin'[b].seen = admin[b].seen /\ admin'[b].held = admin[b].held
        /\ admin'[b].rows = admin[b].rows \/ admin[b].number = n
  <2>1. \A b \in Admins : LET x == [admin[b] EXCEPT !.rows = admin[b].rows \ admin[a].rows] IN
          /\ x.phase = admin[b].phase /\ x.number = admin[b].number
          /\ x.seen = admin[b].seen /\ x.held = admin[b].held
    BY <1>0 DEF Admin
  <2>2. AtRest.phase \notin OnVersion \cup {"creating"}
    BY DEF AtRest, OnVersion
  <2> QED
    BY <1>3, <2>1, <2>2
<1>8. NumbersAreInTurn'
  BY <1>2, <1>6, <1>7 DEF TemplatesInv, NumbersAreInTurn
<1>9. OneOfEach' /\ ReplacesThePublished'
  BY <1>2, <1>6, <1>7 DEF TemplatesInv, OneOfEach, ReplacesThePublished
<1>10. \A m : Editing(m)' \subseteq Editing(m) \ {a}
  BY <1>7 DEF Editing, OnVersion
<1>11. EditsAreNamed'
  <2>1. \A m \in Numbers : stage'[m] = "PUBLISHED" /\ m \notin late' => Editing(m)' = {}
    BY <1>2, <1>10 DEF TemplatesInv, EditsAreNamed
  <2>2. ASSUME NEW m \in Numbers \ shared', NEW b \in Editing(m)'
        PROVE  /\ \A c \in Editing(m)' : b = c
               /\ admin'[b].phase = "replaced" => required'[m] \subseteq admin'[b].rows
    <3>1. b \in Editing(m) /\ b # a /\ m \notin shared
      BY <2>2, <1>2, <1>10
    <3>2. m # n
      BY <3>1, <1>1, <1>2 DEF TemplatesInv, EditsAreNamed
    <3>3. admin'[b].phase = admin[b].phase /\ admin'[b].rows = admin[b].rows
      BY <3>1, <3>2, <2>2, <1>7 DEF Editing, OnVersion
    <3> QED
      BY <3>1, <3>2, <3>3, <1>4, <1>10 DEF TemplatesInv, EditsAreNamed
  <2> QED
    BY <2>1, <2>2 DEF EditsAreNamed
<1>12. RequirementsOfOneEdit'
  <2>1. ASSUME UpdateCommit(a), n \notin shared PROVE required[n] \subseteq admin[a].rows
    BY <2>1, <1>1 DEF TemplatesInv, EditsAreNamed, UpdateCommit
  <2>2. CASE UpdateCommit(a)
    BY <2>1, <2>2, <1>2 DEF UpdateCommit, TemplatesInv, RequirementsOfOneEdit, n
  <2>3. CASE UpdateSchema(a)
    BY <2>3 DEF UpdateSchema, TemplatesInv, RequirementsOfOneEdit
  <2> QED
    BY <2>2, <2>3
<1> QED
  BY <1>1, <1>4, <1>5, <1>8, <1>9, <1>11, <1>12 DEF TemplatesInv, n

(* A step that takes the draft away from every request that looks at one.  *)
LEMMA DraftLeaves ==
  ASSUME TemplatesInv, NEW d \in Numbers, stage[d] = "DRAFT",
         \A n \in Numbers : stage'[n] = "none" <=> stage[n] = "none",
         stage' \in [Numbers -> {"none", "PUBLISHED", "ARCHIVED"}],
         \E p \in Numbers : InStage("PUBLISHED")' = {p},
         \A a \in Admins : admin'[a] \in {admin[a], AtRest},
         admin' \in [Admins -> Admin],
         late' \in SUBSET Numbers, late \subseteq late',
         \A n \in Numbers : stage'[n] = "PUBLISHED" /\ stage[n] # "PUBLISHED" /\ n \notin late'
                              => Editing(n) = {},
         UNCHANGED <<schema, required, shared, mixed>>
  PROVE  TemplatesInv'
<1>1. TemplatesTypeOK'
  BY DEF TemplatesInv, TemplatesTypeOK, Admin
<1>2. Existing' = Existing /\ InStage("DRAFT")' = {}
  BY DEF Existing, InStage
<1>3. \A a \in Admins : admin'[a].phase # "idle" => admin'[a] = admin[a]
  BY AtRestType
<1>4. NumbersAreInTurn'
  BY <1>2, <1>3 DEF TemplatesInv, NumbersAreInTurn, OnVersion
<1>5. OneOfEach' /\ ReplacesThePublished'
  BY <1>2, <1>3, <1>4 DEF OneOfEach, ReplacesThePublished, NumbersAreInTurn, InStage, OnVersion, Existing
<1>6. \A n : Editing(n)' \subseteq Editing(n)
  BY <1>3 DEF Editing
<1>7. EditsAreNamed' /\ RequirementsOfOneEdit'
  BY <1>3, <1>6 DEF TemplatesInv, EditsAreNamed, RequirementsOfOneEdit, Editing
<1> QED
  BY <1>1, <1>4, <1>5, <1>7 DEF TemplatesInv

LEMMA PromoteKeeps ==
  ASSUME TemplatesInv, NEW a \in Admins, Promote(a) PROVE TemplatesInv'
<1> DEFINE n == admin[a].number
<1>0. admin \in [Admins -> Admin] /\ stage \in [Numbers -> {"none", "DRAFT", "PUBLISHED", "ARCHIVED"}]
  BY DEF TemplatesInv, TemplatesTypeOK, Admin
<1>1. n \in Numbers /\ stage[n] = "DRAFT" /\ admin[a].held = InStage("PUBLISHED")
  BY DEF Promote, TemplatesInv, NumbersAreInTurn, ReplacesThePublished, OnVersion, Existing
<1>2. \A m \in Numbers : stage'[m] = IF m = n THEN "PUBLISHED"
                                     ELSE IF stage[m] = "PUBLISHED" THEN "ARCHIVED" ELSE stage[m]
  BY <1>1 DEF Promote, InStage
<1>3. \A m \in Numbers : stage[m] = "DRAFT" => m = n
  BY <1>1 DEF TemplatesInv, OneOfEach, InStage
<1>4. /\ stage' \in [Numbers -> {"none", "PUBLISHED", "ARCHIVED"}] /\ InStage("PUBLISHED")' = {n}
      /\ \A m \in Numbers : stage'[m] = "none" <=> stage[m] = "none"
  <2>1. stage' = [m \in Numbers |-> stage'[m]]
    BY DEF Promote
  <2>2. \A m \in Numbers : stage'[m] \in {"none", "PUBLISHED", "ARCHIVED"}
    BY <1>0, <1>2, <1>3
  <2>3. stage' \in [Numbers -> {"none", "PUBLISHED", "ARCHIVED"}]
    BY <2>1, <2>2
  <2> QED
    BY <2>3, <1>1, <1>2 DEF InStage
<1>5. admin' = [admin EXCEPT ![a] = AtRest] /\ UNCHANGED <<schema, required, shared, mixed>>
  BY DEF Promote, AdminRests
<1>6. /\ late' \in SUBSET Numbers /\ late \subseteq late'
      /\ n \notin late' => Editing(n) = {}
  BY <1>1 DEF Promote, TemplatesInv, TemplatesTypeOK
<1>7. admin' \in [Admins -> Admin] /\ \A b \in Admins : admin'[b] \in {admin[b], AtRest}
  BY <1>0, <1>5, AtRestType
<1> HIDE DEF n
<1>8. \A m \in Numbers : stage'[m] = "PUBLISHED" /\ stage[m] # "PUBLISHED" /\ m \notin late'
                           => Editing(m) = {}
  BY <1>2, <1>6
<1> QED
  BY <1>1, <1>4, <1>5, <1>6, <1>7, <1>8, DraftLeaves

LEMMA ArchiveDraftKeeps ==
  ASSUME TemplatesInv, NEW n \in Numbers, ArchiveDraft(n) PROVE TemplatesInv'
<1>0. admin \in [Admins -> Admin] /\ stage \in [Numbers -> {"none", "DRAFT", "PUBLISHED", "ARCHIVED"}]
      /\ late \in SUBSET Numbers
  BY DEF TemplatesInv, TemplatesTypeOK, Admin
<1>1. /\ stage[n] = "DRAFT" /\ stage' = [stage EXCEPT ![n] = "ARCHIVED"]
      /\ UNCHANGED <<schema, required, admin, late, shared, mixed>>
  BY DEF ArchiveDraft
<1>2. \A m \in Numbers : stage[m] = "DRAFT" => m = n
  BY <1>1 DEF TemplatesInv, OneOfEach, InStage
<1>3. /\ stage' \in [Numbers -> {"none", "PUBLISHED", "ARCHIVED"}]
      /\ InStage("PUBLISHED")' = InStage("PUBLISHED")
      /\ \A m \in Numbers : stage'[m] = "none" <=> stage[m] = "none"
      /\ \A m \in Numbers : stage'[m] = "PUBLISHED" => stage[m] = "PUBLISHED"
  BY <1>0, <1>1, <1>2 DEF InStage
<1> QED
  BY <1>0, <1>1, <1>3, DraftLeaves DEF TemplatesInv, OneOfEach

LEMMA TemplatesInvNext ==
  ASSUME TemplatesInv, [TemplatesNext]_templateVars PROVE TemplatesInv'
<1>0. admin \in [Admins -> Admin] /\ required \in [Numbers -> SUBSET RequirementKeys]
  BY DEF TemplatesInv, TemplatesTypeOK, Admin
<1>1. ASSUME NEW a \in Admins, ReplaceRequirements(a) PROVE TemplatesInv'
  <2> DEFINE q == [admin[a] EXCEPT !.phase = "replaced", !.rows = required[admin[a].number]]
  <2>1. admin[a].phase = "editing" /\ admin[a].number \in Existing
    BY <1>1 DEF ReplaceRequirements, TemplatesInv, NumbersAreInTurn, OnVersion
  <2>2. /\ q \in Admin /\ q.phase = "replaced" /\ q.number = admin[a].number
        /\ q.rows = required[q.number]
    BY <1>0, <2>1 DEF Admin, Existing
  <2>3. admin' = [admin EXCEPT ![a] = q] /\ UNCHANGED <<stage, schema, required, late, shared, mixed>>
    BY <1>0, <1>1 DEF ReplaceRequirements, SeenRows
  <2> HIDE DEF q
  <2> QED
    BY <2>1, <2>2, <2>3, RequestGoesOn
<1>2. ASSUME NEW a \in Admins, PublishRead(a) PROVE TemplatesInv'
  <2>1. PICK n \in Numbers :
          /\ stage[n] = "DRAFT"
          /\ admin' = [admin EXCEPT ![a] = [AtRest EXCEPT !.phase = "publishing", !.number = n]]
    BY <1>2 DEF PublishRead
  <2> DEFINE q == [AtRest EXCEPT !.phase = "publishing", !.number = n]
  <2>2. q \in Admin
    BY StartType
  <2>4. q.phase = "publishing" /\ q.number \in Existing
    BY <2>1 DEF AtRest, Existing
  <2>3. admin' = [admin EXCEPT ![a] = q] /\ UNCHANGED <<stage, schema, required, late, shared, mixed>>
    BY <1>2, <2>1 DEF PublishRead
  <2> HIDE DEF q
  <2> QED
    BY <2>2, <2>3, <2>4, RequestGoesOn
<1>3. ASSUME NEW a \in Admins, ArchiveStart(a) PROVE TemplatesInv'
  <2> DEFINE q == [admin[a] EXCEPT !.phase = "archiving", !.seen = InStage("PUBLISHED")]
  <2>1. admin[a].number \in Existing
    BY <1>3 DEF ArchiveStart, TemplatesInv, NumbersAreInTurn, OnVersion
  <2>2. /\ q \in Admin /\ q.phase = "archiving" /\ q.number = admin[a].number
        /\ q.seen = InStage("PUBLISHED")
    BY <1>0 DEF Admin, InStage
  <2>3. admin' = [admin EXCEPT ![a] = q] /\ UNCHANGED <<stage, schema, required, late, shared, mixed>>
    BY <1>0, <1>3 DEF ArchiveStart, PublishedRows
  <2> HIDE DEF q
  <2> QED
    BY <2>1, <2>2, <2>3, RequestGoesOn
<1>4. ASSUME NEW a \in Admins, ArchiveRows(a) PROVE TemplatesInv'
  <2> DEFINE q == [admin[a] EXCEPT !.phase = "swapping", !.seen = {},
                                   !.held = admin[a].seen \cap InStage("PUBLISHED")]
  <2>1. /\ admin[a].number \in Existing
        /\ stage[admin[a].number] = "DRAFT" => admin[a].seen = InStage("PUBLISHED")
    BY <1>4 DEF ArchiveRows, TemplatesInv, NumbersAreInTurn, ReplacesThePublished, OnVersion
  <2>2. /\ q \in Admin /\ q.phase = "swapping" /\ q.number = admin[a].number
        /\ q.held = admin[a].seen \cap InStage("PUBLISHED")
    BY <1>0 DEF Admin, InStage
  <2>3. admin' = [admin EXCEPT ![a] = q] /\ UNCHANGED <<stage, schema, required, late, shared, mixed>>
    BY <1>0, <1>4 DEF ArchiveRows
  <2> HIDE DEF q
  <2> QED
    BY <2>1, <2>2, <2>3, RequestGoesOn
<1>5. ASSUME NEW a \in Admins, AdminFails(a) PROVE TemplatesInv'
  BY <1>5, AtRestType, RequestGoesOn DEF AdminFails, AdminRests, OnVersion
<1>6. CASE UNCHANGED templateVars
  BY <1>6 DEF templateVars, TemplatesInv, TemplatesTypeOK, NumbersAreInTurn, OneOfEach, ReplacesThePublished,
     EditsAreNamed, RequirementsOfOneEdit, Existing, InStage, Editing
<1> QED
  BY <1>1, <1>2, <1>3, <1>4, <1>5, <1>6, CreateReadKeeps, CreateCommitKeeps, UpdateReadKeeps, UpdateKeeps,
     PromoteKeeps, ArchiveDraftKeeps DEF TemplatesNext, AdminStep

LEMMA TemplatesInvariance == TemplatesSpec => []TemplatesInv
BY TemplatesInvInit, TemplatesInvNext, PTL DEF TemplatesSpec

(* Requests and versions keep their types; no number beyond the bound is   *)
(* given out.                                                              *)
THEOREM TemplatesTyping == TemplatesSpec => []TemplatesTypeOK
<1>1. TemplatesInv => TemplatesTypeOK
  BY DEF TemplatesInv
<1> QED
  BY <1>1, TemplatesInvariance, PTL

(* However administrators create, edit, publish and archive at the same    *)
(* time, one version is published and at most one is a draft, for any      *)
(* number of them and any bound on versions.                               *)
THEOREM TemplateVersionsAreCurrent == TemplatesSpec => []OneCurrentVersion
<1>1. ASSUME TemplatesInv PROVE OneCurrentVersion
  <2>1. PICK p \in Numbers : InStage("PUBLISHED") = {p}
    BY <1>1 DEF TemplatesInv, OneOfEach
  <2>2. InStage("DRAFT") = {} \/ \E d : InStage("DRAFT") = {d}
    BY <1>1 DEF TemplatesInv, OneOfEach
  <2> QED
    <3>1. Cardinality(InStage("PUBLISHED")) = 1
      BY <2>1, FS_Singleton
    <3>2. Cardinality(InStage("DRAFT")) \in {0, 1}
      BY <2>2, FS_Singleton, FS_EmptySet
    <3> QED
      BY <3>1, <3>2 DEF OneCurrentVersion
<1> QED
  BY <1>1, TemplatesInvariance, PTL

(* The requirements of a version are those of one edit of it, unless two   *)
(* edits of it overlapped: only a `shared' version may be `mixed'.         *)
THEOREM EditsAreApart == TemplatesSpec => []RequirementsOfOneEdit
<1>1. TemplatesInv => RequirementsOfOneEdit
  BY DEF TemplatesInv
<1> QED
  BY <1>1, TemplatesInvariance, PTL

(* No step changes the schema or the requirements of a version that is     *)
(* published, unless an edit had read it while it was a draft (`late').    *)
THEOREM PublishedTextStays == TemplatesSpec => PublishedTextIsStable
<1> DEFINE Stays(n) == stage[n] = "PUBLISHED" /\ n \notin late
                         => schema'[n] = schema[n] /\ required'[n] = required[n]
<1>1. ASSUME TemplatesInv, [TemplatesNext]_templateVars, NEW n \in Numbers PROVE Stays(n)
  <2> SUFFICES ASSUME stage[n] = "PUBLISHED", n \notin late
               PROVE  schema'[n] = schema[n] /\ required'[n] = required[n]
    OBVIOUS
  <2>1. Editing(n) = {}
    BY <1>1 DEF TemplatesInv, EditsAreNamed
  <2>2. ASSUME NEW a \in Admins, UpdateCommit(a) \/ UpdateSchema(a)
        PROVE  schema'[n] = schema[n] /\ required'[n] = required[n]
    BY <2>1, <2>2, <1>1, UpdateKeeps
  <2>3. ASSUME NEW a \in Admins, CreateCommit(a)
        PROVE  schema'[n] = schema[n] /\ required'[n] = required[n]
    BY <2>3, <1>1 DEF CreateCommit, TemplatesInv, TemplatesTypeOK
  <2> QED
    BY <2>2, <2>3, <1>1 DEF TemplatesNext, AdminStep, templateVars, CreateRead, UpdateRead,
       ReplaceRequirements, PublishRead, ArchiveStart, ArchiveRows, Promote, AdminFails, ArchiveDraft
<1>2. ASSUME TemplatesInv, [TemplatesNext]_templateVars
      PROVE  [\A n \in Numbers : Stays(n)]_templateVars
  BY <1>1, <1>2
<1> QED
  BY <1>2, TemplatesInvariance, PTL DEF TemplatesSpec, PublishedTextIsStable

-----------------------------------------------------------------------------
(* Clarifications.                                                         *)

(* The session as its requests may rely on it.  Each later round has asked *)
(* for terms without an answer, and got one for at least one of them: so   *)
(* the stamp stays behind the terms that are answered.                     *)
SessionInv ==
  /\ session.status = "none" => session = NoSession /\ told = {}
  /\ session.status = "NEED_MORE_INFO" => session.questions # {}
  /\ session.stamp # 0 => \E terms \in SUBSET (Terms \ session.answers) : session.questions = TermQuestions(terms)
  /\ session.stamp <= Cardinality(session.answers \cap Terms) + 1

(* What a request has read is the session as it is, or an earlier stamp.   *)
TabsAreBehind ==
  \A t \in Tabs : tab[t] = NoSession \/ tab[t] = session \/ tab[t].stamp < session.stamp

ClarificationsInv ==
  ClarificationsTypeOK /\ SessionInv /\ TabsAreBehind /\ AnswersAreKept /\ NothingAskedTwice

-----------------------------------------------------------------------------
(* A finite set of numbers has a greatest one.                             *)
LEMMA GreatestOfFinite ==
  ASSUME NEW P, P \subseteq Int, IsFiniteSet(P), P # {}
  PROVE  \E i \in P : \A j \in P : j <= i
<1> DEFINE Above(i) == {j \in P : j > i}
           T == {Above(i) : i \in P}
<1>1. T \subseteq FiniteSubsetsOf(P) /\ T # {}
  <2>1. \A i \in P : Above(i) \in SUBSET P
    OBVIOUS
  <2> HIDE DEF Above
  <2>2. \A i \in P : IsFiniteSet(Above(i))
    BY <2>1, FS_Subset
  <2> QED
    BY <2>1, <2>2 DEF FiniteSubsetsOf
<1>2. IsWellFoundedOn(StrictSubsetOrdering(P), FiniteSubsetsOf(P))
  BY FS_StrictSubsetOrderingWellFounded
<1>3. PICK x \in T : \A y \in T : <<y, x>> \notin StrictSubsetOrdering(P)
  <2> HIDE DEF T
  <2> QED
    BY <1>1, <1>2, WFMin
<1>4. PICK i \in P : x = Above(i)
  BY <1>3
<1>5. ASSUME NEW j \in P, j > i PROVE FALSE
  <2>1. i \in Int /\ j \in Int /\ P \subseteq Int
    OBVIOUS
  <2>2. j \in Above(i)
    BY <1>5
  <2>3. j \notin Above(j)
    BY <2>1
  <2>4. \A k \in P : k > j => k > i
    BY <2>1, <1>5
  <2>5. Above(j) \subseteq Above(i) /\ Above(i) \subseteq P
    BY <2>4
  <2> HIDE DEF Above
  <2>6. <<Above(j), Above(i)>> \in StrictSubsetOrdering(P)
    BY <2>2, <2>3, <2>5 DEF StrictSubsetOrdering
  <2> QED
    BY <1>3, <1>4, <2>6
<1> QED
  BY <1>5

(* A set that is listed has no more members than the list has positions.   *)
LEMMA ListedIsFinite ==
  ASSUME NEW S, IsFiniteSet(S), NEW f
  PROVE  IsFiniteSet({f[x] : x \in S}) /\ Cardinality({f[x] : x \in S}) <= Cardinality(S)
<1> DEFINE T == {f[x] : x \in S}
           g == [x \in S |-> f[x]]
<1>1. g \in Surjection(S, T)
  BY DEF Surjection
<1> HIDE DEF g, T
<1> QED
  BY <1>1, FS_Surjection DEF T

LEMMA TermQuestionsCount ==
  ASSUME NEW terms \in SUBSET Terms
  PROVE  /\ IsFiniteSet(TermQuestions(terms))
         /\ Cardinality(TermQuestions(terms)) \in Nat /\ Cardinality(Terms) \in Nat
         /\ Cardinality(TermQuestions(terms)) <= Cardinality(Terms)
<1> DEFINE f == [t \in terms |-> TermQuestion(t)]
<1>1. TermQuestions(terms) = {f[t] : t \in terms}
  BY DEF TermQuestions
<1>2. IsFiniteSet(terms) /\ Cardinality(terms) <= Cardinality(Terms)
  BY ClarificationsAssumption, FS_Subset
<1> HIDE DEF f
<1>3. IsFiniteSet(TermQuestions(terms)) /\ Cardinality(TermQuestions(terms)) <= Cardinality(terms)
  BY <1>1, <1>2, ListedIsFinite
<1> QED
  BY <1>2, <1>3, FS_CardinalityType, ClarificationsAssumption

LEMMA TermQuestionsAre ==
  ASSUME NEW terms \in SUBSET Terms
  PROVE  /\ TermQuestions(terms) \subseteq Question
         /\ IdsOf(TermQuestions(terms)) = terms
         /\ \A q, r \in TermQuestions(terms) : q # r => q.id # r.id /\ q.topic # r.topic
<1>1. \A t : TermQuestion(t).id = t /\ TermQuestion(t).topic = t
  BY DEF TermQuestion
<1> QED
  BY <1>1 DEF TermQuestions, Question, IdsOf

LEMMA QuestionsHaveIds == \A q \in Question : q.id \in Terms \cup AiIds
<1>1. \A q \in TermQuestions(Terms) : q.id \in Terms
  BY DEF TermQuestions, TermQuestion
<1>2. \A q \in AiQuestion : q.id \in AiIds
  BY DEF AiQuestion
<1> QED
  BY <1>1, <1>2 DEF Question

-----------------------------------------------------------------------------
(* What the two loops choose from the AI's list for the first round.       *)
LEMMA FirstRound ==
  ASSUME NEW missing \in SUBSET Terms, NEW output \in AiOutputs, NEW kept \in SUBSET DOMAIN output,
         NEW first \in SUBSET kept, Prioritized(output, kept, missing, first),
         NEW asked, asked = TermQuestions(missing) \cup {output[i] : i \in first}
  PROVE  /\ asked \subseteq Question
         /\ \A q, r \in asked : q # r => q.id # r.id /\ (q.topic = r.topic => q.topic = NoTopic)
         /\ Cardinality(asked) <= IF MaxQuestions >= Cardinality(Terms) THEN MaxQuestions ELSE Cardinality(Terms)
<1>1. PICK n \in 0..MaxQuestions : output \in [1..n -> Question]
  BY DEF AiOutputs
<1>2. first \subseteq Int /\ IsFiniteSet(first) /\ first \subseteq DOMAIN output /\ first \subseteq kept
  <2>1. first \subseteq 1..n /\ n \in Int
    BY <1>1, ClarificationsAssumption
  <2>2. IsFiniteSet(1..n)
    BY <2>1, FS_Interval
  <2>3. IsFiniteSet(first)
    BY <2>1, <2>2, FS_Subset
  <2> QED
    BY <2>1, <2>3, <1>1
<1>3. asked \subseteq Question
  BY <1>1, TermQuestionsAre
<1> DEFINE Before(i) == TermQuestions(missing) \cup TakenBefore(output, first, i)
<1>4. \A i \in first : Cardinality(Before(i)) < MaxQuestions /\ ~Repeats(output[i], Before(i))
  BY <1>2 DEF Prioritized
<1>5. ASSUME NEW i \in first, NEW q \in Before(i)
      PROVE  output[i].id # q.id /\ (output[i].topic = q.topic => q.topic = NoTopic)
  <2>1. ~Repeats(output[i], Before(i))
    BY <1>4
  <2> HIDE DEF Before
  <2> QED
    BY <2>1 DEF Repeats, IdsOf, TopicsOf
<1>6. \A i, j \in first : j < i => output[j] \in Before(i)
  BY DEF TakenBefore
<1>7. TermQuestions(missing) \subseteq asked /\ \A i : TermQuestions(missing) \subseteq Before(i)
  OBVIOUS
<1>8. ASSUME NEW q \in asked, NEW r \in asked, q # r
      PROVE  q.id # r.id /\ (q.topic = r.topic => q.topic = NoTopic)
  <2> HIDE DEF Before
  <2>1. CASE q \in TermQuestions(missing) /\ r \in TermQuestions(missing)
    BY <2>1, <1>8, TermQuestionsAre
  <2>2. CASE q \in TermQuestions(missing) /\ \E i \in first : r = output[i]
    BY <2>2, <1>5, <1>7
  <2>3. CASE r \in TermQuestions(missing) /\ \E i \in first : q = output[i]
    BY <2>3, <1>5, <1>7
  <2>4. CASE \E i, j \in first : q = output[i] /\ r = output[j]
    <3>1. PICK i, j \in first : q = output[i] /\ r = output[j]
      BY <2>4
    <3>2. i < j \/ j < i
      BY <3>1, <1>2, <1>8
    <3> QED
      BY <3>1, <3>2, <1>5, <1>6
  <2> QED
    BY <2>1, <2>2, <2>3, <2>4
<1>9. Cardinality(asked) <= IF MaxQuestions >= Cardinality(Terms) THEN MaxQuestions ELSE Cardinality(Terms)
  <2>0. Cardinality(Terms) \in Int /\ MaxQuestions \in Int
    BY TermQuestionsCount, ClarificationsAssumption
  <2>1. CASE first = {}
    <3>1. asked = TermQuestions(missing)
      BY <2>1
    <3> QED
      BY <3>1, <2>0, TermQuestionsCount
  <2>2. CASE first # {}
    <3>1. PICK i \in first : \A j \in first : j <= i
      BY <2>2, <1>2, GreatestOfFinite
    <3>2. asked = Before(i) \cup {output[i]}
      BY <3>1, <1>2 DEF TakenBefore
    <3>3. IsFiniteSet(Before(i))
      <4>1. IsFiniteSet({output[j] : j \in {k \in first : k < i}})
        <5>1. IsFiniteSet({k \in first : k < i})
          BY <1>2, FS_Subset
        <5> QED
          BY <5>1, ListedIsFinite
      <4> QED
        BY <4>1, TermQuestionsCount, FS_Union DEF TakenBefore
    <3> HIDE DEF Before
    <3>4. Cardinality(Before(i)) \in Nat /\ Cardinality(asked) <= Cardinality(Before(i)) + 1
      BY <3>2, <3>3, FS_AddElement, FS_CardinalityType
    <3>5. Cardinality(asked) \in Nat
      BY <3>2, <3>3, FS_AddElement, FS_CardinalityType
    <3> QED
      BY <2>0, <3>4, <3>5, <1>4
  <2> QED
    BY <2>1, <2>2
<1> QED
  BY <1>3, <1>8, <1>9

LEMMA ClarificationsInvInit == ClarificationsInit => ClarificationsInv
<1> SUFFICES ASSUME ClarificationsInit PROVE ClarificationsInv
  OBVIOUS
<1>1. Cardinality(Terms) \in Nat
  BY ClarificationsAssumption, FS_CardinalityType
<1>2. NoSession \in Session
  BY <1>1 DEF NoSession, Session
<1>3. ClarificationsTypeOK
  BY <1>2 DEF ClarificationsInit, ClarificationsTypeOK
<1>4. Cardinality({}) = 0 /\ {} \cap Terms = {}
  BY FS_EmptySet
<1>5. SessionInv /\ TabsAreBehind /\ AnswersAreKept
  BY <1>4 DEF ClarificationsInit, SessionInv, TabsAreBehind, AnswersAreKept, NoSession
<1>6. NothingAskedTwice
  BY <1>1, <1>4, ClarificationsAssumption DEF ClarificationsInit, NothingAskedTwice, NoSession, IdsOf
<1> QED
  BY <1>3, <1>5, <1>6 DEF ClarificationsInv

LEMMA StartKeeps ==
  ASSUME ClarificationsInv, Start PROVE ClarificationsInv'
<1>1. session = NoSession /\ told = {} /\ UNCHANGED <<tab, told>>
  BY DEF Start, ClarificationsInv, SessionInv
<1> DEFINE Asked(known, output, first) == TermQuestions(Terms \ known) \cup {output[i] : i \in first}
           Asks(known, output, kept, first) ==
             /\ Prioritized(output, kept, Terms \ known, first)
             /\ session' = [status |-> StatusOf(Asked(known, output, first)), questions |-> Asked(known, output, first),
                            answers |-> {}, known |-> known, stamp |-> 0]
<1>2. \E known \in SUBSET Terms, output \in AiOutputs :
        \E kept \in SUBSET DOMAIN output : \E first \in SUBSET kept : Asks(known, output, kept, first)
  BY DEF Start
<1>3. PICK known \in SUBSET Terms, output \in AiOutputs :
        \E kept \in SUBSET DOMAIN output : \E first \in SUBSET kept : Asks(known, output, kept, first)
  BY <1>2
<1>4. PICK kept \in SUBSET DOMAIN output : \E first \in SUBSET kept : Asks(known, output, kept, first)
  BY <1>3
<1>5. PICK first \in SUBSET kept : Asks(known, output, kept, first)
  BY <1>4
<1> DEFINE asked == TermQuestions(Terms \ known) \cup {output[i] : i \in first}
<1>6. /\ asked \subseteq Question
      /\ \A q, r \in asked : q # r => q.id # r.id /\ (q.topic = r.topic => q.topic = NoTopic)
      /\ Cardinality(asked) <= IF MaxQuestions >= Cardinality(Terms) THEN MaxQuestions ELSE Cardinality(Terms)
  BY <1>5, FirstRound
<1>7. session' = [status |-> StatusOf(asked), questions |-> asked, answers |-> {}, known |-> known, stamp |-> 0]
  BY <1>5
<1> HIDE DEF asked
<1>8. StatusOf(asked) \in {"NEED_MORE_INFO", "READY_TO_GENERATE"} /\ (StatusOf(asked) = "NEED_MORE_INFO" => asked # {})
  BY DEF StatusOf
<1>9. Cardinality(Terms) \in Nat /\ Cardinality({} \cap Terms) = 0
  BY ClarificationsAssumption, FS_CardinalityType, FS_EmptySet
<1>10. ClarificationsTypeOK'
  <2>1. session' \in Session
    BY <1>6, <1>7, <1>8, <1>9 DEF Session
  <2> QED
    BY <1>1, <2>1 DEF ClarificationsInv, ClarificationsTypeOK, Session
<1>11. SessionInv' /\ AnswersAreKept'
  BY <1>1, <1>7, <1>8, <1>9 DEF SessionInv, AnswersAreKept
<1>12. TabsAreBehind'
  <2>1. \A t \in Tabs : tab[t] = NoSession
    BY <1>1 DEF ClarificationsInv, TabsAreBehind, NoSession, ClarificationsTypeOK, Session
  <2> QED
    BY <1>1, <2>1 DEF TabsAreBehind
<1>13. NothingAskedTwice'
  BY <1>6, <1>7 DEF NothingAskedTwice
<1> QED
  BY <1>10, <1>11, <1>12, <1>13 DEF ClarificationsInv

LEMMA AnswerKeepsSession ==
  ASSUME ClarificationsInv, NEW t \in Tabs, Answer(t) PROVE ClarificationsInv'
<1>0. session \in Session /\ tab \in [Tabs -> Session] /\ told \in SUBSET (Terms \cup AiIds)
  BY DEF ClarificationsInv, ClarificationsTypeOK
<1>1. session.stamp \in Nat /\ session.answers \in SUBSET (Terms \cup AiIds) /\ session.questions \in SUBSET Question
  BY <1>0, ClarificationsAssumption, FS_CardinalityType DEF Session
<1>2. tab[t] = session /\ session.status = "NEED_MORE_INFO"
  BY <1>0, <1>1 DEF Answer, Match, ClarificationsInv, TabsAreBehind
<1>3. PICK given \in AnswersTo(session.questions), known \in SUBSET Terms :
        LET answers == session.answers \cup given
            asked == TermQuestions(Missing(answers, known)) IN
        /\ session' = [status |-> StatusOf(asked), questions |-> asked, answers |-> answers,
                       known |-> known, stamp |-> session.stamp + 1]
        /\ told' = told \cup given
  BY <1>2 DEF Answer, KnownWith
<1> DEFINE answers == session.answers \cup given
           missing == Missing(answers, known)
           asked == TermQuestions(missing)
<1>4. /\ session' = [status |-> StatusOf(asked), questions |-> asked, answers |-> answers,
                     known |-> known, stamp |-> session.stamp + 1]
      /\ told' = told \cup given /\ tab' = [tab EXCEPT ![t] = NoSession]
  BY <1>3 DEF Answer
<1>5. missing \in SUBSET (Terms \ answers)
  BY DEF Missing
<1>6. given \in SUBSET (Terms \cup AiIds) /\ answers \in SUBSET (Terms \cup AiIds)
  BY <1>1, QuestionsHaveIds DEF AnswersTo, IdsOf
<1>7. session.stamp + 1 <= Cardinality(answers \cap Terms) + 1
  <2>1. /\ IsFiniteSet(answers \cap Terms) /\ Cardinality(answers \cap Terms) \in Nat
        /\ Cardinality(session.answers \cap Terms) \in Nat
        /\ Cardinality(session.answers \cap Terms) <= Cardinality(answers \cap Terms)
    <3>1. IsFiniteSet(answers \cap Terms) /\ IsFiniteSet(session.answers \cap Terms)
      BY ClarificationsAssumption, FS_Subset
    <3>2. session.answers \cap Terms \in SUBSET (answers \cap Terms)
      OBVIOUS
    <3> QED
      BY <3>1, <3>2, FS_Subset, FS_CardinalityType
  <2>2. CASE session.stamp = 0
    BY <2>1, <2>2
  <2>3. CASE session.stamp # 0
    <3>1. PICK terms \in SUBSET (Terms \ session.answers) : session.questions = TermQuestions(terms)
      BY <2>3 DEF ClarificationsInv, SessionInv
    <3>2. terms # {}
      BY <1>2, <3>1 DEF ClarificationsInv, SessionInv, TermQuestions
    <3>3. terms \subseteq given
      BY <3>1, TermQuestionsAre DEF AnswersTo
    <3>4. session.answers \cap Terms # answers \cap Terms
      BY <3>1, <3>2, <3>3
    <3>5. Cardinality(session.answers \cap Terms) # Cardinality(answers \cap Terms)
      BY <3>4, <2>1, FS_Subset
    <3>6. session.stamp <= Cardinality(session.answers \cap Terms) + 1
      BY DEF ClarificationsInv, SessionInv
    <3> HIDE DEF answers
    <3> QED
      BY <1>1, <2>1, <3>5, <3>6
  <2> QED
    BY <2>2, <2>3
<1> HIDE DEF answers, missing
<1>8. Cardinality(answers \cap Terms) <= Cardinality(Terms) /\ Cardinality(answers \cap Terms) \in Nat /\ Cardinality(Terms) \in Nat
  <2>1. IsFiniteSet(answers \cap Terms)
    BY ClarificationsAssumption, FS_Subset
  <2> QED
    BY <2>1, ClarificationsAssumption, FS_Subset, FS_CardinalityType
<1>9. /\ asked \subseteq Question /\ IdsOf(asked) = missing
      /\ \A q, r \in asked : q # r => q.id # r.id /\ q.topic # r.topic
      /\ Cardinality(asked) \in Nat /\ Cardinality(asked) <= Cardinality(Terms)
  BY <1>5, TermQuestionsAre, TermQuestionsCount
<1>10. SessionInv'
  <2>1. session'.stamp = session.stamp + 1 /\ session'.answers = answers /\ session'.questions = asked
    BY <1>4
  <2>2. session'.status \in {"NEED_MORE_INFO", "READY_TO_GENERATE"} /\ (session'.status = "NEED_MORE_INFO" => asked # {})
    BY <1>4 DEF StatusOf
  <2> QED
    BY <2>1, <2>2, <1>5, <1>7 DEF SessionInv
<1> HIDE DEF asked
<1>11. ClarificationsTypeOK'
  <2>1. StatusOf(asked) \in {"NEED_MORE_INFO", "READY_TO_GENERATE"}
    BY DEF StatusOf
  <2>2. session.stamp + 1 \in 0..(Cardinality(Terms) + 1)
    BY <1>1, <1>7, <1>8
  <2>3. session' \in Session
    BY <1>4, <1>6, <1>9, <2>1, <2>2 DEF Session
  <2>4. NoSession \in Session
    BY <1>8 DEF NoSession, Session
  <2>5. tab' \in [Tabs -> Session]
    BY <1>0, <1>4, <2>4
  <2> QED
    BY <1>0, <1>4, <1>6, <2>3, <2>5 DEF ClarificationsTypeOK
<1>12. TabsAreBehind'
  <2> SUFFICES ASSUME NEW s \in Tabs, tab'[s] # NoSession PROVE tab'[s].stamp < session'.stamp
    BY DEF TabsAreBehind
  <2>1. tab'[s] = tab[s] /\ tab[s] \in Session
    BY <1>0, <1>4
  <2>2. tab[s] = session \/ tab[s].stamp < session.stamp
    BY <2>1 DEF ClarificationsInv, TabsAreBehind
  <2>3. tab[s].stamp \in Int /\ session'.stamp = session.stamp + 1
    BY <2>1, <1>4, <1>8 DEF Session
  <2> QED
    BY <2>1, <2>2, <2>3, <1>1
<1>13. AnswersAreKept'
  BY <1>4 DEF ClarificationsInv, AnswersAreKept, answers
<1>14. NothingAskedTwice'
  BY <1>4, <1>5, <1>8, <1>9, ClarificationsAssumption DEF NothingAskedTwice
<1> QED
  BY <1>10, <1>11, <1>12, <1>13, <1>14 DEF ClarificationsInv

LEMMA ClarificationsInvNext ==
  ASSUME ClarificationsInv, [ClarificationsNext]_clarificationVars PROVE ClarificationsInv'
<1>0. session \in Session /\ tab \in [Tabs -> Session] /\ NoSession \in Session
  BY ClarificationsAssumption, FS_CardinalityType DEF ClarificationsInv, ClarificationsTypeOK, NoSession, Session
<1>1. ASSUME NEW t \in Tabs, NEW s \in {NoSession, session},
             tab' = [tab EXCEPT ![t] = s], UNCHANGED <<session, told>>
      PROVE  ClarificationsInv'
  <2>1. ClarificationsTypeOK'
    BY <1>0, <1>1 DEF ClarificationsInv, ClarificationsTypeOK, Session
  <2>2. TabsAreBehind'
    BY <1>0, <1>1 DEF ClarificationsInv, TabsAreBehind
  <2> QED
    BY <2>1, <2>2, <1>1 DEF ClarificationsInv, SessionInv, AnswersAreKept, NothingAskedTwice
<1>2. CASE UNCHANGED clarificationVars
  BY <1>2 DEF clarificationVars, ClarificationsInv, ClarificationsTypeOK, SessionInv, TabsAreBehind,
     AnswersAreKept, NothingAskedTwice, Session
<1> QED
  BY <1>1, <1>2, StartKeeps, AnswerKeepsSession
     DEF ClarificationsNext, TabStep, LoadSession, AnswerFails

LEMMA ClarificationsInvariance == ClarificationsSpec => []ClarificationsInv
BY ClarificationsInvInit, ClarificationsInvNext, PTL DEF ClarificationsSpec

(* A session keeps its types, and its stamp within Cardinality(Terms) + 1: *)
(* a round of answers settles a term, or it is the first, for any finite   *)
(* set of terms and any questions of the AI.                               *)
THEOREM ClarificationsTyping == ClarificationsSpec => []ClarificationsTypeOK
<1>1. ClarificationsInv => ClarificationsTypeOK
  BY DEF ClarificationsInv
<1> QED
  BY <1>1, ClarificationsInvariance, PTL

(* An answer that a session has accepted is never lost to a round of       *)
(* another tab, which was read before it.                                  *)
THEOREM AnswersStayKept == ClarificationsSpec => []AnswersAreKept
<1>1. ClarificationsInv => AnswersAreKept
  BY DEF ClarificationsInv
<1> QED
  BY <1>1, ClarificationsInvariance, PTL

(* No round asks what was answered, no two of its questions share an id or *)
(* a topic, and the first keeps to the limit unless the missing terms alone*)
(* exceed it: whatever the AI returns and however the tabs overlap.        *)
THEOREM NothingIsAskedTwice == ClarificationsSpec => []NothingAskedTwice
<1>1. ClarificationsInv => NothingAskedTwice
  BY DEF ClarificationsInv
<1> QED
  BY <1>1, ClarificationsInvariance, PTL

-----------------------------------------------------------------------------
(* StoredDocuments.                                                        *)

(* The slot of a writer, as DocumentsTypeOK has it.                        *)
Writer == [phase: {"idle", "ready", "collecting", "stored", "cleanup"}, kind: Kinds,
           key: 0..MaxKeys, needs: SUBSET Keys]

(* A key is drawn once, and held by one writer from its put to its end.    *)
KeysAreDrawn ==
  /\ \A k \in objects \cup RowKeys : k <= drawn
  /\ \A w \in Writers : writer[w].key <= drawn
  /\ \A w \in Writers : writer[w].key # 0 <=> writer[w].phase \in {"stored", "cleanup"}
  /\ \A v, w \in Writers : writer[v].key = writer[w].key /\ writer[v].key # 0 => v = w

(* Before its commit the object of a writer is there and no row names it;  *)
(* one that is about to be deleted is named by an unanswered commit only.  *)
HeldIsApart ==
  \A w \in Writers :
    /\ writer[w].phase = "stored" => writer[w].key \in objects \ RowKeys
    /\ writer[w].phase = "cleanup" /\ writer[w].key \in RowKeys => writer[w].key \in unheard

(* A package under way is made of the PDF whose row is there and stays.    *)
PackagesNeedThePdf ==
  \A w \in Writers : writer[w].kind = "EVIDENCE_ZIP" =>
    /\ artifact["FINAL_PDF"] # 0
    /\ writer[w].phase \in {"collecting", "ready"} => artifact["FINAL_PDF"] \in writer[w].needs
    /\ writer[w].phase = "stored" => artifact["FINAL_PDF"] \in packed[writer[w].key]

DocumentsInv ==
  /\ DocumentsTypeOK /\ KeysAreDrawn /\ HeldIsApart /\ PackagesNeedThePdf
  /\ RowsNameObjects /\ OrphansAreExcused /\ PackageHoldsThePdf

-----------------------------------------------------------------------------
LEMMA RestType == Rest \in Writer /\ Rest.phase = "idle" /\ Rest.key = 0 /\ Rest.kind = "FILE"
BY StorageAssumption DEF Rest, Writer, Kinds

LEMMA ArtifactKindsAre == ArtifactKinds = {"FINAL_PDF", "EVIDENCE_ZIP"}
BY DEF ArtifactKinds, Kinds

LEMMA RowKeysAre ==
  RowKeys = (files \cup {artifact["FINAL_PDF"], artifact["EVIDENCE_ZIP"]}) \ {0}
BY ArtifactKindsAre DEF RowKeys

LEMMA DocumentsInvInit == DocumentsInit => DocumentsInv
<1> SUFFICES ASSUME DocumentsInit PROVE DocumentsInv
  OBVIOUS
<1>1. DocumentsTypeOK
  BY RestType, StorageAssumption DEF DocumentsInit, DocumentsTypeOK, Keys, Writer
<1>2. RowKeys = {}
  BY RowKeysAre, ArtifactKindsAre DEF DocumentsInit
<1>3. KeysAreDrawn /\ HeldIsApart /\ PackagesNeedThePdf
  BY <1>2, RestType DEF DocumentsInit, KeysAreDrawn, HeldIsApart, PackagesNeedThePdf
<1>4. RowsNameObjects /\ OrphansAreExcused /\ PackageHoldsThePdf
  BY <1>2, ArtifactKindsAre DEF DocumentsInit, RowsNameObjects, OrphansAreExcused, PackageHoldsThePdf
<1> QED
  BY <1>1, <1>3, <1>4 DEF DocumentsInv

(* A step that moves one writer from one phase without a key to another.   *)
LEMMA KeylessStep ==
  ASSUME DocumentsInv, NEW w \in Writers, NEW q \in Writer,
         writer' = [writer EXCEPT ![w] = q],
         writer[w].key = 0, q.key = 0, q.phase \notin {"stored", "cleanup"},
         q.kind = "EVIDENCE_ZIP" =>
           /\ artifact["FINAL_PDF"] # 0
           /\ q.phase \in {"collecting", "ready"} => artifact["FINAL_PDF"] \in q.needs,
         UNCHANGED <<drawn, objects, files, artifact, packed, unheard, abandoned>>
  PROVE  DocumentsInv'
<1>0. writer \in [Writers -> Writer]
  BY DEF DocumentsInv, DocumentsTypeOK, Writer
<1>1. DocumentsTypeOK'
  BY <1>0 DEF DocumentsInv, DocumentsTypeOK, Writer
<1>2. RowKeys' = RowKeys
  BY DEF RowKeys
<1>3. KeysAreDrawn'
  BY <1>0, <1>2, StorageAssumption DEF DocumentsInv, DocumentsTypeOK, KeysAreDrawn
<1>4. HeldIsApart' /\ PackagesNeedThePdf'
  BY <1>0, <1>2 DEF DocumentsInv, HeldIsApart, PackagesNeedThePdf
<1>5. HeldKeys' = HeldKeys
  BY <1>0 DEF HeldKeys
<1>6. RowsNameObjects' /\ OrphansAreExcused' /\ PackageHoldsThePdf'
  BY <1>2, <1>5 DEF DocumentsInv, RowsNameObjects, OrphansAreExcused, PackageHoldsThePdf
<1> QED
  BY <1>1, <1>3, <1>4, <1>6 DEF DocumentsInv

LEMMA PutKeeps ==
  ASSUME DocumentsInv, NEW w \in Writers, PutObject(w) PROVE DocumentsInv'
<1> DEFINE k == drawn + 1
<1>0. /\ writer \in [Writers -> Writer] /\ drawn \in 0..MaxKeys /\ objects \in SUBSET Keys
      /\ abandoned \in SUBSET Keys /\ packed \in [Keys -> SUBSET Keys]
      /\ artifact["FINAL_PDF"] \in 0..MaxKeys /\ artifact["EVIDENCE_ZIP"] \in 0..MaxKeys
  BY ArtifactKindsAre DEF DocumentsInv, DocumentsTypeOK, Writer
<1>1. /\ k \in Keys /\ k \in 0..MaxKeys /\ k > drawn
      /\ writer[w].phase = "ready" /\ drawn' = k /\ UNCHANGED <<files, artifact, unheard>>
  BY <1>0, StorageAssumption DEF PutObject, Keys
<1>2. RowKeys' = RowKeys
  BY <1>1 DEF RowKeys
<1>3. k \notin objects /\ k \notin RowKeys /\ \A v \in Writers : writer[v].key # k
  BY <1>0 DEF DocumentsInv, KeysAreDrawn, Keys
<1>4. packed' = [packed EXCEPT ![k] = writer[w].needs]
  BY DEF PutObject
<1> HIDE DEF k
<1>5. PackageHoldsThePdf'
  <2>1. artifact["EVIDENCE_ZIP"] # 0 => artifact["EVIDENCE_ZIP"] # k
    BY <1>3, RowKeysAre
  <2> QED
    BY <2>1, <1>0, <1>1, <1>4 DEF DocumentsInv, PackageHoldsThePdf, Keys
<1>6. CASE objects' = objects \cup {k} /\ UNCHANGED abandoned
           /\ writer' = [writer EXCEPT ![w].phase = "stored", ![w].key = k, ![w].needs = {}]
  <2>1. DocumentsTypeOK'
    <3>1. writer' \in [Writers -> Writer]
      <4>1. [phase |-> "stored", kind |-> writer[w].kind, key |-> k, needs |-> {}] \in Writer
        BY <1>0, <1>1 DEF Writer
      <4>2. \A v \in Writers \ {w} : writer'[v] = writer[v]
        BY <1>0, <1>6
      <4>3. writer'[w] = [phase |-> "stored", kind |-> writer[w].kind, key |-> k, needs |-> {}]
        BY <1>0, <1>6 DEF Writer
      <4>4. DOMAIN writer' = Writers /\ writer' = [v \in Writers |-> writer'[v]]
        BY <1>0, <1>6
      <4> QED
        BY <1>0, <4>1, <4>2, <4>3, <4>4
    <3>2. drawn' \in 0..MaxKeys /\ objects' \in SUBSET Keys /\ packed' \in [Keys -> SUBSET Keys]
      BY <1>0, <1>1, <1>4, <1>6 DEF Keys, Writer
    <3> QED
      BY <3>1, <3>2, <1>1, <1>6 DEF DocumentsInv, DocumentsTypeOK, Writer
  <2>2. KeysAreDrawn'
    BY <1>0, <1>1, <1>2, <1>3, <1>6 DEF DocumentsInv, KeysAreDrawn, Writer, Keys
  <2>3. HeldIsApart'
    BY <1>0, <1>1, <1>2, <1>3, <1>6 DEF DocumentsInv, HeldIsApart, Writer
  <2>4. PackagesNeedThePdf'
    BY <1>0, <1>1, <1>3, <1>4, <1>6 DEF DocumentsInv, PackagesNeedThePdf, KeysAreDrawn, Writer, Keys
  <2>5. HeldKeys' = HeldKeys \cup {k}
    BY <1>0, <1>1, <1>3, <1>6 DEF HeldKeys, DocumentsInv, KeysAreDrawn, Writer, Keys
  <2>6. RowsNameObjects' /\ OrphansAreExcused'
    BY <2>5, <1>1, <1>2, <1>6 DEF DocumentsInv, RowsNameObjects, OrphansAreExcused
  <2> QED
    BY <2>1, <2>2, <2>3, <2>4, <2>6, <1>5 DEF DocumentsInv
<1>7. ASSUME WriterRests(w),
             \/ objects' = objects \cup {k} /\ abandoned' = abandoned \cup {k}
             \/ UNCHANGED <<objects, abandoned>>
      PROVE  DocumentsInv'
  <2>0. writer' = [writer EXCEPT ![w] = Rest]
    BY <1>7 DEF WriterRests
  <2>1. DocumentsTypeOK'
    <3>1. writer' \in [Writers -> Writer]
      BY <1>0, <2>0, RestType
    <3>2. /\ drawn' \in 0..MaxKeys /\ objects' \in SUBSET Keys /\ abandoned' \in SUBSET Keys
          /\ packed' \in [Keys -> SUBSET Keys]
      BY <1>0, <1>1, <1>4, <1>7 DEF Writer
    <3> QED
      BY <3>1, <3>2, <1>1 DEF DocumentsInv, DocumentsTypeOK, Writer
  <2>2. KeysAreDrawn'
    <3>1. \A j \in objects' \cup RowKeys' : j <= drawn'
      <4>1. \A j \in objects \cup RowKeys : j \in Int /\ j <= drawn
        BY <1>0, ArtifactKindsAre DEF DocumentsInv, DocumentsTypeOK, KeysAreDrawn, Keys, RowKeys
      <4>2. k \in Int /\ drawn \in Int
        BY <1>0, <1>1
      <4> QED
        BY <4>1, <4>2, <1>1, <1>2, <1>7
    <3>2. \A v \in Writers : writer'[v] = IF v = w THEN Rest ELSE writer[v]
      BY <1>0, <2>0
    <3> QED
      BY <3>1, <3>2, <1>0, <1>1, RestType DEF DocumentsInv, KeysAreDrawn, Writer
  <2>3. HeldIsApart'
    BY <1>0, <1>1, <1>2, <1>7, <2>0, RestType DEF DocumentsInv, HeldIsApart, Writer
  <2>4. PackagesNeedThePdf'
    BY <1>0, <1>1, <1>3, <1>4, <2>0, RestType DEF DocumentsInv, PackagesNeedThePdf, KeysAreDrawn, Writer, Keys
  <2>5. HeldKeys' = HeldKeys
    BY <1>0, <1>1, <2>0, RestType DEF HeldKeys, DocumentsInv, KeysAreDrawn, Writer
  <2>6. RowsNameObjects' /\ OrphansAreExcused'
    BY <2>5, <1>1, <1>2, <1>7 DEF DocumentsInv, RowsNameObjects, OrphansAreExcused
  <2> QED
    BY <2>1, <2>2, <2>3, <2>4, <2>6, <1>5 DEF DocumentsInv
<1> QED
  BY <1>6, <1>7 DEF PutObject, k

LEMMA CommitKeeps ==
  ASSUME DocumentsInv, NEW w \in Writers, CommitRow(w) PROVE DocumentsInv'
<1> DEFINE k == writer[w].key
<1>0. /\ writer \in [Writers -> Writer] /\ files \in SUBSET Keys
      /\ artifact \in [ArtifactKinds -> 0..MaxKeys]
  BY DEF DocumentsInv, DocumentsTypeOK, Writer
<1>1. /\ writer[w].phase = "stored" /\ k \in objects \ RowKeys /\ k # 0
      /\ UNCHANGED <<drawn, objects, packed, abandoned>>
  BY DEF DocumentsInv, HeldIsApart, KeysAreDrawn, CommitRow
<1>2. k \in Keys /\ writer[w].kind \in Kinds
  BY <1>0, <1>1 DEF Writer, Keys
<1>3. \/ writer[w].kind = "FILE" /\ files' = files \cup {k} /\ UNCHANGED artifact
      \/ /\ writer[w].kind \in ArtifactKinds /\ artifact[writer[w].kind] = 0
         /\ artifact' = [artifact EXCEPT ![writer[w].kind] = k] /\ UNCHANGED files
  BY <1>2 DEF CommitRow, InsertRow, Taken, ArtifactKinds
<1>4. RowKeys' = RowKeys \cup {k}
  BY <1>0, <1>1, <1>3, ArtifactKindsAre DEF RowKeys
<1>5. \/ writer' = [writer EXCEPT ![w] = Rest] /\ UNCHANGED unheard
      \/ writer' = [writer EXCEPT ![w].phase = "cleanup"] /\ unheard' = unheard \cup {k}
  BY DEF CommitRow, WriterRests, WriterTo
<1>6. DocumentsTypeOK'
  <2>1. writer' \in [Writers -> Writer]
    BY <1>0, <1>5, RestType DEF Writer
  <2>2. files' \in SUBSET Keys /\ artifact' \in [ArtifactKinds -> 0..MaxKeys]
    <3>1. k \in 0..MaxKeys
      BY <1>2 DEF Keys
    <3> HIDE DEF k
    <3> QED
      BY <1>0, <1>2, <1>3, <3>1
  <2>3. unheard' \in SUBSET Keys
    BY <1>2, <1>5 DEF DocumentsInv, DocumentsTypeOK
  <2> QED
    BY <2>1, <2>2, <2>3, <1>1 DEF DocumentsInv, DocumentsTypeOK, Writer
<1>7. KeysAreDrawn'
  <2>1. \A j \in objects' \cup RowKeys' : j <= drawn'
    BY <1>1, <1>4 DEF DocumentsInv, KeysAreDrawn
  <2>2. \A v \in Writers : \/ writer'[v] = Rest
                            \/ writer'[v] = writer[v]
                            \/ /\ writer'[v].key = writer[v].key
                               /\ writer'[v].phase = "cleanup" /\ writer[v].phase = "stored"
    BY <1>0, <1>1, <1>5 DEF Writer
  <2> QED
    BY <2>1, <2>2, <1>1, RestType, StorageAssumption DEF DocumentsInv, DocumentsTypeOK, KeysAreDrawn
<1>8. HeldIsApart'
  <2> SUFFICES ASSUME NEW v \in Writers
               PROVE /\ writer'[v].phase = "stored" => writer'[v].key \in objects' \ RowKeys'
                     /\ writer'[v].phase = "cleanup" /\ writer'[v].key \in RowKeys'
                          => writer'[v].key \in unheard'
    BY DEF HeldIsApart
  <2>1. CASE v = w
    BY <2>1, <1>0, <1>1, <1>5, RestType DEF Writer
  <2>2. CASE v # w
    <3>1. writer'[v] = writer[v]
      BY <2>2, <1>0, <1>5
    <3>2. writer[v].key # k
      BY <2>2, <1>1 DEF DocumentsInv, KeysAreDrawn
    <3> QED
      BY <3>1, <3>2, <1>1, <1>4, <1>5 DEF DocumentsInv, HeldIsApart
  <2> QED
    BY <2>1, <2>2
<1>9. PackagesNeedThePdf' /\ PackageHoldsThePdf'
  <2>1. \A v \in Writers : writer'[v].kind = "EVIDENCE_ZIP" =>
          /\ writer[v].kind = "EVIDENCE_ZIP" /\ writer'[v].phase \in {writer[v].phase, "cleanup"}
          /\ writer'[v].needs = writer[v].needs /\ writer'[v].key = writer[v].key
    BY <1>0, <1>5, RestType DEF Writer
  <2>2. CASE artifact'["FINAL_PDF"] = artifact["FINAL_PDF"]
    <3>1. PackagesNeedThePdf'
      BY <2>1, <2>2, <1>1 DEF DocumentsInv, PackagesNeedThePdf
    <3>2. PackageHoldsThePdf'
      BY <2>2, <1>0, <1>1, <1>3, ArtifactKindsAre
      DEF DocumentsInv, PackagesNeedThePdf, PackageHoldsThePdf
    <3> QED
      BY <3>1, <3>2
  <2>3. CASE artifact'["FINAL_PDF"] # artifact["FINAL_PDF"]
    <3>1. artifact["FINAL_PDF"] = 0 /\ artifact'["EVIDENCE_ZIP"] = artifact["EVIDENCE_ZIP"]
      BY <2>3, <1>0, <1>3, ArtifactKindsAre
    <3>2. \A v \in Writers : writer[v].kind # "EVIDENCE_ZIP"
      BY <3>1 DEF DocumentsInv, PackagesNeedThePdf
    <3>3. artifact["EVIDENCE_ZIP"] = 0
      <4>1. packed \in [Keys -> SUBSET Keys] /\ artifact["EVIDENCE_ZIP"] \in 0..MaxKeys
        BY <1>0, ArtifactKindsAre DEF DocumentsInv, DocumentsTypeOK
      <4>2. ASSUME artifact["EVIDENCE_ZIP"] # 0 PROVE FALSE
        BY <4>1, <4>2, <3>1, StorageAssumption DEF DocumentsInv, PackageHoldsThePdf, Keys
      <4> QED
        BY <4>2
    <3> QED
      BY <2>1, <3>1, <3>2, <3>3 DEF PackagesNeedThePdf, PackageHoldsThePdf
  <2> QED
    BY <2>2, <2>3
<1>10. HeldKeys \subseteq HeldKeys' \cup {k}
  BY <1>0, <1>5 DEF HeldKeys, Writer
<1>11. RowsNameObjects' /\ OrphansAreExcused'
  BY <1>1, <1>4, <1>5, <1>10 DEF DocumentsInv, RowsNameObjects, OrphansAreExcused
<1> QED
  BY <1>6, <1>7, <1>8, <1>9, <1>11 DEF DocumentsInv

LEMMA EndKeeps ==
  ASSUME DocumentsInv, NEW w \in Writers, CommitFails(w) \/ DeleteObject(w) \/ WriterDies(w)
  PROVE  DocumentsInv'
<1> DEFINE k == writer[w].key
<1>0. writer \in [Writers -> Writer] /\ UNCHANGED <<drawn, files, artifact, packed, unheard>>
  BY DEF DocumentsInv, DocumentsTypeOK, Writer, CommitFails, DeleteObject, WriterDies
<1>1. RowKeys' = RowKeys
  BY <1>0 DEF RowKeys
<1>2. \/ writer' = [writer EXCEPT ![w].phase = "cleanup"] /\ writer[w].phase = "stored"
         /\ UNCHANGED <<objects, abandoned>>
      \/ /\ writer' = [writer EXCEPT ![w] = Rest]
         /\ \/ writer[w].phase = "cleanup" /\ objects' = objects \ {k} /\ UNCHANGED abandoned
            \/ UNCHANGED objects /\ abandoned' = abandoned \cup {k}
            \/ UNCHANGED <<objects, abandoned>> /\ k = 0
  BY DEF CommitFails, DeleteObject, WriterDies, WriterTo, WriterRests, Cleanup
<1>3. DocumentsTypeOK'
  <2>1. k \in Keys \/ k = 0
    BY <1>0 DEF Writer, Keys
  <2>2. writer' \in [Writers -> Writer]
    BY <1>0, <1>2, RestType DEF Writer
  <2>3. abandoned' \in SUBSET Keys /\ objects' \in SUBSET Keys
    BY <2>1, <1>2 DEF CommitFails, DeleteObject, WriterDies, DocumentsInv, DocumentsTypeOK, KeysAreDrawn
  <2> QED
    BY <2>2, <2>3, <1>0 DEF DocumentsInv, DocumentsTypeOK, Writer
<1>4. KeysAreDrawn'
  BY <1>0, <1>1, <1>2, RestType, StorageAssumption DEF DocumentsInv, DocumentsTypeOK, KeysAreDrawn, Writer
<1>5. \A v \in Writers \ {w} : writer'[v] = writer[v] /\ (writer[v].key = k => k = 0)
  BY <1>0, <1>2 DEF DocumentsInv, KeysAreDrawn
<1>6. HeldIsApart'
  BY <1>0, <1>1, <1>2, <1>5, RestType DEF DocumentsInv, HeldIsApart, KeysAreDrawn, Writer
<1>7. PackagesNeedThePdf' /\ PackageHoldsThePdf'
  BY <1>0, <1>2, RestType DEF DocumentsInv, PackagesNeedThePdf, PackageHoldsThePdf, Writer
<1>8. RowsNameObjects'
  BY <1>0, <1>1, <1>2 DEF DocumentsInv, RowsNameObjects, HeldIsApart
<1>9. HeldKeys \subseteq HeldKeys' \cup {k} /\ (writer'[w].key = k => HeldKeys \subseteq HeldKeys')
  BY <1>0, <1>2 DEF HeldKeys, Writer
<1>10. OrphansAreExcused'
  BY <1>0, <1>1, <1>2, <1>9 DEF DocumentsInv, OrphansAreExcused, HeldKeys, Writer
<1> QED
  BY <1>3, <1>4, <1>6, <1>7, <1>8, <1>10 DEF DocumentsInv

LEMMA DocumentsInvNext ==
  ASSUME DocumentsInv, [DocumentsNext]_documentVars PROVE DocumentsInv'
<1>0. writer \in [Writers -> Writer] /\ files \in SUBSET Keys /\ artifact \in [ArtifactKinds -> 0..MaxKeys]
  BY DEF DocumentsInv, DocumentsTypeOK, Writer
<1>1. ASSUME NEW w \in Writers, NEW kind \in Kinds, NEW phase \in {"ready", "collecting"},
             NEW needs \in SUBSET Keys, Begin(w, kind, phase, needs),
             kind = "EVIDENCE_ZIP" => artifact["FINAL_PDF"] # 0 /\ artifact["FINAL_PDF"] \in needs
      PROVE  DocumentsInv'
  <2> DEFINE q == [phase |-> phase, kind |-> kind, key |-> 0, needs |-> needs]
  <2>1. q \in Writer
    BY StorageAssumption DEF Writer
  <2>2. writer[w].key = 0
    BY <1>1 DEF Begin, DocumentsInv, KeysAreDrawn
  <2>3. /\ writer' = [writer EXCEPT ![w] = q]
        /\ UNCHANGED <<drawn, objects, files, artifact, packed, unheard, abandoned>>
    BY <1>1 DEF Begin
  <2> HIDE DEF q
  <2>4. q.key = 0 /\ q.phase = phase /\ q.kind = kind /\ q.needs = needs
    BY DEF q
  <2> QED
    BY <2>1, <2>2, <2>3, <2>4, <1>1, KeylessStep
<1>2. ASSUME NEW w \in Writers, BeginUpload(w) \/ BeginFinalPdf(w) PROVE DocumentsInv'
  BY <1>1, <1>2 DEF BeginUpload, BeginFinalPdf, Kinds
<1>3. ASSUME NEW w \in Writers, BeginPackage(w) PROVE DocumentsInv'
  <2>1. artifact["FINAL_PDF"] \in Keys
    BY <1>0, <1>3, ArtifactKindsAre, StorageAssumption DEF BeginPackage, Keys
  <2>2. PackageNeeds \in SUBSET Keys /\ artifact["FINAL_PDF"] \in PackageNeeds
    BY <1>0, <2>1 DEF PackageNeeds
  <2> QED
    BY <2>2, <1>1, <1>3 DEF BeginPackage, Kinds
<1>4. ASSUME NEW w \in Writers, Collect(w) PROVE DocumentsInv'
  <2> DEFINE q == IF writer[w].needs \subseteq objects THEN [writer[w] EXCEPT !.phase = "ready"] ELSE Rest
  <2>1. q \in Writer
    BY <1>0, RestType DEF Writer
  <2>2. writer[w].key = 0
    BY <1>4 DEF Collect, DocumentsInv, KeysAreDrawn
  <2>3. writer' = [writer EXCEPT ![w] = q]
    BY <1>4, <1>0 DEF Collect, WriterTo, WriterRests
  <2>4. /\ q.key = 0 /\ q.phase \notin {"stored", "cleanup"}
        /\ q.kind = "EVIDENCE_ZIP" => q.kind = writer[w].kind /\ q.needs = writer[w].needs
    BY <2>2, <1>0, RestType DEF Writer
  <2> HIDE DEF q
  <2>5. q.kind = "EVIDENCE_ZIP" => artifact["FINAL_PDF"] # 0 /\ artifact["FINAL_PDF"] \in q.needs
    BY <2>4, <1>4 DEF Collect, DocumentsInv, PackagesNeedThePdf
  <2> QED
    BY <2>1, <2>2, <2>3, <2>4, <2>5, <1>4, KeylessStep DEF Collect
<1>5. CASE UNCHANGED documentVars
  BY <1>5 DEF documentVars, DocumentsInv, DocumentsTypeOK, KeysAreDrawn, HeldIsApart, PackagesNeedThePdf,
     RowsNameObjects, OrphansAreExcused, PackageHoldsThePdf, RowKeys, HeldKeys
<1> QED
  BY <1>2, <1>3, <1>4, <1>5, PutKeeps, CommitKeeps, EndKeeps DEF DocumentsNext, DocumentStep

LEMMA DocumentsInvariance == DocumentsSpec => []DocumentsInv
BY DocumentsInvInit, DocumentsInvNext, PTL DEF DocumentsSpec

(* The writers, the rows and the objects keep their types, however calls   *)
(* fail.                                                                   *)
THEOREM DocumentsTyping == DocumentsSpec => []DocumentsTypeOK
<1>1. DocumentsInv => DocumentsTypeOK
  BY DEF DocumentsInv
<1> QED
  BY <1>1, DocumentsInvariance, PTL

(* Whatever uploads, builds and clean-ups overlap or fail, a row of        *)
(* deal_files or deal_artifacts never names an object that is not there,   *)
(* but after a clean-up that ran although its commit had taken effect.     *)
THEOREM RowsHaveObjects == DocumentsSpec => []RowsNameObjects
<1>1. DocumentsInv => RowsNameObjects
  BY DEF DocumentsInv
<1> QED
  BY <1>1, DocumentsInvariance, PTL

(* An object that no row names belongs to a request that is under way, or  *)
(* to one that was cut off or heard wrongly: nothing else leaves orphans.  *)
THEOREM OrphansHaveAnExcuse == DocumentsSpec => []OrphansAreExcused
<1>1. DocumentsInv => OrphansAreExcused
  BY DEF DocumentsInv
<1> QED
  BY <1>1, DocumentsInvariance, PTL

(* The evidence package that is stored holds the PDF that is stored.       *)
THEOREM PackagesHoldThePdf == DocumentsSpec => []PackageHoldsThePdf
<1>1. DocumentsInv => PackageHoldsThePdf
  BY DEF DocumentsInv
<1> QED
  BY <1>1, DocumentsInvariance, PTL
=============================================================================
