SPECIFICATION ServicesSpec
CONSTANTS
  Parties = {p1}
  Requests = {r1, r2}
  MaxVersions = 2
  Holders = {p1}
  CodeVersions = {1, 2}
  Issuers = {i1, i2}
  Checkers = {r1, r2}
  MaxTries = 2
  MaxCodes = 3
  Logins = {l1, l2, l3}
  Readers = {q1, q2}
  LaunchEnds = 1
  Writers = {w1, w2}
  UploadCapacity = 1
  MaxKeys = 3
  Admins = {a1, a2}
  Schemas = {s1, s2}
  RequirementKeys = {k1, k2}
  MaxTemplateVersions = 3
  Users = {u1, u2}
  PhoneNumbers = {n1, n2}
  Verifications = {v1, v2}
  Inquiries = {t1, t2}
  Terms = {d1, d2}
  AiIds = {x1, x2}
  MaxQuestions = 3
  Tabs = {b1, b2}
  ClientIds = {c1, c2}
  Bodies = {m1, m2}
  Sends = {e1, e2}
  MaxEdits = 2
  MaxSteps = 1
  MaxWrites = 3
  MaxQueued = 1
  Asks = {g1}
  MaxChanges = 2
  MaxDialogues = 2
INVARIANTS
  ServicesTypeOK
  DeliveredCodeWorks
  SignatureHasCode
  LogoutEndsSession
  OneSessionPerLaunch
  RowsNameObjects
  OrphansAreExcused
  PackageHoldsThePdf
  OneCurrentVersion
  RequirementsOfOneEdit
  PhonesAreOnes
  AnswerShowsFacts
  AnswersAreKept
  NothingAskedTwice
  MessageIsOnes
  SaveFailsForAReason
  SavedIsStored
  FinishedDraftIsOfItsTerms
PROPERTY PublishedTextIsStable
CHECK_DEADLOCK FALSE
