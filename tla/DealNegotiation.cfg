CONSTANTS
  Requests = {r1, r2, r3}
  Guests = {g1, g2}
  Nobody = Nobody
  Texts = {t1, t2}
  NoText = NoText
  MaxVersions = 2
  MaxInvitations = 2
  LegacyStatuses = {"COLLECTING_DATA", "INVITATION_READY", "INVITED", "COUNTERPARTY_JOINED", "DOCUMENTS_PENDING", "DOCUMENTS_REVIEW"}
SPECIFICATION Spec
SYMMETRY Symmetry
INVARIANTS
  TypeOK
  ReadyMeansUnanimous
  ApprovalsOfCurrentVersion
  ApprovedTextIsFrozen
  OneAdmission
PROPERTIES ImplementsAgreement
