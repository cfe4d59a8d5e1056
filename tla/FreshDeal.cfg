CONSTANTS
  Requests = {r1, r2, r3}
  Guests = {g1, g2}
  Nobody = Nobody
  Texts = {t1, t2}
  NoText = NoText
  MaxVersions = 2
  MaxInvitations = 1
  LegacyStatuses = {}
SPECIFICATION Spec
SYMMETRY Symmetry
PROPERTIES StatusFollowsGraph
