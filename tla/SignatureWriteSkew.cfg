CONSTANTS
  Requests = {r1, r2, r3}
  Parties = {initiator, counterparty}
  MaxVersions = 2
SPECIFICATION Spec
SYMMETRY Symmetry
INVARIANTS BothSignedIsSigned
