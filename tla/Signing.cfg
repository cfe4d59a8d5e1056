CONSTANTS
  Requests = {r1, r2, r3}
  Parties = {initiator, counterparty}
  MaxVersions = 2
  Reviewers = {o1, o2}
  Calls = {k1, k2}
  MaxAmendments = 1
SPECIFICATION StagedSpec
SYMMETRY Symmetry
INVARIANTS CompletedIsSigned DeliveriesOfCompletion ApprovedAsSeen
PROPERTIES ImplementsCompletion SignedIsStable
