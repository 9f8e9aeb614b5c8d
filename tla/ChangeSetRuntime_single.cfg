SPECIFICATION Spec
CONSTANTS
  Sets = {c1, c2}
  Plan <- CreateUpdateDelete
  Leases = {l1, l2}
  Handlers = {h1}
  None = None
SYMMETRY Symmetry
INVARIANTS
  TreeFollowsReceipt
  FailedIsClean
PROPERTIES
  ImplementsJournal
