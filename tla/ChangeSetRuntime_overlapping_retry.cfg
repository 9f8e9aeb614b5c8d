SPECIFICATION Spec
CONSTANTS
  Sets = {c1}
  Plan <- UpdateCreate
  Leases = {l1}
  Handlers = {h1, h2}
  None = None
INVARIANT TreeFollowsReceipt
