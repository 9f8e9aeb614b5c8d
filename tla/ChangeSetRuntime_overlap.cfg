SPECIFICATION Spec
CONSTANTS
  Sets = {c1, c2}
  Plan <- CreateUpdate
  Leases = {l1}
  Handlers = {h1, h2}
  None = None
SYMMETRY Symmetry
INVARIANTS
  TypeOK
  SetEffectAgree
  OneSetPerApproval
