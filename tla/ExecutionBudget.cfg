SPECIFICATION Spec
CONSTANTS
  c1 = c1
  c2 = c2
  c3 = c3
  root = root
  child = child
  Calls = {c1, c2, c3}
  WriteCalls = {c3}
  Scopes = {root, child}
  ScopeOf <- MCScopeOf
  Estimate <- MCEstimate
  Usages <- MCUsages
  TaskLimit <- MCTaskLimit
  ScopeLimit <- MCScopeLimit
INVARIANTS
  WithinBudget
  TypeOK
  ReservedHasOwner
PROPERTIES
  ChargeStays
