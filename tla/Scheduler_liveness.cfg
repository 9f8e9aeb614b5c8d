SPECIFICATION Spec
CONSTANTS
  reminder = reminder
  report = report
  Jobs = {report}
  KindOf <- MCKindOf
  Writer = "sqlite"
  MaxRuns = 2
  MaxVersion = 1
  MaxAsked = 1
  MaxStarts = 1
PROPERTIES
  RunSettles
  CloseReturns
CHECK_DEADLOCK FALSE
