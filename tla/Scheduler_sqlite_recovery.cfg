SPECIFICATION Spec
CONSTANTS
  reminder = reminder
  report = report
  Jobs = {reminder}
  KindOf <- MCKindOf
  Writer = "sqlite"
  MaxRuns = 2
  MaxVersion = 1
  MaxAsked = 0
  MaxStarts = 2
PROPERTIES
  NoRepeat
CHECK_DEADLOCK FALSE
