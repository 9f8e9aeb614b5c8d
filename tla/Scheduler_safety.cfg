SPECIFICATION Spec
CONSTANTS
  reminder = reminder
  report = report
  Jobs = {reminder}
  KindOf <- MCKindOf
  Writer = "json"
  MaxRuns = 2
  MaxVersion = 2
  MaxAsked = 1
  MaxStarts = 1
INVARIANTS
  TypeOK
  ReceiptAfterStop
  SlotOwned
  QuietAfterClose
PROPERTIES
  NoRepeat
CHECK_DEADLOCK FALSE
