SPECIFICATION Spec
CONSTANTS
  a = a  b = b  NoTask = NoTask
  Writers <- TwoWriters
  MaxSize = 5
  Uses <- BreakUses
  FifoCap = 2
  Thresh = 1
CHECK_DEADLOCK FALSE
INVARIANT HandlerReturns
