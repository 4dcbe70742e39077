SPECIFICATION Spec
CONSTANTS
  MaxSlots = 3
  Directions <- Both
  MaxCalls = 3
  Recalls = FALSE
  OtherPortsTransmit = FALSE
  RingCap = 1
  RxCap = 1
  RxLag = 1
  Marks = TRUE
  Nulls = {TRUE, FALSE}
  Zeros = {TRUE, FALSE}
INVARIANT SlotInBounds
CHECK_DEADLOCK FALSE
