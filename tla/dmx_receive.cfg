SPECIFICATION Spec
CONSTANTS
  MaxSlots = 3
  Directions <- ReceiveOnly
  MaxCalls = 3
  Recalls = TRUE
  OtherPortsTransmit = FALSE
  RingCap = 1
  RxCap = 2
  RxLag = 1
  Marks = TRUE
  Nulls = {TRUE, FALSE}
  Zeros = {TRUE, FALSE}
INVARIANTS SlotInBounds RxAligned RxCurrent
