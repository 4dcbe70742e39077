SPECIFICATION FairSpec
CONSTANTS
  MaxSlots = 4
  Directions <- Send
  MaxCalls = 1
  Recalls = TRUE
  OtherPortsTransmit = TRUE
  RingCap = 1
  RxCap = 1
  RxLag = 1
  Marks = TRUE
  Nulls = {TRUE, FALSE}
  Zeros = {TRUE, FALSE}
INVARIANTS SlotInBounds SendInv
PROPERTIES BaudStable WireOrder FramesForever
