SPECIFICATION FairSpec
CONSTANTS
  MaxSlots = 3
  Directions <- Both
  MaxCalls = 3
  Recalls = FALSE
  OtherPortsTransmit = FALSE
  RingCap = 1
  RxCap = 1
  RxLag = 1
  Marks = FALSE
  Nulls = {TRUE}
  Zeros = {FALSE}
INVARIANTS TypeOK
PROPERTIES WireOrder FramesForever
CHECK_DEADLOCK FALSE
