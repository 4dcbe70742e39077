SPECIFICATION FairSpec
CONSTANTS
  a = a  b = b  NoTask = NoTask
  Writers <- TwoWriters
  MaxSize = 5
  Uses <- SoundUses
  FifoCap = 2
  Thresh = 1
CHECK_DEADLOCK FALSE
INVARIANTS TypeOK DoneMeansSent WaiterKnown
PROPERTIES MessageOrder WritesFinish
