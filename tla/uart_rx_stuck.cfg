SPECIFICATION FairSpec
CONSTANTS
  r1 = r1  r2 = r2  f1 = f1  NoTask = NoTask
  Readers <- OneReader
  Flushers <- OneReader
  FifoCap = 2
  RingCap = 2
  MaxRead = 1
  Marks = 1
PROPERTY Receiving
