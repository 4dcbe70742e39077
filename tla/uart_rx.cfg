SPECIFICATION FairSpec
CONSTANTS
  r1 = r1  r2 = r2  f1 = f1  NoTask = NoTask
  Readers <- TwoReaders
  Flushers <- NoFlusher
  FifoCap = 1
  RingCap = 2
  MaxRead = 2
  Marks = 2
INVARIANTS TypeOK Accounting StashIsSeen
PROPERTIES ByteOrder Receiving
