SPECIFICATION Spec
CONSTANTS
  r1 = r1  r2 = r2  f1 = f1  NoTask = NoTask
  Readers <- OneReader
  Flushers <- OneFlusher
  FifoCap = 2
  RingCap = 3
  MaxRead = 2
  Marks = 2
INVARIANT Accounting
PROPERTY ByteOrder
