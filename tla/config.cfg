SPECIFICATION FairSpec
CONSTANTS
  Clients <- OneClient
  Entries <- ShortEntries
  Reasons <- AnyReason
  MaxCuts = 2
INVARIANTS TypeOK PairedCredentials Remembered
PROPERTY Settles
CHECK_DEADLOCK FALSE
