SPECIFICATION FairSpec
CONSTANTS
  p1 = p1  p2 = p2  l1 = l1  l2 = l2
  Peers <- TwoPeers
  Packets <- Traffic
  OwnUniverse = 1
  Loops <- TwoLoops
  MaxStarts = 2
  MaxCalls = 4
INVARIANTS TypeOK Listening NoLeak QuietInReceive
PROPERTIES ReplyToAsker ChangeReturns Transmits
CHECK_DEADLOCK FALSE
