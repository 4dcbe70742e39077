SPECIFICATION FairSpec
CONSTANTS
  CONNECT_TIMEOUT = 50
  WDMX_MAX_MODES = 9
INVARIANTS TypeOK NotLeftPressed ColorsAgree
PROPERTIES SuccessMeansPowered ConnectEnds WhiteEnds
