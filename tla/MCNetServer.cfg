SPECIFICATION FairSpec
CONSTANTS
  Conn = {1, 2, 3}
  NoConn = 0
  Fd = {1, 2, 3}
  Closed = 0
  Target = {t1}
  Inbound = Inbound
  MaxPeers = 2
  IdleLimit = 0
  MayStop = TRUE
ACTION_CONSTRAINT FirstFree
INVARIANT EachDescriptorOwned
PROPERTY KeepsReconnecting
