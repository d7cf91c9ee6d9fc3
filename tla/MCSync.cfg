SPECIFICATION FairSpec
CONSTANTS
  Dialer = Dialer
  Listener = Listener
  Block <- MCBlocks
  InitialTips <- MCTips
  Elsewhere <- MCElsewhere
  MaxHeaders = 2
  MaxWanted = 1
  LocatorDense = 1
  LocatorMax = 3
  MaxBreaks = 2
  MaxScore = 20
CHECK_DEADLOCK FALSE
INVARIANT PeerNotPunished
PROPERTY Converges
