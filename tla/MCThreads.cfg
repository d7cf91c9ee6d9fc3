SPECIFICATION ThreadsSpec
CONSTANTS
  GenerateBlocks = 2
  DisableMining = FALSE
  WalletHasAddress = TRUE
  Worker = {w1, w2}
  MaxNonce = 4
  Winner = {3, 4}
  SavePeriod = 2
  MaxStarts = 2
  NoFile = NoFile
  Empty = Empty
CHECK_DEADLOCK FALSE
INVARIANT SkipsFew
PROPERTIES StopReturns 
