SPECIFICATION NodeSpec
CONSTANTS
  zero = zero
  Radix = 4
  Width = 4
  Params <- MCParams
  Block <- MCBlock
  Genesis <- MCGenesis
  NoBlock = zero
  Header <- MCHeader
  Vtx <- MCVtx
  TxData <- MCTxData
  Faults = {}
  MinerKey = "m"
  MaxCandidateTxs = 2
INVARIANTS
  PoolIsMineable
  ConfirmedLeavePool
  MinedBlockAccepted
