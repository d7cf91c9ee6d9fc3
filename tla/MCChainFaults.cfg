SPECIFICATION Spec
CONSTANTS
  g = g  a1 = a1  a2 = a2  a3 = a3  b1 = b1  b2 = b2  c1 = c1  d2 = d2  e2 = e2
  x2 = x2  zero = zero
  Radix = 4
  Width = 4
  Params <- MCParams
  Block <- MCBlock
  Genesis = g
  NoBlock = zero
  Header <- MCHeader
  Vtx <- MCVtx
  TxData <- MCTxData
  Faults = {"write_lost", "torn_index", "torn_empty"}
INVARIANTS  ViewIsReplay SupplyBound
