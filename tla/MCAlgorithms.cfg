SPECIFICATION Spec
CONSTANTS
  Radix = 4
  Width = 7
  Params <- MCParams
  MaxInput = 16382
  Byte = 8
  Digits = 5
  MaxCount = 3
  MaxTxids = 18
INVARIANTS
  WorkFollowsTarget
  RetargetMonotone
  SupplyIsSum
  ReadsBack
  CutIsRefused
  StaysInside
  RootBindsAll
  RequestComesBack
