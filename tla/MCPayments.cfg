SPECIFICATION PaymentsSpec
CONSTANTS
  Address = {1, 2, 3}
  Password = {p, q}
  None = None
  Corrupt = Corrupt
  MaxSalt = 3
  VersionByte = 30
  DefaultVersion = 30
  Faults = {"torn_file"}
  Amount = {1, 2, 6}
  Subsidy = 4
  Maturity = 2
  Fee = 1
  Dust = 2
  MinRelayFee = 1
  MaxHeight = 4
  MaxKey = 2
  MaxStarts = 1
  MaxReorgs = 1
  Keys <- MCKeys
  ScriptSigs <- MCScriptSigs
  ScriptPubKeys <- MCScriptPubKeys
  MaxScriptSize = 15
  MaxElementSize = 2
  MaxOps = 5
CHECK_DEADLOCK FALSE
INVARIANTS
  EveryKeyOpens
  BackupRestores
  FundsSuffice
  PaymentsCompatible
  
  OnlyTheOwner
