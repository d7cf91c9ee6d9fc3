SPECIFICATION Spec
CONSTANTS
  Address = {1, 2, 3}
  Password = {p, q}
  None = None
  Corrupt = Corrupt
  MaxSalt = 4
  VersionByte = 30
  DefaultVersion = 30
  Faults = {}
INVARIANT KeysSurviveStop
