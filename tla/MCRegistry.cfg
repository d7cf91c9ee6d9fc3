SPECIFICATION RegistrySpec
CONSTANTS
  Node = {n1, n2}
  late = n1
  Addressed = {n1, n2}
  Skew <- MCSkew
  Sleep = 1
  DialTime = 1
  Stale = 3
  Limit = 1
  Absent = Absent
  Faults = {"connect", "command", "crash"}
  h1 = h1
  h2 = h2
  h3 = h3
  None = None
  Targets <- MCTargets
  MaxEvents = 3
CHECK_DEADLOCK FALSE
  
PROPERTIES  StableSetIsWritten
