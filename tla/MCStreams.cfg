SPECIFICATION StreamsSpec
CONSTANTS
  HeaderLen = 2
  PayloadLen <- FourFrames
  MayCut = TRUE
  Probe <- ProbeBytes
  Client = {c1, c2, c3}
  Nobody = Nobody
  Authorized = {c1, c3}
  Silent = {c3}
  HasUser = TRUE
  InPieces = {c3}
  Room = 4
CHECK_DEADLOCK FALSE
INVARIANTS HandledWasSent RequestAnswered
PROPERTIES AllHandled 
