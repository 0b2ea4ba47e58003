SPECIFICATION Spec
CONSTANTS
  a = a
  b = b
  Junk = Junk
  Stranger = Stranger
  Endpoint = {a, b}
  NrSockets <- TwoSockets
  DupLevel <- Twice
  Remote <- AtoB
  MaxSerial <- MostlyBack
  InOrder = TRUE
  MaxFaults <- NoFault
INVARIANTS RedundantDropped
CHECK_DEADLOCK FALSE
