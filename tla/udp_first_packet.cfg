SPECIFICATION Spec
CONSTANTS
  a = a
  b = b
  Junk = Junk
  Stranger = Stranger
  Endpoint = {a, b}
  NrSockets <- OneSocket
  DupLevel <- Twice
  Remote <- AtoB
  MaxSerial <- OneWay3
  InOrder = TRUE
  MaxFaults <- NoFault
INVARIANTS OnlyRedundantDropped
CHECK_DEADLOCK FALSE
