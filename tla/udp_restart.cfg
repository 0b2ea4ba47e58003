SPECIFICATION Spec
CONSTANTS
  a = a
  b = b
  Junk = Junk
  Stranger = Stranger
  Endpoint = {a, b}
  NrSockets <- OneSocket
  DupLevel <- Twice
  Remote <- AtoB
  MaxSerial <- OneWay3
  InOrder = TRUE
  MaxFaults <- RestartFaults
INVARIANTS OneFalseDropPerStart
CHECK_DEADLOCK FALSE
