SPECIFICATION FairSpec
CONSTANTS
  a = a
  b = b
  Junk = Junk
  Stranger = Stranger
  Endpoint = {a, b}
  NrSockets <- TwoSockets
  DupLevel <- ThreeTimes
  Remote <- AtoB
  MaxSerial <- OneWay3
  InOrder = TRUE
  MaxFaults <- LocalFaults
INVARIANTS InOrderOnce BufferIsLastAccepted
PROPERTIES ImplementsOrderedDelivery EveryPacketArrives
CHECK_DEADLOCK FALSE
