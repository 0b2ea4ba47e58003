SPECIFICATION Spec
CONSTANTS
  a = a
  b = b
  Junk = Junk
  Stranger = Stranger
  Endpoint = {a, b}
  NrSockets <- TwoSockets
  DupLevel <- Once
  Remote <- AtoB
  MaxSerial <- MostlyForth
  InOrder = FALSE
  MaxFaults <- NetworkFaults
INVARIANTS TypeOK RecvNeverBlocks NoAdjacentDuplicate LostOnlyToNamesake PublishedIsWritten JunkHeals
CHECK_DEADLOCK FALSE
