SPECIFICATION Spec
CONSTANTS
  a = a
  b = b
  Stranger = Stranger
  Endpoint = {a, b}
  Magic <- SameMagic
  NoMagic = "other"
  Remote <- AtoB
  DupLevel <- Twice
  MaxPackets <- OneEach
  MaxFaults <- OfEach
INVARIANTS TypeOK NoEcho PeerHasMagic
CHECK_DEADLOCK FALSE
