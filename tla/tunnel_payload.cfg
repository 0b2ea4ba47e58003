SPECIFICATION Spec
CONSTANTS
  Key = {k1, k2}
  Confs <- UdpOnly
  MaxCount = 2
INVARIANTS PayloadIntact
CHECK_DEADLOCK FALSE
