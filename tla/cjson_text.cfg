SPECIFICATION Spec
CONSTANTS
  NULL = NULL
  Trees <- AllTrees
  Values <- AllValues
  Prebuffers <- Sizes
  Writings <- AllWritings
INVARIANTS ParseOwnsAll ParseFits PrintOwnsText PrintFits RoundTrip
CHECK_DEADLOCK FALSE
