SPECIFICATION Spec
CONSTANTS
  Item = {n1, n2, n3, n4, n5, n6}
  NULL = NULL
  Key = {k1}
  Bounds <- Callers
SYMMETRY Cells
INVARIANTS TypeOK WellLinked NothingShared OwnedOnce ConstIsFlagged
PROPERTIES ImplementsItemTree
