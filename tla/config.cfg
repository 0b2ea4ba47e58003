SPECIFICATION Spec
CONSTANTS
  NULL = NULL
  DEFLT = DEFLT
  File <- Names
  Content <- Contents
  Argv <- Names
  StackDepth = 11
  Paths <- AllPaths
  Segments <- AllSegments
INVARIANTS IncludesExpanded PathFinds LookupSafe
PROPERTIES LoadReturns
CHECK_DEADLOCK FALSE
