SPECIFICATION Spec
CONSTANTS
  Kind <- MCKind
  Up <- MCUp
INVARIANTS NothingLeaks PageIsAlive ContentIsLatest
CHECK_DEADLOCK FALSE
