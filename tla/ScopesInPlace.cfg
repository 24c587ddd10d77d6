SPECIFICATION Spec
CONSTANTS
  Kind <- MCKind
  Up <- MCUp
INVARIANT RestStaysInPlace
CHECK_DEADLOCK FALSE
