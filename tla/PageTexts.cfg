SPECIFICATION EventsSpec
CONSTANTS
  Kind <- MCKind
  Up <- MCUp
  Texts = {0, 1}
  MaxID = 14
  MaxQueue = 1
  Touched = {6, 9}
  Inputs = {9}
  File = {1}
  MaxPending = 1
  MaxHandle = 2
INVARIANT TextsAreClaimed
CHECK_DEADLOCK FALSE
