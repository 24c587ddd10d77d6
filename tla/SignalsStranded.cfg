SPECIFICATION Spec
CONSTANTS
  Signal = {a, b}
  Listener = {x, y}
  Value = {0, 1}
  MaxNotifyPasses = 2
  MaxStack = 2
SYMMETRY Symmetry
INVARIANT BatchDelivers
