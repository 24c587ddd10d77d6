SPECIFICATION DerivedSpec
CONSTANTS
  src = src
  low = low
  same = same
  Signal = {src, low, same}
  Derived = {low, same}
  Deps <- Triangle
  Compute <- Gate
  Listener = {x, y}
  Value = {0, 1}
  MaxNotifyPasses = 2
  MaxStack = 1
  MaxEntries = 3
VIEW Mattering
SYMMETRY Symmetry
INVARIANTS GetIsCurrent ObservedIsSubscribed ObserversAreTold
PROPERTY OncePerUpdate
