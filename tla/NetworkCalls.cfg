SPECIFICATION NetworkSpec
CONSTANTS
  MaxAttempts = 2
  MaxPosted = 2
  Reconnects = TRUE
  MaxDrops = 1
INVARIANT NothingStaysConnected
PROPERTIES EventsSpec Reconnected StreamEventsSpec FailureIsTold
CHECK_DEADLOCK FALSE
