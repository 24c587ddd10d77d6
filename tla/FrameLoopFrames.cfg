SPECIFICATION FairSpec
CONSTANTS
  Task = {t1}
  Read = {r}
  Effect = {e}
  Write = {w}
  ScopeCount = 2
  Parent <- Chain
  RenderMarks <- MarkAny
  MaxDirtyPasses = 2
  MaxQueue = 2
  MaxCallbacks = 2
INVARIANTS WorkHasFrame FrameIsPending EffectsAfterDOM PendingIsMounted ReadsOnTheWay
PROPERTIES InboxSpec DirtyRenders
