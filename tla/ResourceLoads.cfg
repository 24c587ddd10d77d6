SPECIFICATION FairSpec
CONSTANT MaxLoads = 4
INVARIANTS SupersededIsCancelled LoadingIsFetching
PROPERTIES LatestSpec LoadingEnds
CHECK_DEADLOCK FALSE
