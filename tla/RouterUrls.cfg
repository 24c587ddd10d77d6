SPECIFICATION Spec
CONSTANTS
  Base <- MCBase
  Paths <- MCPaths
  Pairs <- MCPairs
  Searches <- MCSearches
  Escapes <- MCEscapes
  Cuts <- MCCuts
  Merged = "1?merged"
  Parameter <- MCParameter
  Routes <- MCRoutes
  Sides <- MCSides
  Nested <- MCNested
  Redirects <- MCRedirects
  Fallible <- MCFallible
  LazyRoutes <- MCLazy
  GuardedRoutes <- MCGuarded
  MaxEntries = 2
  MaxWaiting = 1
INVARIANTS UrlIsCurrent ParamsFitPath NotFoundFits ShowsThePath
