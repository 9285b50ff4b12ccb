SPECIFICATION GraphSpec
CONSTANTS
  MaxFunctions = 2
  NumberOfCaches = 1
  SizeOfCache = 4
  Contents <- MCContents
  TMins = {0,3,9}
  Steps = {3,5}
  Parameters = {0,3,12}
VIEW MCView
INVARIANTS
  CachedValuesAreTrue
  LookupsAreReady
CHECK_DEADLOCK FALSE
