SPECIFICATION FairSpec
CONSTANTS
  Vectors = {1, 2, 4, 7, 10, 16}
  Ghost = 0
  PagesPerFile = 2
  Capacity = 3
  MaxNumVectors = {2, 3}
  MaxFiles = 3
  MaxCloses = 1
  MaxCrashes = 1
  QueryFirst = TRUE
INVARIANTS TypeOK RadiusExact NoVectorLost CachesFresh SearchMissesOnlyExposed
PROPERTIES EvictionTightens InsertTerminates
CHECK_DEADLOCK FALSE
