SPECIFICATION FairSpec
CONSTANTS
  Calls <- BothVersions
  NumThreads = 2
  MaxInPage = 3
  PagesPerFile = 1
  Infinity = 1000
INVARIANTS NothingLost RadiusCovers StoredOnceUnlessGrown PagesSuffice
PROPERTIES PrefillEnds
CHECK_DEADLOCK FALSE
