SPECIFICATION Spec
CONSTANTS
  Vectors = {1, 2, 5, 7, 10}
  Ghost = 0
  PagesPerFile = 2
  Capacity = 3
  MaxNumVectors = {3}
  MaxFiles = 3
  MaxCloses = 0
  MaxCrashes = 0
  QueryFirst = FALSE
PROPERTIES Case1OnlyWhenEmpty
CHECK_DEADLOCK FALSE
