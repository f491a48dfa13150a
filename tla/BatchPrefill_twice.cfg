SPECIFICATION Spec
CONSTANTS
  Calls <- ParallelOnly
  NumThreads = 2
  MaxInPage = 3
  PagesPerFile = 1
  Infinity = 1000
INVARIANTS StoredOnce
CHECK_DEADLOCK FALSE
