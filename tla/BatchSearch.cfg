SPECIFICATION Spec
CONSTANTS
  NumThreads = 2
  K = 3
  Step = 2
  Probes = {0, 2}
  Pages <- FourPages
  Queries = {2, 13}
  BatchSizes = {1, 3}
  MaxBatches = 2
INVARIANTS RowsExact
PROPERTIES RowWrittenOnce
CHECK_DEADLOCK FALSE
