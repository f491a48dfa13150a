SPECIFICATION IngestSpec
CONSTANTS
  NBase = 7
  BatchSize = 3
  NumThreads = 2
INVARIANTS OwnVector
PROPERTIES ImplementsIngest IngestEnds
