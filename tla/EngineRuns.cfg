SPECIFICATION Spec
CONSTANTS
  Clients = {c1, c2}
  Engines = {"pgvector", "duckdb", "hnswlib"}
  Modes = {"flat", "hnsw", "lsh"}
  NumQueries = 2
  K = 2
  Counts = {2, 3}
  MaxRuns = 3
INVARIANTS StoreHoldsOneRun AloneIsHonest LeftoversHarmless
PROPERTIES EveryRunEnds
