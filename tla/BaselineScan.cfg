SPECIFICATION Spec
CONSTANTS
  NBase = 4
  NQuery = 4
  K = 2
  DistanceRows <- FourRows
INVARIANTS RowIsNearest MissIsATie SummaryIsPercentile
