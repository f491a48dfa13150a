SPECIFICATION BenchmarkSpec
CONSTANTS
  Configs <- AllConfigs
  Truth <- FiveRows
  GtWidth = 3
  NumNeighbours = 2
  PageSize = 2
  PagesPerFile = 1
  MaxRuns = 3
  MaxKills = 2
INVARIANTS HonestMetrics ExactMeansFullRecall
PROPERTIES ReuseKeepsIndex
CHECK_DEADLOCK FALSE
