SPECIFICATION FairSpec
CONSTANTS
  ThreadCounts = {2, 3}
  K = 2
  Step = 1
  Probes = {0, 2}
  Pages <- FivePages
  Queries = {2, 9}
  MaxTasks = 4
  Infinity = 2000
INVARIANTS ExactUnlessPremature BoundIsReached BufferIsFresh NoVectorTwice PruningIsCounted
PROPERTIES BoundOnlyFalls EveryQueryAnswered
CHECK_DEADLOCK FALSE
