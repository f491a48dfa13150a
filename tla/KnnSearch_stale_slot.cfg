SPECIFICATION Spec
CONSTANTS
  ThreadCounts = {2}
  K = 2
  Step = 1
  Probes = {0}
  Pages <- PrefilledPages
  Queries = {10}
  MaxTasks = 2
  Infinity = 2000
INVARIANTS ExactAnswer
CHECK_DEADLOCK FALSE
