SPECIFICATION FairSpec
CONSTANTS
  NumThreads = 4
  MaxJobs = 2
INVARIANTS NoUseAfterFree NoLostWakeup
PROPERTIES ContextStable ImplementsForkJoin SubmissionReturns ShutdownCompletes
