\* One child, one job.
SPECIFICATION Spec
CONSTANTS
  kMaxJobs = 1
  kMaxJobID = 100
  MaxForks = 1
  NULL = NULL
INVARIANT EvalReturns
