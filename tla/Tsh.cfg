\* Two jobs at a time out of three children; every signal is delivered.
SPECIFICATION FairSpec
CONSTANTS
  kMaxJobs = 2
  kMaxJobID = 100
  MaxForks = 3
  NULL = NULL
INVARIANTS
  ChildrenTabled
  JobIDsFresh
  ForegroundIsWaitedFor
  PromptHasTerminal
PROPERTIES
  ForegroundEnds
