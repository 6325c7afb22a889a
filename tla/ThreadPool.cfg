\* Three functions on two workers: one waits for a worker, and one may come
\* after wait() has closed the pool.
SPECIFICATION FairSpec
CONSTANTS
  Tasks = {f1, f2, f3}
  quantThreadsMax = 2
  NULL = NULL
INVARIANTS
  HandoffSafe
  NoLostWakeup
  NothingLost
PROPERTIES
  ImplementsTaskPool
  PushedIsExecuted
  WaitReturns
