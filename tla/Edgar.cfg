CONSTANTS
  Threads = {t1, t2, t3}
  Capacity = 2
  Grain = 2
  MaxRetries = 1
  Backoff <- Short_backoff
  Window = 4
  Calls = 1
SPECIFICATION FairSpec
INVARIANTS WithinBudget WaitIsEnough
PROPERTY Returns
