\* Three keys are there, the next store doubles the table and creates the
\* sentinel of bucket 2 (hash 2); only stores are made.
SPECIFICATION Spec
CONSTANTS
  Threads = {t1, t2}
  Keys = {10, 20, 30, 40, 50, 60}
  Hash <- HashOf
  Width = 3
  Preloaded = {40, 50, 60}
  Ops = {"store"}
  NoKey = NoKey
  MaxBitlen = 3
  MaxNodes = 12
  MaxCalls = 3
SYMMETRY Callers
INVARIANTS StoredReachable
CHECK_DEADLOCK FALSE
