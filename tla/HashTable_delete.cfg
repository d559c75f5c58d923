\* Three neighbours in one bucket; only deletions are made.
SPECIFICATION Spec
CONSTANTS
  Threads = {t1, t2}
  Keys = {40, 50, 60}
  Hash <- HashOf
  Width = 3
  Preloaded = {40, 50, 60}
  Ops = {"del"}
  NoKey = NoKey
  MaxBitlen = 2
  MaxNodes = 6
  MaxCalls = 2
SYMMETRY Callers
INVARIANTS CollectedUnreachable
CHECK_DEADLOCK FALSE
