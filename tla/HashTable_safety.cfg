\* Two neighbours are there; the new keys go behind the second of them, and two
\* keys have one hash.  The first stores find the table small enough, later ones
\* double it, once or twice: the sentinel of bucket 6 has that of bucket 2 for a
\* parent.
SPECIFICATION Spec
CONSTANTS
  Threads = {t1, t2}
  Keys = {10, 20, 21, 30}
  Hash <- HashOf
  Width = 3
  Preloaded = {10, 20}
  Ops = {"store", "find", "del"}
  NoKey = NoKey
  MaxBitlen = 3
  MaxNodes = 10
  MaxCalls = 4
SYMMETRY Callers
INVARIANTS TypeOK SplitOrder UniqueKeys ArraysPublished AssertionsHold KeysKept
PROPERTIES FindIsRight
CHECK_DEADLOCK FALSE
