\* Two workers, two slots, commands 0..3 usable: every slot is used twice and
\* the indices that are negative as an int are reached.
SPECIFICATION FairSpec
CONSTANTS
  Threads = {w1, w2}
  Length = 2
  ElementLength = 2
  IntLimit = 4
INVARIANTS TypeOK RepliesInOrder OneSender CommitOwnsSlot TailBound
PROPERTIES EveryReplySent ImplementsReplyOrder
\* the connection may end (ParseStop)
CHECK_DEADLOCK FALSE
