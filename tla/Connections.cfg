SPECIFICATION FairSpec
CONSTANTS
  c1 = c1
  c2 = c2
  Conns = {c1, c2}
  Fds = {1, 2}
  Workers = {w1, w2}
  Window = 2
  PipeSize = 1
  MaxCommands <- Limits
  None = None
INVARIANTS TypeOK OneReceiver EveryCommandHeld RepliesReachClient
PROPERTIES ImplementsReplyOrder EveryCommandAnswered
CHECK_DEADLOCK FALSE
