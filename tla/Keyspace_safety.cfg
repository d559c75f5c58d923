SPECIFICATION FairSpec
CONSTANTS
  Threads = {t1, t2}
  Keys = {k1}
  Ops = {"set", "setargs", "get", "hset", "hget", "del"}
  MaxCalls = 4
INVARIANTS TypeOK OneCreator TypeSafe NoTornValue NoStaleRead FoundWhenPresent
PROPERTIES EveryCallReturns
CHECK_DEADLOCK FALSE
