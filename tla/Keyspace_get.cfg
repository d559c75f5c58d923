SPECIFICATION Spec
CONSTANTS
  Threads = {t1, t2}
  Keys = {k1}
  Ops = {"set", "get"}
  MaxCalls = 2
INVARIANTS GetFindsValue
CHECK_DEADLOCK FALSE
