SPECIFICATION Spec
CONSTANTS
  Users = {u1, u2}
  Addrs = {a1, a2, a3, a4}
  Sets = {s1, s2, s3}
  NoSet = NoSet
  NoAddr = NoAddr
  MaxRuns = 4
SYMMETRY Interchangeable
CONSTRAINT Contained
INVARIANTS TypeOK PendingProtected  WalkerOnLiveNode ScannedIsAllocated NoStaleSet
CHECK_DEADLOCK FALSE
