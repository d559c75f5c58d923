SPECIFICATION Spec
CONSTANTS
  Users = {u1, u2}
  Addrs = {a1, a2, a3}
  Sets = {s1, s2, s3}
  NoSet = NoSet
  NoAddr = NoAddr
  MaxRuns = 3
SYMMETRY Interchangeable
CONSTRAINT Contained
INVARIANTS ReplyProtected
CHECK_DEADLOCK FALSE
