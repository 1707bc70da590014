CONSTANTS
  Conns = {c1, c2, c3}
  Sessions = {s1, s2}
  Drops = {"exec"}
  NoConn = NoConn
  NoSession = NoSession
SPECIFICATION SFairSpec
INVARIANT SInv
INVARIANT ProcessesOwned
PROPERTY KeptUntilDeadline
PROPERTY DetachedEnds
CHECK_DEADLOCK FALSE
