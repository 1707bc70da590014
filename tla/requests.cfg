CONSTANTS
  Requests = {r1, r2, r3}
  Conns = {c1, c2}
  GlobalScopes = {g1}
  LocalScopes = {}
  NoKey = NoKey
SPECIFICATION RFairSpec
INVARIANT RInv
INVARIANT SameKeyExclusion
PROPERTY ImplementsKeyedAccess
PROPERTY RequestsResolve
PROPERTY LoopReturns
CHECK_DEADLOCK FALSE
