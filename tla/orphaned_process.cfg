CONSTANTS
  Conns = {c1, c2}
  Sessions = {s1}
  Drops = {"exec", "attach_shutdown"}
  NoConn = NoConn
  NoSession = NoSession
SPECIFICATION SSpec
INVARIANT ProcessesOwned
CHECK_DEADLOCK FALSE
