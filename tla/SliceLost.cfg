SPECIFICATION Spec
CONSTANTS
  Clients = {p1, p2}
  Conns = {c1, c2}
  NoConn = NoConn
  Configs <- OneSlotTimed
  Bounded = {}
  Closable = FALSE
  Reloadable = FALSE
  MaxNow = 1
INVARIANTS NoItemLost
CHECK_DEADLOCK FALSE
