SPECIFICATION Spec
CONSTANTS
  Clients = {p1, p2, p3}
  Conns = {c1, c2, c3}
  NoConn = NoConn
  Configs <- OneSlotWaits
  Bounded = {}
  Closable = FALSE
  Reloadable = FALSE
  MaxNow = 2
INVARIANTS WithinActive
CHECK_DEADLOCK FALSE
