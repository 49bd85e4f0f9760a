SPECIFICATION Spec
CONSTANTS
  Clients = {p1, p2, p3}
  Conns = {c1, c2, c3, c4}
  NoConn = NoConn
  Configs <- Various
  Bounded = {p1, p2, p3}
  Closable = TRUE
  Reloadable = TRUE
  MaxNow = 2

INVARIANTS TypeOK ActiveExact OneHome NoneWaitsByIdle WaitersMeanFull OpenerChBounded
PROPERTIES ClosedOnlyShrinks
SYMMETRY Symmetry
CHECK_DEADLOCK FALSE
