SPECIFICATION Spec
CONSTANTS
  Clients = {p1, p2, p3}
  Conns = {c1, c2, c3}
  NoConn = NoConn
  Configs <- Reloads
  Bounded = {}
  Closable = TRUE
  MaxNow = 2
INVARIANTS TypeOK ActiveExact OneOwner NoLeak IdlesOrdered LentWithinLimit
PROPERTIES ClosedOnlyShrinks ReturnsWake CleanerGoneForGood ImplementsContract
SYMMETRY Symmetry
