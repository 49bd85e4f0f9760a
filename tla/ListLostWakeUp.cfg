SPECIFICATION FairSpec
CONSTANTS
  Clients = {p1, p2}
  Conns = {c1, c2}
  NoConn = NoConn
  Configs <- OneSlotWaits
  Bounded = {}
  Closable = FALSE
  MaxNow = 0
PROPERTIES WaiterServed
