SPECIFICATION FairSpec
CONSTANTS
  Clients = {p1, p2}
  Conns = {c1, c2}
  NoConn = NoConn
  Configs <- Expiring
  Bounded = {p1}
  Closable = TRUE
  MaxNow = 2
PROPERTIES BoundedGetReturns CloseDrains StaleGoes
