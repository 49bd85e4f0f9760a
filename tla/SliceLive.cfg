SPECIFICATION FairMapSpec
CONSTANTS
  Clients = {p1, p2, p3}
  Conns = {c1, c2, c3}
  NoConn = NoConn
  Configs <- Answered
  Bounded = {}
  Closable = TRUE
  Reloadable = FALSE
  MaxNow = 2
PROPERTIES GetReturns ImplementsContract
CHECK_DEADLOCK FALSE
