SPECIFICATION FairSpec
CONSTANTS
  NoLimit = NoLimit
  Null = Null
  Callers = {p1, p2}
  Conns = {c1}
  NoConn = NoConn
  Names = {"plain", "window", "odd"}
  Given <- GivenMaps
  Rows <- InsertedRows
  Bounded = {p1}
  MaxFound = 2
INVARIANTS TypeOK HoldsOnlyItsOwn WholeUnlessBroken StoredAsGiven
PROPERTIES CallsReturn
