SPECIFICATION Spec
CONSTANTS
  Callers = {p1, p2}
  Keys = {k1, k2}
  NoCaller = NoCaller
  NoVer = NoVer
  NoEntry = NoEntry
  Kinds <- BothKinds
  Modes <- AllModes
  Reuse = FALSE
  MaxVer = 2
  MaxTokens = 1
INVARIANTS TypeOK NeverOlder TokensAccounted
SYMMETRY Symmetry
CHECK_DEADLOCK FALSE
