SPECIFICATION Spec
CONSTANTS
  Callers = {p1, p2}
  Keys = {k1, k2}
  NoCaller = NoCaller
  NoVer = NoVer
  NoEntry = NoEntry
  Kinds <- LocalOnly
  Modes <- NeverOnly
  Reuse = TRUE
  MaxVer = 1
  MaxTokens = 0
INVARIANTS OwnRow
SYMMETRY Symmetry
