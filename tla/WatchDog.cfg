SPECIFICATION FairSpec
CONSTANTS
  Dogs = {d1, d2}
  Keys = {k1}
  Nobody = Nobody
  NoKey = NoKey
  Durs <- Leases
  Fragile = {d1}
  Late = 1
  MaxWatchers = 1
  MaxDur = 7
  MaxSince = 2
INVARIANT TypeOK
PROPERTIES KeptWhileRenewed StrayEnds LeftLocksExpire
