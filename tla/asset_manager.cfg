SPECIFICATION FairSpec
CONSTANTS
  k1 = k1
  k2 = k2
  NoKey = NoKey
  Keys <- TwoKeys
  MaxIssued = 2
  MaxHolders = 1
  Slots = 1
INVARIANTS TableServes OldStays
PROPERTIES NewestStays EveryLoadEnds
CHECK_DEADLOCK FALSE
