SPECIFICATION FairSpec
CONSTANTS
  t1 = t1
  m1 = m1
  NoUri = NoUri
  Textures <- OneTexture
  Materials <- OneMaterial
  Needs <- MaterialNeeds
  MaxMade = 3
  MaxAsked = 2
  MaxHolders = 1
  Slots = 1
  MaxGeneration = 2
INVARIANTS HandlesAreHonest ReadyIsComplete
PROPERTIES NewestContent EveryRequestEnds
CHECK_DEADLOCK FALSE
