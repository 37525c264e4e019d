SPECIFICATION FairSpec
CONSTANTS
  MaxScenes = 2
  MaxVisuals = 2
  MaxItems = 1
  Batch = 1
  MaxCommands = 2
  MaxQueue = 1
  MaxEdits = 1
  HasEnvironment = TRUE
INVARIANTS GroupHasOneUser
PROPERTIES CancelIsHonoured EverythingIsAnswered
CHECK_DEADLOCK FALSE
