SPECIFICATION FairSpec
CONSTANTS
  Uris = {"a", "b"}
  Startup = "a"
  Untitled = "none"
  Instances = {1, 2}
  Capacity = 2
  MaxInputs = 5
INVARIANTS DirtyIsHonest NothingLost
PROPERTIES RunsWhatIsShown ClosingEnds
CHECK_DEADLOCK FALSE
