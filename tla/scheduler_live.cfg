\* The public face: scopes, both modes, due times; safety and liveness.
SPECIFICATION FairSpec
CONSTANTS
  s1 = s1
  s2 = s2
  l1 = l1
  w1 = w1
  w2 = w2
  host = host
  user = user
  MaxTasks = 2
  Scopes = {s1}
  NoScope = NoScope
  Lanes = {}
  NoLane = NoLane
  Workers = {w1, w2}
  Callers = {host, user}
  Host = host
  Modes = {"thread_pool", "cooperative"}
  Capacity = 2
  BackgroundCap = 1
  StreakLimit = 1
  PrereqLimit = 1
  Priorities = {"normal"}
  DueTimes = {1}
  MaxClock = 1
INVARIANTS
  CancelReaches
  GoneIsQuiet
  NoLostWakeup
PROPERTIES
  KeepsContract
  EverythingEnds
