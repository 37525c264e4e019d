\* One scope: lanes, prerequisites, priorities, cancellation, poll, close and stop.
SPECIFICATION Spec
CONSTANTS
  s1 = s1
  s2 = s2
  l1 = l1
  w1 = w1
  w2 = w2
  host = host
  user = user
  MaxTasks = 3
  Scopes = {s1}
  NoScope = NoScope
  Lanes = {l1}
  NoLane = NoLane
  Workers = {w1, w2}
  Callers = {host}
  Host = host
  Modes = {"thread_pool"}
  Capacity = 2
  BackgroundCap = 1
  StreakLimit = 1
  PrereqLimit = 1
  Priorities = {"normal", "background"}
  DueTimes = {0}
  MaxClock = 0
SYMMETRY Symmetry
CONSTRAINT SmallOrder
INVARIANTS
  ExecutionOrder
  BackgroundServed
