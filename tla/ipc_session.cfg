SPECIFICATION FairSpec
CONSTANTS
  MaxSessions = 2
  MaxCommands = 2
  MaxUnread = 1
  MaxPoll = 2
  SocketRoom = 1
  Timeouts = TRUE
INVARIANTS ControlAgrees ShutdownTruthful
PROPERTIES FailureEnds NoOrphan
CHECK_DEADLOCK FALSE
