SPECIFICATION Spec
CONSTANTS
  MaxSessions = 1
  MaxCommands = 2
  MaxUnread = 1
  MaxPoll = 8
  SocketRoom = 1
  Timeouts = FALSE
INVARIANT TerminalStateStands
CHECK_DEADLOCK FALSE
