CONSTANTS
  LastLine = 2
  Stream = {1}
  LogFaults = FALSE
SPECIFICATION LSpec
INVARIANT SubscribersAreQuit
CHECK_DEADLOCK FALSE
