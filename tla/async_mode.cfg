\* A command is issued while an UNSUBSCRIBE is on its way.
SPECIFICATION Spec
CONSTANTS
  Limit <- SmallLimits
  MaxPrealloc = 4
  Fragments <- Cut
  MaxCommands = 0
  MaxReconnects = 0
  MaxAddrs = 1
  ConnectRetries = 2
  Fds = {1, 2}
  Options <- Plain
  Hash <- Collide
  InitialSize = 1
  Programs <- Leaving
  MaxPublished = 0
INVARIANT ModeAsserted
CHECK_DEADLOCK FALSE
