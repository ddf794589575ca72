SPECIFICATION FairSpec
CONSTANTS
  None = None
  root = root
  sub = sub
  leaf = leaf
  Paths <- MCPaths
  Parent <- MCParent
  Limit = 1
  MaxClock = 2
  MaxAsks = 2
  MaxStarts = 2
  Hasty = {}
INVARIANTS
  OneTree
  CaughtUp
PROPERTY QueuedIsScanned
CHECK_DEADLOCK FALSE
