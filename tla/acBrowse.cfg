SPECIFICATION FairSpec
CONSTANTS
  Versions = {v1, v2}
  Finders = {f1, f2}
  None = None
  Poor = {v2}
  Batch = 1
  MaxLoaded = 1
  Ops <- BrowseOps
  MaxGen = 0
  MaxEvents = 2
PROPERTIES RequestAnswered QueueDrains
CHECK_DEADLOCK FALSE
