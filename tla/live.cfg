SPECIFICATION FairLiveSpec
CONSTANTS
  Versions = {v1, v2}
  Readable = {v1, v2}
  None = None
  Full = 2
  MaxGen = 1
  MaxOutbox = 0
  Hasty <- BackAndGrid
INVARIANTS InterruptedIsDiscarded SlideShowsOwn
PROPERTIES RequestTakenUp
CHECK_DEADLOCK FALSE
