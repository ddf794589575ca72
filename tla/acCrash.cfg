SPECIFICATION Spec
CONSTANTS
  Versions = {v1, v2}
  Finders = {f1, f2}
  None = None
  Poor = {v1}
  Batch = 1
  MaxLoaded = 1
  Ops <- CrashOps
  MaxGen = 1
  MaxEvents = 1
SYMMETRY FinderSymmetry
INVARIANTS OutdatedIffQueued
PROPERTY ImplementsLedger
CHECK_DEADLOCK FALSE
