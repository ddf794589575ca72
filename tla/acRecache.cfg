SPECIFICATION Spec
CONSTANTS
  Versions = {v1, v2}
  Finders = {f1, f2}
  None = None
  Poor = {}
  Batch = 1
  MaxLoaded = 1
  Ops <- RecacheOps
  MaxGen = 1
  MaxEvents = 2
SYMMETRY Symmetry
INVARIANTS SingleFlight FreshOrPending
CHECK_DEADLOCK FALSE
