SPECIFICATION Spec
CONSTANTS
  Versions = {v1, v2}
  Settings = {s1, s2}
  None = None
  MaxJobs = 2
  Hasty = TRUE
INVARIANTS ExportedAsAsked OwedIsListed RestsOnlyWhenDone
PROPERTIES ReportIsWhole
CHECK_DEADLOCK FALSE
