SPECIFICATION FairFinderSpec
CONSTANTS
  a = a
  b = b
  c = c
  v1 = v1
  v2 = v2
  v3 = v3
  file = file
  raw = raw
  Readers = {file, raw}
  Raw = {raw}
  Files = {a, b, c}
  Sizes = {s1}
  Versions = {v1, v2, v3}
  FileOf <- ThreeVersions
  ReaderOf <- ByType
  None = None
  Chunks = 1
  MaxInbox = 1
  Hasty <- Unhurried
INVARIANTS ReadyIsGenuine ProvidedIsOwn
PROPERTIES CanceledIsNotAnnounced EachRequestAnswered StopsWhenTold
CHECK_DEADLOCK FALSE
