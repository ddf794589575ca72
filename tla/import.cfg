SPECIFICATION FairSpec
CONSTANTS
  f1 = f1 f2 = f2 f3 = f3
  d0 = d0 d1 = d1
  Sources = {f1, f2, f3}
  Movies = {f3}
  Dirs = {d0, d1}
  Urls <- ImageAndFolder
  Target <- ThreeTargets
  Images <- ImagesListed
  MoviesIn <- MoviesListed
  Subfolders <- Nested
  Old = Old
  None = None
  Incorporates = TRUE
INVARIANTS DisposedIsCopied CopiedIsScanned EveryFileIsTried
PROPERTIES AuthorizedEnds
CHECK_DEADLOCK FALSE
