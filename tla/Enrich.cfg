SPECIFICATION FairSpec
CONSTANTS
  Paths <- TwoPaths
  Hashes = {h1, h2}
  NoHash = NoHash
  Trees <- TwoTrees
  None = None
  Copies = 3
  IndexMeanwhile = FALSE
  MaxChanges = 3
  MaxEnriches = 3
  MaxCrashes = 2
  MaxFaults = 1
INVARIANTS
  TypeOK
  ManifestBesideWholeGraph
  FullIsCurrent
  RerunSucceeds
PROPERTIES
  EnrichEnds
CHECK_DEADLOCK FALSE
