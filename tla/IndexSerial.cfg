SPECIFICATION FairSpec
CONSTANTS
  Paths <- TwoPaths
  Hashes <- OwnHashes
  NodeHashes <- OwnNodeHashes
  EdgeHashes <- OwnEdgeHashes
  Writable <- OwnVersions
  Tracked = {}
  Workers = {w1}
  NoWorker = NoWorker
  NoHash = NoHash
  NoPath = NoPath
  MaxEdits = 2
  MaxRuns = 3
  MaxCrashes = 1
  MaxStalls = 0
INVARIANTS
  PathHasOneEntry
  SettledPathsMatchDisk
  DeltaPredictsWork
PROPERTIES
  MemoSpec
CHECK_DEADLOCK FALSE
