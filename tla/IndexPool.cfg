SPECIFICATION FairSpec
CONSTANTS
  Paths <- TwoPaths
  Hashes <- OwnHashes
  NodeHashes <- OwnNodeHashes
  EdgeHashes <- OwnEdgeHashes
  Writable <- OwnVersions
  Tracked = {}
  Workers = {w1, w2}
  NoWorker = NoWorker
  NoHash = NoHash
  NoPath = NoPath
  MaxEdits = 2
  MaxRuns = 3
  MaxCrashes = 0
  MaxStalls = 1
INVARIANTS
  TypeOK
  CacheConsistent
  TwoEntriesOnlyAfterFailedPurge
  HitReplaysDetectors
  EveryFileCached
PROPERTIES
  RunEnds
CHECK_DEADLOCK FALSE
