SPECIFICATION Spec
CONSTANTS
  Paths <- TwoPaths
  Hashes <- SharedHashes
  NodeHashes <- SharedHashes
  EdgeHashes <- SharedHashes
  Writable <- SharedVersions
  Tracked = {}
  Workers = {w1}
  NoWorker = NoWorker
  NoHash = NoHash
  NoPath = NoPath
  MaxEdits = 2
  MaxRuns = 2
  MaxCrashes = 0
  MaxStalls = 0
INVARIANTS
  IncrementalEqualsFull
CHECK_DEADLOCK FALSE
