SPECIFICATION Spec
CONSTANTS
  Paths <- TwoPaths
  Hashes = {h1, h2}
  NoHash = NoHash
  Trees <- OneTree
  None = None
  Copies = 3
  IndexMeanwhile = FALSE
  MaxChanges = 4
  MaxEnriches = 4
  MaxCrashes = 1
  MaxFaults = 0
INVARIANTS
  ShortCircuitIsFresh
CHECK_DEADLOCK FALSE
