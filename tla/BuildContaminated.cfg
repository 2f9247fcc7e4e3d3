SPECIFICATION Spec
CONSTANTS
  Files <- TwoFiles
  Keys <- MavenKeys
  Ends <- MavenEnds
  Fields <- MavenFields
  Values <- MavenValues
  Absent = Absent
  Emitted <- TwoPoms
  Workers = {w1, w2}
  NoObject = NoObject
  NoFile = NoFile
  MaxIndexes = 2
  MaxDeletes = 1
INVARIANTS
  NothingFromDeletedFiles
CHECK_DEADLOCK FALSE
