SPECIFICATION Spec
CONSTANTS
  Files <- ThreeFiles
  Keys <- MavenKeys
  Ends <- MavenEnds
  Fields <- MavenFields
  Values <- MavenValues
  Absent = Absent
  Emitted <- ThreeEmitters
  Workers = {w1, w2, w3}
  NoObject = NoObject
  NoFile = NoFile
  MaxIndexes = 3
  MaxDeletes = 2
INVARIANTS
  TypeOK
  SurvivorIsStrongest
  NoFieldLost
  FieldsNeverClobbered
  StatsExact
CHECK_DEADLOCK FALSE
