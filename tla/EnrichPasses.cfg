SPECIFICATION FairSpec
CONSTANTS
  Projects <- SmallProjects
  Cap = 2
  PathOrder <- FileOrder
  Extension <- Extensions
  LowerCase <- Lowered
  NoModule = ""
  NoHint = NoHint
  None = None
  ProjectDir = "shop"
  MaxSnippetLines = 5
  DefaultContextLines = 1
INVARIANTS
  TypeOK
  LoadAccepted
  NoParallelLinks
  CommentAdjacent
  PoolBound
  CallsDeterministic
  ServiceOfDeepest
  CountsMatchContainment
  BuildFilePriority
PROPERTIES
  PassesEnd
CHECK_DEADLOCK FALSE
