SPECIFICATION Spec
CONSTANTS
  Names <- Sorted
  PathHops = 4
  CycleHops = 3
  MaxTriggers = 1
  MaxJobs = 2
  MaxGroup = 2
  MaxSnippetLines = 4
  DefaultContextLines = 1
  Files <- WorkTree
  Extensions <- FileExtensions
  ConfiguredSnippet = 3
  MaxFiles = 1
  NodesShown = 2
  CallersShown = 1
  Diffs <- Revisions
  MaxResults = 2
  MaxDepth = 2
  DefaultMaxResults = 500
  DefaultMaxDepth = 10
  MaxReadBytes = 14
  Matches <- Found
  FullyQualified <- JavaLike
  LexicalMatches <- FoundInText
  ExactMatches <- Exact
  ExportLimit = 3
  Disks <- ShopOnly
  Places <- TwoPlaces
  ServerAt <- McpPlace
  Offered <- ProductionTools
  Wired <- WiredByCommand
  Models <- ModelAnswers
  Callers = {c1, c2}
  Requests <- FewRequests
  Commands <- FewCommands
  MaxAnswers = 2
  CallsFail = FALSE
INVARIANTS
  StatsSeeWholeGraph
CHECK_DEADLOCK FALSE
