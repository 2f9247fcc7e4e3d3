SPECIFICATION FairSpec
CONSTANTS
  RelKinds <- Kinds
  BatchSize = 2
  StartsWith <- BeginsWith
  PartOf <- IsPartOf
  Callers = {c1, c2}
  NoCaller = NoCaller
  Operations <- Ops
  InitialDbs <- Dbs
  MaxCalls = 1
INVARIANTS
  NoStatementAfterClose
  FileReplacedExactly
PROPERTIES
  
  TruncatedExact
  CallsReturn
CHECK_DEADLOCK FALSE
