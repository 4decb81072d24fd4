SPECIFICATION FairSpec
CONSTANTS
  Schemas = {s1, s2}
  Tables = {t}
  Keyspace <- MCKeyspace
  Volatile <- MCVolatile
  Patterns <- MCPatterns
  Nodes <- MCNodes
  MaxGestures = 3
  MaxFaults = 1
  MaxCalls = 2
  None = None  Root = Root
INVARIANTS TreeAnswersItsFilter FinishedScanIsComplete OpenSchemasAreFresh
PROPERTIES SpinnersStop
CHECK_DEADLOCK FALSE
