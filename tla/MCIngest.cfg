\* Up to four blocks from either source, batches of three, two requests in flight, one
\* retry, two runs.  The rows of two Created events do not fit in one statement.
SPECIFICATION FairSpec
CONSTANTS
  None = None
  I64 = 4
  Ulp = 4
  Histories <- SmallHistories
  Configs <- BothSources
  BatchSize = 3
  Concurrency = 2
  MaxRetries = 1
  MaxParams = 5
  MaxRuns = 2
INVARIANTS
  TypeOK
  BatchesAreRuns
  OneRowPerEvent
  SourcesAgree
PROPERTIES
  RpcRowsExact
  RunEnds
CHECK_DEADLOCK FALSE
