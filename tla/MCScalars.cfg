\* The same over blocks that decode, one run: amounts above 2^64 over the portal.
SPECIFICATION Spec
CONSTANTS
  None = None
  I64 = 4
  Ulp = 4
  Histories <- SmallHistories
  Configs <- BothSources
  BatchSize = 3
  Concurrency = 2
  MaxRetries = 1
  MaxParams = 5
  MaxRuns = 1
INVARIANTS
  ScalarsAgree
CHECK_DEADLOCK FALSE
