\* Starts, failures, repairs and edits of an indexer binary.
SPECIFICATION FairSpec
CONSTANTS
  None = None
  Malformed = Malformed
  Url = Url
  Files <- SomeFiles
  Envs <- SomeEnvs
  Edits <- SomeEdits
  Recent = 1
  MaxHead = 3
  MaxFaults = 2
INVARIANTS
  TypeOK
  OneRunOfHeights
  ServedAfterInit
  WindowCoversWalk
PROPERTIES
  ErrorsLeadToStart
  BackfillReachesHead
CHECK_DEADLOCK FALSE
