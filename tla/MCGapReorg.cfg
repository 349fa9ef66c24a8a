\* A fork found at the tip: the refetch height is dropped, the stream goes on.
SPECIFICATION Spec
CONSTANTS
  None = None
  Paths <- TwoForks
  MaxHeight = 5
  Hash <- TreeHash
  Number <- TreeNumber
  Parent <- TreeParent
  Chains <- TreeChains
  HasEvents <- TreeEvents
  Retention = 2
  StartHeight = 0
  BatchSize = 1
  MaxReorgDepth = 2
  NHandlers = 0
  OnConflict <- NoHandlers
  Source = "subxt"
  FollowTip = TRUE
  Redelivers = FALSE
  InitHeight = 3
  MaxReorgs = 1
  MaxRestarts = 0
INVARIANTS
  GapFree
CHECK_DEADLOCK FALSE
