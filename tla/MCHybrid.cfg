\* The portal lags behind the head that backfill read from the node.
SPECIFICATION Spec
CONSTANTS
  None = None
  Paths <- TwoForks
  MaxHeight = 5
  Hash <- TreeHash
  Number <- TreeNumber
  Parent <- TreeParent
  Chains <- TreeChains
  HasEvents <- TreeEvents
  Retention = 2
  StartHeight = 0
  BatchSize = 2
  MaxReorgDepth = 2
  NHandlers = 0
  OnConflict <- NoHandlers
  Source = "hybrid"
  FollowTip = TRUE
  Redelivers = FALSE
  InitHeight = 2
  MaxReorgs = 1
  MaxRestarts = 1
PROPERTIES
  CaughtUpBeforeFollow
CHECK_DEADLOCK FALSE
