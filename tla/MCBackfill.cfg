\* Backfill from the portal, from block 0: three forks, two of them taken, and
\* two restarts.
SPECIFICATION FairSpec
CONSTANTS
  None = None
  Paths <- ThreeForks
  MaxHeight = 5
  Hash <- TreeHash
  Number <- TreeNumber
  Parent <- TreeParent
  Chains <- TreeChains
  HasEvents <- TreeEvents
  Retention = 2
  StartHeight = 0
  BatchSize = 2
  MaxReorgDepth = 2
  NHandlers = 0
  OnConflict <- NoHandlers
  Source = "sqd"
  FollowTip = FALSE
  Redelivers = FALSE
  InitHeight = 2
  MaxReorgs = 2
  MaxRestarts = 2
INVARIANTS
  TypeOK
  RowsFormChain
  WindowHoldsAncestor
PROPERTIES
  CommitConverges
  RewindExact
  ImplementsIndex
  BackfillEnds
CHECK_DEADLOCK FALSE
