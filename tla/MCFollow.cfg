\* Backfill over RPC from block 1, height by height while the node forks, then the
\* node's stream, with two handlers, one per ON CONFLICT clause: two forks and one
\* restart, at any point of either phase.
SPECIFICATION Spec
CONSTANTS
  None = None
  Paths <- ThreeForks
  MaxHeight = 5
  Hash <- TreeHash
  Number <- TreeNumber
  Parent <- TreeParent
  Chains <- TreeChains
  HasEvents <- TreeEvents
  Retention = 2
  StartHeight = 1
  BatchSize = 2
  MaxReorgDepth = 2
  NHandlers = 2
  OnConflict <- BothClauses
  Source = "subxt"
  FollowTip = TRUE
  Redelivers = FALSE
  InitHeight = 2
  MaxReorgs = 2
  MaxRestarts = 1
INVARIANTS
  EntitiesCoverRows
  GaugesMatchTable
PROPERTIES
  EntitiesAppearWithRow
  TipKeepsLinks
  RewindDropsOrphansOnly
CHECK_DEADLOCK FALSE
