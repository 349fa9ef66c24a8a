\* Deferred indexes through crashes, restarts and an emptied table.
SPECIFICATION FairSpec
CONSTANTS
  Indexes <- AllIndexes
  NHandlers = 2
  Creates <- TwoHandlersCreate
  Defers <- TwoHandlersDefer
  MaxRestarts = 2
  MaxEmptied = 1
INVARIANTS
  TypeOK
  TipHasIndexes
PROPERTIES
  IndexNeverForgotten
  RegisteredIsBuilt
CHECK_DEADLOCK FALSE
