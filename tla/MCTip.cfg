\* The finalized-blocks stream: errors, retries, closed subscriptions.
SPECIFICATION FairSpec
CONSTANTS
  MaxHead = 4
  MaxRetries = 2
INVARIANTS
  TypeOK
PROPERTIES
  NoSilentSkip
  TipReachedOrEnded
CHECK_DEADLOCK FALSE
