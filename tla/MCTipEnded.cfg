\* A subscription that the node closes without an error.
SPECIFICATION FairSpec
CONSTANTS
  MaxHead = 4
  MaxRetries = 2
PROPERTIES
  TipReached
CHECK_DEADLOCK FALSE
