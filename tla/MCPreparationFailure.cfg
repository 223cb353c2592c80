\* A single batch, and compactions that may fail at any time.
CONSTANTS
  ProducerCount = 1
  BatchRecords = 1
  QueueDepth = 1
  MaxRecords = 1
  Quiet = 2
  MaxManifests = 1
  MaxWrites = 2
  MaxUnflushed = 1
  L0Max = 1
  Unlimited = 2
  MaxBlocked = 1
SPECIFICATION PreparationSpec
INVARIANT FailureFailsPhase
