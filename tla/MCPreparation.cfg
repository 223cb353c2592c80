\* Two producers, datasets from a single short batch to four batches, of
\* which the database holds one in memory; a compactor that writes a manifest
\* and begins work twice.
CONSTANTS
  ProducerCount = 2
  BatchRecords = 2
  QueueDepth = 2
  MaxRecords = 7
  Quiet = 2
  MaxManifests = 1
  MaxWrites = 2
  MaxUnflushed = 1
  L0Max = 1
  Unlimited = 8
  MaxBlocked = 2
SPECIFICATION PreparationFairSpec
INVARIANTS PreparationTypeOK NeverOutOfOrder DatabaseContiguous LoadComplete
INVARIANTS BackpressureMeasured QuietObserved UncompactedAccepted
PROPERTY PreparationEnds
