\* Every workload's operations, with every outcome; latencies below and above
\* the bounds of the histogram, in buckets of one value and of two.
CONSTANTS
  Reads = 2
  Updates = 1
  ScanLimit = 2
  MaxOperations = 3
  Observed <- OneEach
  Latencies <- ShortToOverlong
  MaxMicros = 7
  Exact = 4
  Durations <- OneOrTwo
  RateUnit = 2
  MaxSamples = 3
SPECIFICATION RowsSpec
INVARIANTS RowsTypeOK AcceptedReconciles JudgedBySoundness RowAccepted
