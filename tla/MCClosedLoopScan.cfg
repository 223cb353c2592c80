\* The scan row against the design document's definition of it.
CONSTANTS
  Reads = 2
  Updates = 1
  ScanLimit = 2
  MaxOperations = 3
  Observed <- OneEach
  Latencies <- ShortToOverlong
  MaxMicros = 7
  Exact = 4
  Durations <- OneOrTwo
  RateUnit = 2
  MaxSamples = 2
SPECIFICATION RowsSpec
INVARIANT ScanRowCountsNexts
