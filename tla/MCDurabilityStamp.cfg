\* The interval of a sample against the documentation's definition of it.
CONSTANTS
  Clients = {c1}
  MaxSequence = 1
  MaxFaults = 0
  Timed = TRUE
SPECIFICATION Spec
INVARIANT LatencyEndsAtCoverage
