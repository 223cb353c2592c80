\* A workload or a preparation: two clients, samples at any point.
CONSTANTS
  Clients = {c1, c2}
  Tracker = tracker
  Flusher = flusher
  MaxCalls = 1
  MaxRequests = 1
SPECIFICATION Spec
SYMMETRY ClientSymmetry
INVARIANTS TypeOK CountedOnce RatesExcludeDrain MeasurementComplete BaselineCoversClients PartialWindowKept
