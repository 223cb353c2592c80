\* The boundary and the end are reached, however many ticks there are.
CONSTANTS
  Clients = {c1}
  Tracker = tracker
  Flusher = flusher
  MaxCalls = 1
  MaxRequests = 1
SPECIFICATION FairSpec
PROPERTY TaskEnds
