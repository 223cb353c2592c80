\* The drain ends, also when writes or the client fail or the database goes
\* away, at any step.
CONSTANTS
  Clients = {c1}
  MaxSequence = 3
  MaxFaults = 2
  Timed = FALSE
SPECIFICATION FairSpec
PROPERTY DrainTerminates
