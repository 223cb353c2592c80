\* Two clients' writes in any interleaving; a write or a client may fail, or
\* the database go away.
CONSTANTS
  Clients = {c1, c2}
  MaxSequence = 2
  MaxFaults = 1
  Timed = FALSE
SPECIFICATION Spec
SYMMETRY ClientSymmetry
INVARIANTS TypeOK FirstObservationMatched NoLostWakeup SuccessMeansCovered NeverMismatches
PROPERTY ImplementsContract
