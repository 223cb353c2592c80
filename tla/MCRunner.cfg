\* The whole chain of tasks with two attempts to spare on two machines, and
\* chains of four attempts of different builds and datasets.
\* Nobody has to dispatch another attempt, so the system may stop.
CONSTANTS
  None = None
  reads = reads
  ingest = ingest
  r1 = r1
  r2 = r2
  Runners <- BothRunners
  Workloads <- BothWorkloads
  EmptyStart <- OnEmpty
  Configs <- FourConfigs
  MaxAttempts = 5
SPECIFICATION MCSpec
SYMMETRY Interchangeable
INVARIANTS TypeOK CompletionMarker GoldenBacked LocalAgrees NeverStuck
INVARIANTS SameData AnswersItsOwn
PROPERTY ImplementsLedger
CHECK_DEADLOCK FALSE
