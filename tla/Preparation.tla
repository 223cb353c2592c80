----------------------------- MODULE Preparation -----------------------------
(***************************************************************************)
(* The preparation of golden data (src/runner.rs): the bulk load writes    *)
(* the dataset under SlateDB's write backpressure, closes the database and *)
(* checkpoints it; the compaction opens a clone with the published         *)
(* settings, waits until the compactor is quiet, closes and checkpoints.   *)
(*                                                                         *)
(* It composes the load (DatasetLoad) with the wait (CompactorWait) and    *)
(* adds what couples them: the LSM tree that one fills and the other       *)
(* compacts, the settings each opens it with, and the time the load spends *)
(* under backpressure, as `measure_backpressure` (src/system.rs) takes it  *)
(* from SlateDB's metrics.                                                 *)
(***************************************************************************)
EXTENDS DatasetLoad, CompactorWait

CONSTANTS MaxUnflushed, \* max_unflushed_bytes, in batches
          L0Max,        \* l0_max_ssts of the published settings
          Unlimited,    \* u32::MAX
          MaxBlocked    \* bound: units of time that writes are blocked for

ASSUME PreparationAssumption ==
  /\ MaxUnflushed \in Nat \ {0} /\ L0Max \in Nat \ {0} /\ MaxBlocked \in Nat
  /\ Unlimited \in Nat /\ Unlimited > MaxRecords

VARIABLES
  stage,        \* how far the preparation has come
  unflushed,    \* batches that the database holds in memory
  l0,           \* SSTs in level 0, each a batch here
  sortedRuns,   \* sorted runs
  admission,    \* the write in progress: none, waiting, full, blocked, admitted
  measurement,  \* its BackpressureMeasurement
  backpressure, \* backpressure_ns
  blockedFor    \* history: time that writes were blocked for

lsmVars == <<unflushed, l0, sortedRuns>>
writeVars == <<admission, measurement, backpressure, blockedFor>>
prepVars == <<stage, lsmVars, writeVars>>
allVars == <<vars, waitVars, prepVars>>

Ends == {"published", "failed", "refused"}
Stages == {"loading", "closed_load", "loaded", "compacting", "closed_compaction"}

Published == [compactor |-> TRUE, l0Max |-> L0Max]

(* Mutants: the load keeps the published compactor, or the limit on L0. *)
KeepsCompactor == [Published EXCEPT !.l0Max = Unlimited]
KeepsLimit == [Published EXCEPT !.compactor = FALSE]
BulkLoadConfig == [Published EXCEPT !.compactor = FALSE, !.l0Max = Unlimited]

NewMeasurement == [started |-> FALSE, since |-> 0, elapsed |-> 0]

PreparationInit ==
  /\ Init /\ WaitInit
  /\ compactorRuns = BulkLoadConfig.compactor
  /\ stage = "loading"
  /\ unflushed = 0 /\ l0 = 0 /\ sortedRuns = 0
  /\ admission = "none" /\ measurement = NewMeasurement
  /\ backpressure = 0 /\ blockedFor = 0

-----------------------------------------------------------------------------
(* BackpressureMeasurement *)

Start(m) == IF m.started THEN m ELSE [m EXCEPT !.started = TRUE, !.since = 0]

FinishInterval(m) ==
  IF m.started THEN [started |-> FALSE, since |-> 0, elapsed |-> m.elapsed + m.since] ELSE m

Finish(m) == FinishInterval(m).elapsed

-----------------------------------------------------------------------------
(* A write of the load, in the task that is measured *)

(* The part of a load's step that no write takes part in. *)
LoadOnly == stage = "loading" /\ UNCHANGED <<waitVars, prepVars>>

ReceivesBatch ==
  /\ stage = "loading" /\ Receives
  /\ admission' = IF writer' = "writing" THEN "waiting" ELSE "none"
  /\ measurement' = NewMeasurement
  /\ UNCHANGED <<waitVars, stage, lsmVars, backpressure, blockedFor>>

(* SlateDB compares its memory with the limit and sets the gauge to it. *)
SetsGauge ==
  /\ stage = "loading" /\ admission \in {"waiting", "blocked"}
  /\ measurement' = FinishInterval(measurement)
  /\ admission' = IF unflushed >= MaxUnflushed THEN "full" ELSE "admitted"
  /\ UNCHANGED <<vars, waitVars, stage, lsmVars, backpressure, blockedFor>>

(* It counts the backpressure, once or more, and waits for a flush. *)
IncrementsCounter ==
  /\ stage = "loading" /\ admission \in {"full", "blocked"}
  /\ measurement' = Start(measurement)
  /\ admission' = "blocked"
  /\ UNCHANGED <<vars, waitVars, stage, lsmVars, backpressure, blockedFor>>

BlockedTimePasses ==
  /\ stage = "loading" /\ admission = "blocked" /\ blockedFor < MaxBlocked
  /\ blockedFor' = blockedFor + 1
  /\ measurement' = [measurement EXCEPT !.since = IF measurement.started THEN @ + 1 ELSE @]
  /\ UNCHANGED <<vars, waitVars, stage, lsmVars, admission, backpressure>>

WriteReturns ==
  /\ stage = "loading" /\ admission = "admitted" /\ WriteSucceeds
  /\ unflushed' = unflushed + 1
  /\ backpressure' = backpressure + Finish(measurement)
  /\ admission' = "none" /\ measurement' = NewMeasurement
  /\ UNCHANGED <<waitVars, stage, l0, sortedRuns, blockedFor>>

(* A write may fail at any point, also while it is blocked. *)
WriteErrs ==
  /\ stage = "loading" /\ WriteFails
  /\ admission' = "none" /\ measurement' = NewMeasurement
  /\ UNCHANGED <<waitVars, stage, lsmVars, backpressure, blockedFor>>

(* The load has no WAL: a flush returns when all is in level 0. *)
LoadFlushes ==
  /\ Flushes /\ (writer' = "done" => unflushed = 0) /\ LoadOnly

LoadWriter ==
  \/ ReceivesBatch \/ SetsGauge \/ IncrementsCounter \/ WriteReturns \/ WriteErrs
  \/ (ReceivesNothing \/ AllReceived \/ ProducersJoined \/ JoinFails) /\ LoadOnly
  \/ LoadFlushes

LoadProducer(p) == Producer(p) /\ UNCHANGED <<waitVars, prepVars>>

(* Mutant: the gauge ends the interval whichever task sets it. *)
FlusherInterrupts ==
  /\ stage = "loading" /\ unflushed > 0 /\ l0 < BulkLoadConfig.l0Max
  /\ unflushed' = unflushed - 1 /\ l0' = l0 + 1
  /\ measurement' = FinishInterval(measurement)
  /\ UNCHANGED <<vars, waitVars, stage, sortedRuns, admission, backpressure, blockedFor>>

(* SlateDB's flusher sets the gauge too, in a task that nobody measures. *)
FlusherFlushes ==
  /\ stage = "loading" /\ unflushed > 0 /\ l0 < BulkLoadConfig.l0Max
  /\ unflushed' = unflushed - 1 /\ l0' = l0 + 1
  /\ UNCHANGED <<vars, waitVars, stage, sortedRuns, writeVars>>

-----------------------------------------------------------------------------
(* The compactor of the open database *)

(* A manifest takes up the result of an active compaction. *)
Installs ==
  /\ WritesManifest /\ \E i \in DOMAIN compactions : compactions[i] = "active"
  /\ l0' = 0 /\ sortedRuns' = sortedRuns + 1
  /\ UNCHANGED <<vars, stage, unflushed, writeVars>>

Completes ==
  /\ \E i \in DOMAIN compactions : Finishes(i, "Completed")
  /\ UNCHANGED <<vars, prepVars>>

CompactorActs ==
  \/ Installs \/ Completes
  \/ /\ \/ WritesManifest \/ ((l0 > 0 \/ sortedRuns > 0) /\ Submits)
        \/ \E i \in DOMAIN compactions : Progresses(i) \/ Finishes(i, "Failed")
     /\ UNCHANGED <<vars, prepVars>>

-----------------------------------------------------------------------------
(* run_bulk_load and run_compaction, around the measured work *)

(* close_database_after: the database is closed whether the work failed. *)
Closes(succeeded, next) ==
  /\ \E closed \in BOOLEAN : stage' = IF succeeded /\ closed THEN next ELSE "failed"
  /\ compactorRuns' = FALSE
  /\ UNCHANGED <<vars, storeVars, pollVars, clockVars, lsmVars, writeVars>>

LoadCloses ==
  stage = "loading" /\ writer \in Outcomes /\ Closes(writer = "done", "closed_load")

(* validate_uncompacted_checkpoint *)
Uncompacted == l0 > 0 /\ sortedRuns = 0

Goes(next) ==
  stage' \in {next, "failed"} /\ UNCHANGED <<vars, waitVars, lsmVars, writeVars>>

LoadCheckpoints ==
  stage = "closed_load" /\ Goes(IF Uncompacted THEN "loaded" ELSE "refused")

(* A new process clones the checkpoint and opens the clone. *)
OpensClone ==
  /\ stage = "loaded" /\ stage' \in {"compacting", "failed"}
  /\ compactorRuns' = (stage' = "compacting" /\ Published.compactor)
  /\ manifestId' = 1 /\ compactionsId' = 0 /\ compactions' = <<>>
  /\ wait' = IF stage' = "compacting" THEN "reading" ELSE "off"
  /\ backpressure' = 0 /\ blockedFor' = 0
  /\ UNCHANGED <<vars, view, lastState, stableFor, clockVars, lsmVars, admission, measurement>>

WaitPolls == stage = "compacting" /\ Polls /\ UNCHANGED <<vars, prepVars>>
WaitTimePasses == stage = "compacting" /\ TimePasses /\ UNCHANGED <<vars, prepVars>>

CompactionCloses ==
  /\ stage = "compacting" /\ wait \in {"quiet", "failed"}
  /\ Closes(wait = "quiet", "closed_compaction")

CompactionCheckpoints == stage = "closed_compaction" /\ Goes("published")

Runner == LoadCloses \/ LoadCheckpoints \/ OpensClone \/ CompactionCloses \/ CompactionCheckpoints

(* The preparation has ended, and so have the load's threads. *)
Over ==
  /\ stage \in Ends /\ \A p \in Producers : Ended(p)
  /\ UNCHANGED allVars

-----------------------------------------------------------------------------
PreparationNext ==
  \/ \E p \in Producers : LoadProducer(p) \/ (Panics(p) /\ UNCHANGED <<waitVars, prepVars>>)
  \/ LoadWriter \/ FlusherFlushes \/ BlockedTimePasses
  \/ CompactorActs \/ WaitPolls \/ WaitTimePasses
  \/ Runner \/ Over

PreparationSpec == PreparationInit /\ [][PreparationNext]_allVars

(* The tasks and threads of the runner are scheduled; SlateDB flushes what  *)
(* it may flush and finishes the compactions it has begun; time passes.     *)
PreparationFairSpec ==
  /\ PreparationSpec
  /\ WF_allVars(LoadWriter) /\ \A p \in Producers : WF_allVars(LoadProducer(p))
  /\ WF_allVars(FlusherFlushes) /\ WF_allVars(Completes)
  /\ WF_allVars(WaitPolls) /\ WF_allVars(WaitTimePasses) /\ WF_allVars(Runner)

-----------------------------------------------------------------------------
(* Every variable keeps its type, and an interval of backpressure is open   *)
(* only while the write in progress is blocked.                             *)
PreparationTypeOK ==
  /\ TypeOK /\ WaitTypeOK
  /\ stage \in Stages \union Ends
  /\ {unflushed, l0} \subseteq 0 .. MaxRecords /\ sortedRuns \in 0 .. MaxManifests
  /\ admission \in {"none", "waiting", "full", "blocked", "admitted"}
  /\ measurement \in [started : BOOLEAN, since : 0 .. MaxBlocked, elapsed : 0 .. MaxBlocked]
  /\ {backpressure, blockedFor} \subseteq 0 .. MaxBlocked
  /\ measurement.started => admission = "blocked"

(* All time that the load's writes were blocked for is in the backpressure  *)
(* that the load reports or in the measurement of the write in progress,    *)
(* whichever tasks set the gauge in the meantime.                           *)
BackpressureMeasured ==
  stage = "loading" /\ writer # "write_failed" =>
    blockedFor = backpressure + Finish(measurement)

(* When the wait ends, manifest and compactions had not changed for a whole *)
(* quiet period: until the last read began, and counting the time it took.  *)
QuietObserved == wait = "quiet" => idleAtRead + readFor >= Quiet

(* A load that succeeds leaves what its own validation, and the             *)
(* compaction's, accept: level 0 is not empty and nothing is compacted.     *)
UncompactedAccepted == stage # "refused"

(* docs/BENCHMARKS.md on compaction failures: a phase during which a        *)
(* compaction failed does not publish.                                      *)
FailureFailsPhase ==
  stage = "published" => \A i \in DOMAIN compactions : compactions[i] # "Failed"

(* The preparation ends, and the load's threads end with it: no write waits *)
(* for ever for memory that cannot be flushed, no thread for a channel that *)
(* nobody reads, and the wait for a compactor that submits finitely often.  *)
PreparationEnds == <>(stage \in Ends /\ \A p \in Producers : Ended(p))
=============================================================================
