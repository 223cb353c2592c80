# TLA+ models of slatedb-benchmark

slatedb-benchmark prepares a golden dataset in an object store, measures
workloads against clones of it, and publishes what it measured. A benchmark is
only as good as its bookkeeping: every number depends on calls being counted
once, on intervals that begin and end where the documentation says, and on
results that belong to the commits and the data they name. These modules model
that bookkeeping; TLC checks them on small instances, and TLAPS proves every
invariant and every refinement that the runs check for instances of any size.

`tlc -config MCx.cfg MCx` runs a check, `tlapm X_proofs.tla` checks the proofs.
`PROJECT.json` lists the runs, the theorems, the hazards, the mutants (for each
property a plausible bug of a definition that the property catches), and for
each definition the lines of the source it stands for.

## The system

| Component | State | Operations | Interacts through |
| --- | --- | --- | --- |
| Runner (`runner.rs`) | objects of a task in the store, the output directory | dispatch, resume, delete, clone, measure, checkpoint, publish; cleanup | object store; attempts before and after it |
| Execution (`workloads/mod.rs`) | phase of a workload | warmup, measure, boundary, flush, drain, join, judge | channels, tasks, the rate boundary's lock |
| Closed-loop clients (`workloads/closed.rs`) | `WorkerStats`, a recorder | get, put, scan, transaction | database; a channel to a durability shard |
| Durability tracking (`workloads/durability.rs`) | frontier history, a queue per shard | report, observe, match, drain, abort | channels, a watch, a shared history |
| Dataset load (`workloads/closed.rs`) | producers' batches, the writer's position | generate, send, receive, write, join, flush | bounded channels |
| Sampling (`system.rs`) | recorder shards, windows, totals | record, swap and merge, tick, finish | locks, stop and ready channels |
| Store instrumentation (`instrumented_*.rs`) | atomic counters | count a request, its outcome, its bytes; snapshot | every HTTP request of the process |
| SlateDB metrics (`system.rs`) | counters, a task-local interval | start and end backpressure; report | SlateDB's callbacks |
| Quiet compactor (`runner.rs`) | last state seen, since when | poll, judge, fail | compactor state in the store |
| Rows (`system.rs`, `histogram.rs`) | histograms, windows | record, merge, summarize | validation |
| Validation (`validation.rs`) | none | judge an artifact | files |
| Bundle, publication (`bundle.rs`, `publish.rs`) | a directory, a git checkout | assemble; copy, commit, rebase, push | files, git |

What is hard here. A workload runs on a multi-threaded runtime: clients, one
durability shard per client, the observer of the durable frontier and the
sampler interleave at every lock and channel. The drain after the clients must
end whatever the database does. Samples are taken while recorders record, and
requests straddle the ends of the measured interval. A push may race another
publisher's, or take effect unanswered. An
attempt at a task may be killed between any two requests, requests fail, and
the answer to one that took effect may be lost; the next attempt must then skip
or start again, and never mix. The compactor works on between the polls that look for
its rest, and SlateDB's flusher sets the gauge by which a blocked write is
timed. Series shorter than the quantiles need, and latencies beyond the bounds
of the histogram, end up in rows that are validated. Schemas, the command line
and the website have no behaviour over time that a test does not reach.

What makes each component correct:

- durability: one latency per accepted write, from the first observation that
  covers it; a drain that ends, and succeeds only with everything covered;
- sampling: each call counted once; rates without the drain; totals with it;
- clients: counters and recorded calls tell the same story, and the judgement
  accepts exactly what the workload allows;
- dataset load: each record once and in order; no thread left behind;
- runner: one publication per task, complete, never changed, on matching data;
  no leftovers that stop a retry;
- store instrumentation: each request has at most one outcome of its class,
  and the result of a successful workload passes its own validation;
- quiet compactor: quiet means no work for the whole period; nothing that the
  load leaves is refused by the checkpoint's validation;
- backpressure: the time for which the load's writes were blocked, all of it;
- rows: percentiles are values of the series, in order, and no call is lost
  between a counter and its histogram;
- publication: what is reported as published is on `main`, and `main` holds
  complete bundles only.

## Modules

| Module | Models | Checked by | Proved in |
| --- | --- | --- | --- |
| `Durability` | durability.rs, record_write, the end of execute | `MCDurability*` | `Durability_proofs` |
| `DurabilityContract` | what the tracker promises | refined by `Durability` | `Durability_proofs` |
| `Sampler` | the registry, the sampler, the rate boundary and their two drivers | `MCSampler*` | `Sampler_proofs` |
| `DatasetLoad` | populate_dataset and its producers | through `Preparation` | `Preparation_proofs` |
| `CompactorWait` | wait_for_compactor_quiet beside a compactor | through `Preparation` | `Preparation_proofs` |
| `Preparation` | run_bulk_load and run_compaction, write backpressure | `MCPreparation*` | `Preparation_proofs` |
| `ClosedLoop` | the operations of worker_loop, validate_stats and the count checks | through `Rows` | `ClosedLoop_proofs` |
| `Percentiles` | percentile indices, ranks, histograms | through `Rows` | `Percentiles_proofs` |
| `Rows` | the published row of an API and its validation | `MCClosedLoop*` | `ClosedLoop_proofs` |
| `Measurement` | execute from the baseline to the validation of its result, with the HTTP attempts and counters | `MCMeasurement` | `Measurement_proofs` |
| `Publication` | bundle and publish | `MCPublication` | `Publication_proofs` |
| `Archive` | what `results/` on main promises the website | refined by `Publication` | `Publication_proofs` |
| `Runner` | the attempts at tasks and the objects they share | `MCRunner` | `Runner_proofs` |
| `Ledger` | what the objects promise a reader | refined by `Runner` | `Runner_proofs` |

### Durability

Variables are grouped as the code's tasks own them. Clients: `writes`,
`lastWrite` are fields of `WorkerStats`, `reported` is everything a client sent
on its channel. Observer: `observedAt` and `observed` are its locals, `history`
the shared `FrontierHistory`, `version` the watch value. Shard: `received` and
the length of `samples` are the two cursors into `reported` that stand for the
channel and the pending queue (both are FIFO); `historyIndex`,
`latestSequence`, `seenVersion` and `inputClosed` are its locals. `phase` is
where `execute` is. A step is the code between two accesses to shared state.

The observer is five steps (`ObserverReads`, `ObserverPushes`, `ObserverBumps`
between two waits), because a shard may run between any two. A shard wakes for
a report, for a closed channel or for a bump; after a bump it reloads the
latest observation and drains. `FirstCovering` is its search, onward from
`historyIndex`. SlateDB is `BeginWrite`, `DurableAdvances` and `DatabaseGone`:
sequence numbers are handed out in order, the frontier never passes them, and
the status channel may close at any time. A write may fail (`WriteFails`),
whether or not the database had taken it: its client counts an error, which
`erred` remembers, reports nothing and goes on, and `validate_stats`
(`NoErrors`) fails the run at its end. A client may fail as a whole
(`ClientFails`, a panic of its task or anything else that ends the join with an
error); `ClientsFail` then aborts the tracker. `Faults` counts the clients
that err, those that fail, and a database that goes away. An instant is the frontier at that
instant; `Timed` says whether instants are kept, since only one run reads them.

### Sampler

A recorder shard is an `active` and a `spare` buffer. A drain takes the list of
shards (`DrainStarts`), swaps one shard's buffers (`DrainSwaps`), merges and
returns what it holds (`DrainMerges`), and so on in any order of shards while
recorders record. A buffer is a count, since each recorder of the model records
one kind of call; windows are their sums; the store's counters are one counter.
`rateActive` and `rateHeld` are the boundary's flag and its lock, held from the
tick to the end of its sample. `preparation` selects the driver:
`measure_until_complete`, which keeps the partial window, or `execute`, which
passes the boundary, flushes, waits for the durability shards and then stops
the sampler. A failure of the clients, the flush or the drain takes the path
that the code takes.

### DatasetLoad

Producers deal out batches by `Stride`, the writer takes its `Turn`. A channel
is a sequence bounded by `QueuePerProducer`; `open` is whether the writer still
holds the receivers. A producer may panic at any point, a write or the flush
may fail, and a failed write may have been applied.

### CompactorWait

The compactor is SlateDB's, as the code reads it: a manifest and a list of
compactions, each with an id that a write advances (`Submits`, `Progresses`,
`Finishes`, `WritesManifest`). A read returns the two as of two instants
(`ReadsPart`), in either order and at any speed; `Judges` is the loop's body:
a state that differs from `lastState` starts the period over, a failed
compaction ends the wait, an active one prolongs it. `stableFor`, `idleFor`,
`idleAtRead` and `readFor` are clocks in units of the sleep between polls; the
last three are history, and all stop at `Quiet`. It is assumed of SlateDB that
the list of recent compactions holds every one that is active or has failed.

### Preparation

The bulk load and the compaction phase, one after the other, on one golden
dataset. It extends `DatasetLoad` and `CompactorWait` and adds what couples
them: the LSM tree (`unflushed`, `l0`, `sortedRuns`, all in batches) that the
one fills and the other compacts, and the settings each opens it with:
`BulkLoadConfig` turns the compactor off and lifts the limit on level 0,
`Published` is what the golden data is measured with later. A step of
`DatasetLoad` is taken together with what it means for a write: `ReceivesBatch`
begins one, `SetsGauge` compares the memory with the limit and ends the
interval of `measurement`, `IncrementsCounter` begins it, `WriteReturns` adds
it to `backpressure`. `FlusherFlushes` sets the gauge as well, but in a task
whose task-local is not set, so it leaves `measurement` alone. `LoadCloses`,
`LoadCheckpoints` (with `Uncompacted`, the validation of the checkpoint),
`OpensClone`, `CompactionCloses` and `CompactionCheckpoints` are the two
functions around the work. `Over` is the end.

### ClosedLoop

One client performs operations of one of the workloads' mixes, with every
outcome of every call. `stats` and `calls`/`failed` are the two books: the
counters that `execute` judges (`StatsValid`) and the calls that are published
and judged again (`CountsReconcile`). `sound` is history: whether every outcome
was one the workload allows. The tolerance check of the read/write mix is left
out: it is statistical.

### Percentiles and Rows

`PercentileIndex` is `(quantile * (n - 1)).round()` in thousandths,
`QuantileRank` the rank that a histogram's quantile looks for. `Rows` follows
one API (`api`) of a `ClosedLoop` client: a recorded call is counted in
`windowCalls` and its latency recorded in `window` (`Record`, which clamps it
to the bounds), and `Samples` at any moment append the rate and the histogram
of a window; `Ends` is the final sample, whose window has a latency but no
rate. When the phase is accepted, the row of the API is summarized from the
windows (`RateRow`, `SummaryOf`, `Total`) and judged as validation.rs does:
`ValidMetrics`, `ValidLatencySeries`, `ValidHistogram`. Buckets are one
microsecond wide below `Exact` and two above, which stands for the doubling of
the width in an HDR histogram. A rate is exact because a duration divides
`RateUnit`; averages, which are floating-point, are left out.

### Runner

`store` holds, per task, its database, its series and its marker; `local` is
the output directory of a runner's machine; `run` is the attempt a runner
executes. A database is known by the attempt that created it, which also stands
for its digest and its checkpoint; a series by the attempt that measured it. An
attempt passes `LoadSource`, `Resume`, `DeletePrefix` (one object at a time),
`OpenDatabase`, `Measure`, `Checkpoint`, `WriteLocal`, `PutSeries` and
`PutMarker`; `StepFails` and `Killed` may happen between any two, and
`HalfWritten` within `WriteLocal` and `Resume`, after the local series and
before the local result. A failed attempt may leave its `failure.json` or not
(`FailsWith`), since a diagnostic that cannot be written is only warned about
(runner.rs:95); nothing else decides on it. A command that is refused before
the old outputs are removed (runner.rs:67 to 85) is not an attempt; one that
stops between them and the task has neither a diagnostic nor another effect,
which is `StepFails` before the first request. `Creates` is
the create-only PUT with its comparison: it may take effect and lose its
answer, and is then sent again. `GroupFree` is the workflows' promise that one
attempt per task is live. `cause` records why an attempt failed; "leftover"
means that it found in the store something it could not work with. `Cleanup`
deletes databases of a session's workloads when none is being measured.

A configuration is the runner's commit, SlateDB's commit, what the runner
compares as shared (dataset, scale, profile, features) and the settings the
bulk load overwrites; nothing else about it matters to this code.

`MCRunner` adds a variable that picks one of two scenarios for a behaviour:
"machines" has attempts of one build on two machines at once, "configurations"
has attempts in turn that differ in build, dataset and settings.

### Measurement

The other modules take one component each and look at its hand-overs; this one
follows a workload from the sampler's baseline to the moment `run_workload`
accepts or rejects what was measured, with clients, shards and sampler as one
actor each. `now` is the clock since the sampler's start, and the intervals of
the result (`clientMeasurement`, `durabilityDrain`, and `previousAt` at the
end, the recorded interval) are differences of it. A call is recorded in
`current`; a tick drains it (`SampleBegins`) and appends the windows
(`SampleEnds`), and the final sample does so again. `Valid` is
`validate_workload_result` and `validate_workload_series` as far as they are
about counts, rows and times: `ValidIntervals`, `ValidStoreRows`,
`ValidApplicationRows` and `ValidSeries`. The series of a row is computed from
the windows its summary is computed from, so a list of rates is its timeline.

An `attempts` entry is one HTTP attempt: `Call`, `Frame`s of either body,
`Responds` or `NoResponse`, `BodyFails` (which may be polled again) and
`AttemptEnds`, which is also what a dropped future does. A snapshot reads the
attempt counts before the bytes (`LoadAttempts`, `Loaded`), so that a frame may
fall between. `MixObserved` is `validate_mix` for the catalog's BALANCED mix:
with a handful of calls only exact halves are within its tolerance. A
failed call is recorded like any other, so whether one failed is chosen when
`Judges` counts errors.

### Publication

A job bundles into its output directory and publishes from it, any number of
times. `Bundles` is a `bundle` that succeeds: `Accepted` is its checks, and the
run's directory is removed and written with `run.json` last. `LosesFile` stands
for a `bundle` that stops while it removes the old directory and for artifacts
that are damaged between jobs. `PublishBegins` verifies the only manifest,
copies the directory over the one on main in a fresh checkout and commits, or
finds nothing to commit. The workflow's checkout precedes `publish`; here it is
part of the step, and what others push in between is met as if they had pushed
right after it, since the first push is then rejected and rebased all the same.
The version directory of a run (bundle.rs:124) is part of the run's name.
`Rebases` is `git fetch` and `git rebase`, modelled as
a three-way merge of files: it fails on a conflict, and leaves a commit that is
already on main alone (`landed`). `Pushes` takes effect, with its answer or
without; `PushFails` does not. `archive` is `results/` on main and `version`
counts main's commits, `OthersPush` those of other writers.

Publications are not serialised in the model, although the workflow's
concurrency group serialises its own: the retry loop of publish.rs is written
for a main that advances, and a person may run the command.

## What the runs show

| Run | Instance | Shows |
| --- | --- | --- |
| `durability` | 2 clients, 2 writes; a write or a client may fail, or the database go away | each latency ends at the first covering observation; no lost wakeup; success means every sequence number handed out was sampled and is durable; the checks at the end of `execute` never fail; the tracker implements `DurabilityContract` |
| `durability_drain` | 1 client, 3 writes, any of which may fail, as may the client; fair | the drain ends, with a result or an error, also after a client that failed |
| `durability_stamp` | 1 client, 1 write, instants kept | a finding, below |
| `sampler` | 2 clients, 1 call each, 1 store request | nothing lost or counted twice; rates stop at the boundary; a success is complete; the baselines enclose the clients; a preparation keeps its partial window |
| `sampler_ends` | 1 client, fair | the task ends, however many ticks compete for the lock |
| `preparation` | 2 producers, up to 7 records in batches of 2, memory for 1 batch; quiet period 2, fair | the load is in order and complete; blocked time is measured; quiet was quiet; no checkpoint is refused; all of it ends |
| `preparation_failure` | same | a finding, below |
| `closed_loop` | every mix, 3 operations, all outcomes, 3 samples, 4 latencies | what `execute` accepts, the validation accepts; exactly the sound phases are accepted; the row of an API that was called is accepted |
| `scan_row` | same | a finding, below |
| `runner` | bulk load, compaction, 2 workloads; one build on 2 machines with 5 attempts, or 4 configurations on 1 machine with 4 attempts | the marker is a completion marker; a golden can be used whenever it is read; a retry never trips over leftovers; the output directory agrees with what is published; published data is of one dataset and, for the golden, one SlateDB commit; success answers the commits that were asked for; the files implement `Ledger` |
| `measurement` | one request attempt, up to 2 calls, 3 units of time; mixes of no operation (the idle task), of one kind, of two, of transactions | a workload that `execute` reports as a success passes its own validation, unless no tick fell into it or an operation never occurred; an attempt is classified once |
| `publication` | 2 jobs, 2 runs of up to 2 workloads, 2 bundles, 2 pushes per publication | success means published; main holds complete bundles of one run, golden and source each, one replaced at a time (`Archive`) |

The bounds. `durability`: two clients let every shared structure be contended;
two sequence numbers let one write be covered by an observation that another
client's write caused, late reports and skipped frontiers included. Three
numbers on one client add histories in which a search passes over several
observations. `MaxFaults` bounds those faults, to one in
`durability` and two in `durability_drain`; a client that has erred may err
again at any time. The proofs remove the bound for the safety properties. `sampler`:
one call per client at any point of any sample is enough to be lost or
duplicated, and the number of samples is not bounded. `preparation`: seven
records are four batches on two producers, so turns wrap around, the last batch
is short or whole, and there are datasets in which a producer has nothing to
do; memory for one batch blocks the second write until a flush, for up to two
units of time; a quiet period of two units needs three polls, and two writes of
compactions that begin work with one manifest leave room for a compaction that
is submitted, progresses, is installed, completes or fails at any point of any
poll. `closed_loop`: counters only add, so a disagreement shows with one
operation; latencies are below, within and above the histogram's bounds and on
both widths of bucket; three samples give series of up to four windows, shorter
than any quantile but the median distinguishes. `runner`: the three tasks need
three attempts, so two remain for attempts that are killed or fail at any step,
on the same task or different ones, at the same time where the groups allow; in
the other scenario a chain of three and one more in any other configuration,
the second workload, which starts empty, among them.
`measurement`: three units of time leave room for
a tick before the boundary, one in the drain and a final sample later than
both, and for each interval to be empty where it may be; one attempt is enough
for its frames and outcome to fall on either side of each snapshot, and its
status is a success or a server error, since the other classes differ only in
the counter. Requests end with the final snapshot, after which nothing reads
them. `publication`: two bundles are two of one run in conflict, or one
replaced by another with other workloads, or two runs side by side; two pushes
let the first fail or lose its answer and the second decide (publish makes
five); main takes three commits, so that others can advance it at any point.
The symmetries permute interchangeable clients, machines or jobs and accompany
safety properties only. The run `runner` does not check for deadlock: when the
attempts are used up nobody has to dispatch another.

Fairness. In `durability_drain` every task of the runtime runs when it can (weak
fairness), a client ends at its deadline, and a database that has not gone away
makes accepted writes durable; nothing forces it to go away or stay, nor a write or a client to fail or not.
In
`sampler_ends` the sampler finishes a sample it has begun, clients end, and the
boundary's lock is acquired by a thread that waits for it while samples take it
again and again (strong fairness of `RatesFinish`): a sample holds the lock for
milliseconds of every second and a blocked thread is woken when it is released.
Ticks are not fair. In `preparation` the producers, the writer and the runner
are scheduled, SlateDB flushes what it may flush and finishes a compaction that
it has begun, and time passes. That it begins finitely many is the bound on
its writes: a compactor that never rests keeps `wait_for_compactor_quiet`
waiting, as it should. Nothing is assumed of panics and failures.

## Findings

- `durability_stamp`: the observer stamps `observed_at` before it reads the
  frontier (durability.rs:173), so a durable latency can end before the
  frontier covered the write; docs/BENCHMARKS.md says it runs until the
  frontier reaches it. The error is bounded by the time between two lines.
- `scan_row`: the `scan` row counts whole scans (closed.rs:273, 314), where
  docs/DESIGN.md:84 counts every `next()`; docs/BENCHMARKS.md:141 agrees with
  the code.
- `preparation_failure`: run_compaction reads the compactions in its polls only
  (runner.rs:296). One that fails between the last poll and the close does not
  fail the phase, although docs/BENCHMARKS.md:91 says that every phase fails if
  SlateDB reports a compaction failure while it runs; run_workload looks again
  after its close.
- Not a run: docs/BENCHMARKS.md:62 and cli.rs:82 have the compactor idle for a
  minute before the phase ends. The minute is one that the polls have seen: it
  ends when the last read begins, or includes the time that read took, and the
  compactor may begin work before the close. `QuietObserved` states what holds.
- Not a run: src/cli.rs and docs/DESIGN.md:156 describe `cleanup` as removing
  all of a session's data. It removes databases only (runner.rs:104), as
  docs/DESIGN.md:141 and `ImplementsLedger` require.

- Not a run: `transport_errors` is documented as "Transport failures without an
  HTTP response" (instrumented_store.rs:115), but a body that fails after its
  response is counted there too (instrumented_http.rs:390), so that an attempt
  with status 500 and a broken body adds two to `request_errors`. It is why
  `AttemptsAccounted` bounds transport errors and responses separately.
- Not a run: docs/DESIGN.md:255 says that bundle validation rejects incomplete
  result and series pairs, but a directory that has a series and no result is
  skipped (bundle.rs:184), like a workload that never ran. A result without its
  series is refused. No property tells the two apart: `Archive` promises of a
  bundle what its manifest lists.
- Not a run: bytes that arrive within the interval for a method that started no
  request in it are published nowhere (system.rs:695); the row exists only
  beside a row of requests.
- Not a run: in a checkout that holds the commit of an earlier publication whose
  pushes all failed, `publish` finds nothing to commit and reports "already
  published" (publish.rs:70), although the run never reached main. A fresh
  checkout per job (docs/DESIGN.md:294) rules it out, and the model has one.

## What is proved

`Durability_proofs` proves, for any set of clients and any `MaxSequence`:
`TypeCorrect`, `FirstObservation`, `WakeupsKept`, `Reconciliation`, `Coverage`.
Its inductive invariant adds to the properties what a shard knows between its
steps: history sequences increase; no observation before `historyIndex` covers
the front of the queue, and none in front covers a write reported later by the
same client, because a client's sequence numbers increase; a shard that has not
seen the latest version, or is about to reload, is exempt from the wakeup
claim; a shard that has returned has no write pending and its channel is
closed; every sequence number is reported or being written, as long as
no client has erred or failed (`Lost`); and in each phase of `execute` which tasks have ended. The checks at
the end follow: when all shards have returned, every report was sampled, and a
matched write is at most what the observer saw last.

`Sampler_proofs` proves, for any clients and bounds: `TypeCorrect`,
`CallsCountedOnce`, `RateBoundary`, `Completeness`, `BaselineCoverage`,
`PreparationRates`. The invariant is a conjunction of named parts.
`CountedOnce` needs `BufferInv`: a spare buffer is empty, and a drain holds at
most one buffer, of a shard that is not in its list. `PhaseInv` ties the
sampler's state to the task's, `RecorderInv` says who is registered and
silent in which phase, and with both `DrainedInv` shows that the final drain
swaps after the last call was recorded. `StoreInv` and `RateInv` carry the
store's counters and the rate windows across the boundary.

`Durability_proofs` also proves `ContractImplemented`: the tracker implements
`DurabilityContract`. A step of the contract is a write's return, an advance of
the frontier, a match or a phase of `execute`; everything else is a stutter.
That a match samples a write that was not sampled needs one more invariant,
`NumbersInv`: a sequence number belongs to one client, and a client's numbers
increase along its reports.

`Preparation_proofs` begins with the load: `TurnsAgree`, `PrefixLoaded` and
`CompleteLoad`, for any number of producers, batch size, channel depth and
dataset. Its invariant
numbers the batches of a dataset: batch `k` starts at record `k * BatchRecords`
and is producer `k % ProducerCount`'s, a channel holds its producer's next
batches in the order of their numbers, and what is written are the batches
below the writer's number. `SameProducer`, that two batches of a producer are a
multiple of the number of producers apart, is the arithmetic at its core.

It goes on with `LoadWithin`, that a preparation implements the load of
`DatasetLoad`, so that those theorems hold of it; and
`PreparationTypeCorrect`, `BlockedTimeMeasured`, `QuietSeen` and
`NeverRefused`. Quiet follows from identities that only grow: if two reads see
the same pair of ids, nothing was written between the end of the one and the
beginning of the other, whatever order the parts were read in.

`ClosedLoop_proofs` proves `AcceptedIsConsistent` and `JudgedRightly`. The two
books agree while no error has been counted, and an outcome that the workload
does not allow always leaves a trace in a counter that `StatsValid` reads.
`RowsLoop` carries both to `Rows`, of which `RowsTypeCorrect` proves the types
and `RowsAccepted` that the row of an API that was called is accepted. Its
invariant, `Booked`: the calls counted in the window under way are the
latencies in its histogram, and with those of the merged windows they are the
calls of the client's books. Each step of the client records one call or none
(`OneCall`), a latency is one more in its histogram because it is clamped to
the buckets (`CountRecord`), and a window that ends adds its counts to the
merge (`MergedAppend`). That the summaries are in order is
`PercentilesOrdered` of the sorted rates and `QuantilesOrdered` of a histogram.

`Percentiles_proofs` proves the arithmetic of the indices:
`PercentileInBounds`, `PercentileNearest`, `RankInBounds`, and
`PercentilesOrdered`, that the percentiles of a sorted series of any length are
in order and between its ends; that there is a sorted series (`SortedIs`); and
`QuantilesOrdered`, that the quantiles of a histogram are recorded buckets in
order. Counts are sums over buckets, folds that take the elements in a fixed
but unknown order. The provers cannot instantiate the library's induction
schemas, so the induction is a fact about sets of numbers (`LeastNumber`, from
the well-foundedness of the inclusion of finite sets, and `AllNumbers`), from
which follow that the fold exists (`SumsExist`), that any element may be taken
first (`SumWithout`), that sums add up (`SumBoth`), and that the buckets up to
the greatest recorded one hold every latency (`SumOfPart`), so that there is
one that reaches the rank of any quantile.

`Measurement_proofs` proves `MeasurementTypes`, `AttemptsAreAccounted` and
`SuccessesArePublishable` for any requests, mixes, calls, samples and any
length of the run. For the requests (`HttpInv`) the invariant counts the
attempts that can still get a response or an error: together with what was
counted they are at most the requests that were started, so no attempt is
counted twice. For the result, a call is in the registry, in the sample in
progress or in the total, and `BooksInv` speaks of their sum: of the operations
of the mix only, one flush, as many durable latencies as writes less those
still to come, transactions in step. `WindowsInv` says that the windows of each
timeline are adjacent, end at the last sample, and hold a latency of whatever
has been counted. `PhaseInv` and `SamplerInv` order the clock's instants: the
sampler outlives what `execute` times, so the recorded interval encloses
measurement and drain. Each rule of the validation then follows from one part
when the sampler has returned, except the two that `SuccessIsPublishable` names.

`Runner_proofs` proves `CompletionMarkers`, `GoldenData`, `LikeWithLike`,
`Answers`, `Outputs`, `Retries` and `LedgerImplemented` for any machines,
workloads, configurations and attempts. The invariant gives a live attempt its
cell: no two live attempts have the same task, so what an attempt finds in the
store after `DeletePrefix` is what it put there. The cell of its source is
frozen instead: a golden with a marker is complete and no step changes it, so
what `LoadSource` found still holds when the marker is put. A step of `Ledger`
is a `PutMarker` that takes effect.

`Publication_proofs` proves `PublicationTypes`, `Published` and
`ArchiveImplemented` for any jobs, runs, bundles and pushes. The invariant is that a directory on main, and the
one that a checkout is about to push, is a whole bundle of one run. A rebase
merges file by file, so it could mix two bundles of a run; it does not, because
a bundle has a `run.json` that names its files, so a merge without conflict is
of equal manifests, and two whole bundles with one manifest are equal.

Assumptions: the named assumptions on constants only (natural bounds, distinct
recorders, configurations that are records). `MeasurementAssumption` says of a
mix that it has no other operations than the four and never both puts and
transactions: mixes are those of the static catalog (config.rs:213 to 220),
and the validation judges the durable latencies of a write workload by its puts
or by its transactions (validation.rs:929), never by both. TLC evaluates the
assumptions on each run.

Only model-checked: the liveness properties `DrainTerminates`, `TaskEnds` and
`PreparationEnds`, since fairness and ENABLED are out of TLAPS's reach. The
three properties that the code violates are no theorems.

`Sorted` is stated by what a sort returns, some order of the places in which
the values do not decrease, since TLC's own sort has no definition that could
be reasoned about.

## Plan

What could follow: the warmup, which is the loop of `ClosedLoop` with its books
discarded; the classification of requests by method in `instrumented_http.rs`;
a common abstraction of `Measurement` and `Sampler`, so that the drain of the
registry in the one is shown to be the drain of the other.

## Not modelled

Time, outside `Measurement`, `CompactorWait` and `Preparation`: deadlines, ticks
and poll intervals may fire at any step. Sizes: bytes are counts. SlateDB and
the object store are what this code uses of them: an ordered durable frontier,
conflicts that may happen, atomic create-only PUTs, a compactor that writes its
state, clones that depend on the database they were cloned from. Whether a
golden database in use stays readable while SlateDB collects garbage is
SlateDB's own matter. The warmup is not modelled, because the measured phase
starts from fresh books after it. The host and process samplers, the metrics
reporter, the selection and formatting of keys, configuration parsing, the
command line, schemas, the list of patches, the formatting of artifacts and the
website have no state that outlives a call. Averages, and the rounding of
floating-point rates, are left out: the properties are about counts and order.
