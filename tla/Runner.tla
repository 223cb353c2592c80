------------------------------- MODULE Runner -------------------------------
(***************************************************************************)
(* The task runner (src/runner.rs) and the object store it shares with the *)
(* attempts that ran before it.                                            *)
(*                                                                         *)
(* A benchmark is a bulk load, a compaction of a clone of its checkpoint,  *)
(* and workloads that run on clones of the compacted one.  The last object *)
(* a task creates, its marker (golden.json or result.json), makes a later  *)
(* attempt skip the task; without it an attempt deletes what earlier ones  *)
(* left and starts again.  An attempt may be killed between any two steps, *)
(* every request may fail, and an answer may be lost after a PUT took      *)
(* effect.                                                                 *)
(***************************************************************************)
EXTENDS Naturals

CONSTANTS
  Runners,     \* processes that run attempts, one at a time each
  Workloads,   \* the measured tasks
  EmptyStart,  \* the workloads that do not start from golden data
  Configs,     \* what an attempt may be built and configured with
  MaxAttempts, \* bound: attempts dispatched
  None         \* an object that does not exist

Phases == {"bulk-load", "compaction"}
Tasks == Phases \union Workloads
Attempts == 1 .. MaxAttempts

ASSUME RunnerAssumption ==
  /\ EmptyStart \subseteq Workloads
  /\ Workloads \intersect Phases = {}
  /\ MaxAttempts \in Nat
  /\ \A c \in Configs :
       c = [runner |-> c.runner, slate |-> c.slate, data |-> c.data, lsm |-> c.lsm]

VARIABLES
  store,     \* per task: its database, its series.json and its marker
  local,     \* per runner: what its output directory holds
  run,       \* per runner: its current or last attempt
  dispatched \* attempts so far

vars == <<store, local, run, dispatched>>

(***************************************************************************)
(* A database is known by the attempt that created it, the attempt whose   *)
(* checkpoint it is a clone of, whether the measured work on it completed, *)
(* and whether it has a detached checkpoint.  A series is known by the     *)
(* attempt that measured it, which stands for its digest too.              *)
(***************************************************************************)
Database == [by : Attempts, from : Attempts \union {None},
             complete : BOOLEAN, checkpoint : BOOLEAN]

(* The bulk load overwrites the settings that shape the LSM tree. *)
RecordedAsGiven(t, c) == c
Recorded(t, c) == IF t = "bulk-load" THEN [c EXCEPT !.lsm = "bulk"] ELSE c

RecordedConfigs == {Recorded(t, c) : t \in Tasks, c \in Configs}

Marker == [by : Attempts, from : Attempts \union {None}, config : RecordedConfigs]

Ended == {"ok", "failed", "killed"}
Causes == {"request", "missing", "config", "leftover"}

ASSUME NoneAssumption ==
  /\ None \notin Tasks /\ None \notin Causes /\ None \notin Attempts
  /\ None \notin Database /\ None \notin Marker
  /\ None \notin [by : Attempts, from : Attempts \union {None}]

Idle == [pc |-> "idle", task |-> None, id |-> None, config |-> None,
         source |-> None, cause |-> None]

Empty == [series |-> None, marker |-> None, failure |-> None]

Live(r) == run[r].pc \notin Ended \union {"idle"}

(* The task whose marker is loaded first, and whose checkpoint is cloned. *)
Needs(t) == CASE t = "bulk-load" -> None
              [] t = "compaction" -> "bulk-load"
              [] t \in EmptyStart -> None
              [] OTHER -> "compaction"

(* A golden manifest does not name its sidecar: only workloads have one. *)
HasSeries(t) == t \in Workloads

(* A golden manifest need not come from the same build of the runner. *)
MatchesAnything(t, existing, c) == TRUE
Matches(t, existing, c) ==
  IF t \in Phases
  THEN [existing EXCEPT !.runner = c.runner] = Recorded(t, c)
  ELSE existing = c

SharesCommit(t, golden, c) == t = "compaction" => golden.slate = c.slate
Shares(t, golden, c) == /\ golden.data = c.data
                        /\ t = "compaction" => golden.slate = c.slate

(* The recorded checkpoint exists, with the digest it was recorded with. *)
Verified(t, golden) == /\ store[t].db # None
                       /\ store[t].db.checkpoint
                       /\ store[t].db.by = golden.by

Init ==
  /\ store = [t \in Tasks |-> [db |-> None, series |-> None, marker |-> None]]
  /\ local = [r \in Runners |-> Empty]
  /\ run = [r \in Runners |-> Idle]
  /\ dispatched = 0

Goes(r, pc) == run' = [run EXCEPT ![r].pc = pc]

(* An error ends the attempt, which leaves its partial data in the store and *)
(* its files in the output directory.  The diagnostic is not always written: *)
(* an error before the task is entered leaves none, and an error in writing  *)
(* it is only logged.                                                        *)
FailsWith(r, cause, files) ==
  /\ run' = [run EXCEPT ![r].pc = "failed", ![r].cause = cause]
  /\ \E diagnostic \in {None, run[r].id} :
       local' = [local EXCEPT ![r] = [files EXCEPT !.failure = diagnostic]]

Fails(r, cause) == FailsWith(r, cause, local[r])

(* GitHub's concurrency groups: one job at a time per phase or task. *)
GroupIgnored(t) == TRUE
GroupFree(t) == \A q \in Runners : Live(q) => run[q].task # t

Dispatch(r) ==
  /\ ~Live(r) /\ dispatched < MaxAttempts
  /\ \E t \in Tasks, c \in Configs :
       /\ GroupFree(t)
       /\ run' = [run EXCEPT ![r] =
            [pc |-> IF Needs(t) = None THEN "resume" ELSE "source",
             task |-> t, id |-> dispatched + 1, config |-> c,
             source |-> None, cause |-> None]]
  /\ local' = [local EXCEPT ![r] = Empty]
  /\ dispatched' = dispatched + 1
  /\ UNCHANGED store

(***************************************************************************)
(* The golden manifest a task starts from must exist, fit the attempt's    *)
(* configuration, and refer to a checkpoint that is still there.           *)
(***************************************************************************)
SourceRefused(t, c) ==
  LET golden == store[Needs(t)].marker
  IN IF golden = None THEN "missing"
     ELSE IF ~Shares(t, golden.config, c) THEN "config"
     ELSE IF ~Verified(Needs(t), golden) THEN "leftover"
     ELSE None

LoadSource(r) ==
  LET t == run[r].task
      cause == SourceRefused(t, run[r].config)
  IN /\ run[r].pc = "source"
     /\ IF cause # None
        THEN Fails(r, cause)
        ELSE /\ run' = [run EXCEPT ![r].pc = "resume",
                                  ![r].source = store[Needs(t)].marker.by]
             /\ UNCHANGED local
     /\ UNCHANGED <<store, dispatched>>

(* What a published artifact is checked for before its task is skipped. *)
ResumeRefused(r) ==
  LET t == run[r].task
      existing == store[t].marker
      restorable == IF HasSeries(t)
                    THEN /\ existing.from = run[r].source
                         /\ store[t].series = existing.by
                    ELSE Verified(t, existing)
  IN IF ~Matches(t, existing.config, run[r].config) THEN "config"
     ELSE IF ~restorable THEN "leftover"
     ELSE None

RestoredMarker(t) == [Empty EXCEPT !.marker = store[t].marker]
Restored(t) == [Empty EXCEPT !.series = store[t].series, !.marker = store[t].marker]

Resume(r) ==
  LET t == run[r].task
  IN /\ run[r].pc = "resume"
     /\ IF store[t].marker = None
        THEN Goes(r, "delete") /\ UNCHANGED local
        ELSE IF ResumeRefused(r) # None
        THEN Fails(r, ResumeRefused(r))
        ELSE Goes(r, "ok") /\ local' = [local EXCEPT ![r] = Restored(t)]
     /\ UNCHANGED <<store, dispatched>>

(***************************************************************************)
(* delete_prefix lists the objects under the task's root and deletes each. *)
(* The compaction's manifest is not under its root.                        *)
(***************************************************************************)
FilesButSeries(t) == {"db"}
Files(t) == IF t = "compaction" THEN {"db"} ELSE {"db", "series", "marker"}

DeletePrefix(r) ==
  LET t == run[r].task
      left == {f \in Files(t) : store[t][f] # None}
  IN /\ run[r].pc = "delete"
     /\ IF left = {}
        THEN Goes(r, "open") /\ UNCHANGED store
        ELSE /\ \E f \in left : store' = [store EXCEPT ![t][f] = None]
             /\ UNCHANGED run
     /\ UNCHANGED <<local, dispatched>>

(***************************************************************************)
(* A task starts on a new database, or on a clone whose digest is compared *)
(* with the checkpoint's.  SlateDB opens a database that is already there. *)
(***************************************************************************)
Cloneable(r) ==
  LET n == Needs(run[r].task)
  IN n # None => store[n].db # None /\ store[n].db.by = run[r].source

OpenDatabase(r) ==
  LET t == run[r].task
      new == [by |-> run[r].id, from |-> run[r].source,
              complete |-> FALSE, checkpoint |-> FALSE]
  IN /\ run[r].pc = "open"
     /\ IF Cloneable(r)
        THEN /\ store' = [store EXCEPT ![t].db = IF @ = None THEN new ELSE @]
             /\ Goes(r, "measure") /\ UNCHANGED local
        ELSE Fails(r, "leftover") /\ UNCHANGED store
     /\ UNCHANGED dispatched

(***************************************************************************)
(* populate_dataset, wait_for_compactor_quiet or workloads::execute, then  *)
(* the close.  The attempt goes on only if both succeeded.                 *)
(***************************************************************************)
MeasureUnchecked(r) ==
  LET t == run[r].task
  IN /\ run[r].pc = "measure" /\ store[t].db # None
     /\ \E done \in BOOLEAN : store' = [store EXCEPT ![t].db.complete = done]
     /\ Goes(r, IF t \in Phases THEN "checkpoint" ELSE "write_local")
     /\ UNCHANGED <<local, dispatched>>
Measure(r) ==
  LET t == run[r].task
  IN /\ run[r].pc = "measure" /\ store[t].db # None
     /\ store' = [store EXCEPT ![t].db.complete = TRUE]
     /\ Goes(r, IF t \in Phases THEN "checkpoint" ELSE "write_local")
     /\ UNCHANGED <<local, dispatched>>

Checkpoint(r) ==
  LET t == run[r].task
  IN /\ run[r].pc = "checkpoint" /\ store[t].db # None
     /\ store' = [store EXCEPT ![t].db.checkpoint = TRUE]
     /\ Goes(r, "write_local")
     /\ UNCHANGED <<local, dispatched>>

(* The artifact the attempt publishes, once it has passed its validation. *)
Produced(r) == [by |-> run[r].id, from |-> run[r].source,
                config |-> Recorded(run[r].task, run[r].config)]

WriteLocalMarkerOnly(r) ==
  LET t == run[r].task
  IN /\ run[r].pc = "write_local"
     /\ local' = [local EXCEPT
          ![r].series = IF HasSeries(t) THEN run[r].id ELSE None,
          ![r].marker = Produced(r)]
     /\ Goes(r, "put_marker")
     /\ UNCHANGED <<store, dispatched>>
WriteLocal(r) ==
  LET t == run[r].task
  IN /\ run[r].pc = "write_local"
     /\ local' = [local EXCEPT
          ![r].series = IF HasSeries(t) THEN run[r].id ELSE None,
          ![r].marker = Produced(r)]
     /\ Goes(r, IF HasSeries(t) THEN "put_series" ELSE "put_marker")
     /\ UNCHANGED <<store, dispatched>>

(***************************************************************************)
(* A workload's two files, its own or the restored ones, are written one   *)
(* after the other, the series first.  No other attempt sees the output    *)
(* directory, so it only tells when the attempt ends in between.           *)
(***************************************************************************)
WritesSeries(r) ==
  LET t == run[r].task
  IN IF run[r].pc = "write_local" THEN {run[r].id}
     ELSE IF run[r].pc = "resume" /\ store[t].marker # None /\ ResumeRefused(r) = None
     THEN {store[t].series}
     ELSE {}

HalfWritten(r) ==
  /\ HasSeries(run[r].task)
  /\ \E id \in WritesSeries(r) :
       LET files == [local[r] EXCEPT !.series = id]
       IN \/ FailsWith(r, "request", files)
          \/ Goes(r, "killed") /\ local' = [local EXCEPT ![r] = files]
  /\ UNCHANGED <<store, dispatched>>

(***************************************************************************)
(* A create-only PUT.  If its answer is lost the client sends it again and *)
(* finds the object there; one with the same contents is as good as ours.  *)
(***************************************************************************)
Creates(r, file, contents, next) ==
  LET t == run[r].task
  IN IF store[t][file] = None
     THEN /\ store' = [store EXCEPT ![t][file] = contents]
          /\ Goes(r, next) \/ UNCHANGED run
          /\ UNCHANGED local
     ELSE /\ IF store[t][file] = contents
             THEN Goes(r, next) /\ UNCHANGED local
             ELSE Fails(r, "leftover")
          /\ UNCHANGED store

PutSeries(r) ==
  /\ run[r].pc = "put_series"
  /\ Creates(r, "series", run[r].id, "put_marker")
  /\ UNCHANGED dispatched

PutMarker(r) ==
  /\ run[r].pc = "put_marker"
  /\ Creates(r, "marker", Produced(r), "ok")
  /\ UNCHANGED dispatched

(* Any request, the measured work or a validation may fail the attempt. *)
StepFails(r) ==
  /\ Live(r) /\ Fails(r, "request") /\ UNCHANGED <<store, dispatched>>

Killed(r) ==
  /\ Live(r) /\ Goes(r, "killed") /\ UNCHANGED <<store, local, dispatched>>

(* cleanup_session, which the workflow runs after the results are published. *)
CleanupAll(w) ==
  /\ \A r \in Runners : Live(r) => run[r].task \notin Workloads
  /\ store' = [store EXCEPT ![w] = [db |-> None, series |-> None, marker |-> None]]
  /\ UNCHANGED <<local, run, dispatched>>
Cleanup(w) ==
  /\ \A r \in Runners : Live(r) => run[r].task \notin Workloads
  /\ store' = [store EXCEPT ![w].db = None]
  /\ UNCHANGED <<local, run, dispatched>>

Next ==
  \/ \E r \in Runners :
       \/ Dispatch(r) \/ LoadSource(r) \/ Resume(r) \/ DeletePrefix(r)
       \/ OpenDatabase(r) \/ Measure(r) \/ Checkpoint(r) \/ WriteLocal(r)
       \/ PutSeries(r) \/ PutMarker(r)
       \/ StepFails(r) \/ HalfWritten(r) \/ Killed(r)
  \/ \E w \in Workloads : Cleanup(w)

Spec == Init /\ [][Next]_vars
-----------------------------------------------------------------------------
(* Every variable has its type; a bulk manifest records the settings of the *)
(* load and not those it was configured with.                               *)
Artifacts(t) ==
  [by : Attempts, from : Attempts \union {None},
   config : IF t = "bulk-load" THEN {[c EXCEPT !.lsm = "bulk"] : c \in Configs} ELSE Configs]

TypeOK ==
  /\ \A t \in Tasks :
       /\ store[t].db \in Database \union {None}
       /\ store[t].series \in Attempts \union {None}
       /\ store[t].marker \in Artifacts(t) \union {None}
  /\ dispatched \in 0 .. MaxAttempts
  /\ \A r \in Runners :
       /\ local[r].series \in Attempts \union {None}
       /\ local[r].failure \in Attempts \union {None}
       /\ run[r] # Idle =>
            /\ run[r].task \in Tasks /\ run[r].id \in 1 .. dispatched
            /\ run[r].config \in Configs /\ run[r].source \in Attempts \union {None}
            /\ run[r].cause \in Causes \union {None}
            /\ local[r].marker \in Artifacts(run[r].task) \union {None}

(* result.json is a completion marker: whoever reads it finds the series it *)
(* names, from the same attempt, and not the one an earlier attempt left.   *)
CompletionMarker ==
  \A w \in Workloads : store[w].marker # None => store[w].series = store[w].marker.by

(* A golden manifest can be used whenever it is read: the database of the   *)
(* attempt that published it is there, its work was complete, it has its    *)
(* checkpoint, and so has the database it is a shallow clone of.            *)
GoldenBacked ==
  \A t \in Phases : store[t].marker # None =>
    /\ store[t].db # None
    /\ store[t].db.by = store[t].marker.by /\ store[t].db.from = store[t].marker.from
    /\ store[t].db.complete /\ store[t].db.checkpoint
    /\ Needs(t) # None => /\ store[Needs(t)].db # None
                          /\ store[Needs(t)].db.by = store[t].db.from

(* Results compare like with like: a workload was measured on data of the   *)
(* dataset it is configured with, compacted by the SlateDB that loaded it.  *)
SameData ==
  \A t \in Tasks : store[t].marker # None /\ Needs(t) # None =>
    /\ store[Needs(t)].marker # None
    /\ store[Needs(t)].marker.config.data = store[t].marker.config.data
    /\ t = "compaction" =>
         store[Needs(t)].marker.config.slate = store[t].marker.config.slate

(* An attempt that reports success answers what it was asked: whether it    *)
(* measured or skipped, what is published is of its commits and dataset.    *)
AnswersItsOwn ==
  \A r \in Runners : run[r].pc = "ok" =>
    LET asked == run[r].config
        answer == store[run[r].task].marker.config
    IN /\ answer.slate = asked.slate /\ answer.data = asked.data
       /\ HasSeries(run[r].task) => answer.runner = asked.runner

(* An attempt that reports success leaves what is published in its output   *)
(* directory and no diagnostic; one that fails leaves nobody else's result, *)
(* and however an attempt ends, its result.json lies beside its series.     *)
LocalAgrees ==
  \A r \in Runners :
    /\ run[r].pc = "ok" =>
         local[r] = [series |-> store[run[r].task].series,
                     marker |-> store[run[r].task].marker, failure |-> None]
    /\ run[r].pc = "failed" =>
         /\ local[r].failure \in {None, run[r].id}
         /\ local[r].marker # None => local[r].marker = Produced(r)
    /\ run[r] # Idle /\ HasSeries(run[r].task) /\ local[r].marker # None =>
         local[r].series = local[r].marker.by

(* However earlier attempts ended, what they left in the store never makes  *)
(* a later one fail: a retry needs no operator to clean up first.           *)
NeverStuck == \A r \in Runners : run[r].cause # "leftover"

(* Seen from outside, each task publishes once and for all.                 *)
Published ==
  [t \in Tasks |->
     IF store[t].marker # None /\ (HasSeries(t) => store[t].series = store[t].marker.by)
     THEN [by |-> store[t].marker.by, from |-> store[t].marker.from]
     ELSE None]
Abstract == INSTANCE Ledger WITH published <- Published, Nothing <- None
ImplementsLedger == Abstract!Spec
=============================================================================
