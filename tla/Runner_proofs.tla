--------------------------- MODULE Runner_proofs ---------------------------
(***************************************************************************)
(* The inductive invariant of Runner and its proof: for any machines,      *)
(* workloads, configurations and number of attempts, what the object store *)
(* holds can be relied on, and what an attempt leaves never stops a later  *)
(* one.                                                                    *)
(*                                                                         *)
(* An attempt relies on its own cell of the store, which no other attempt  *)
(* touches (Exclusive), and on the cell it starts from, which is frozen    *)
(* because it has its marker.  So the invariant is a conjunction over the  *)
(* cells and over the attempts, and a step is checked against one of each. *)
(***************************************************************************)
EXTENDS Runner, TLAPS

Pcs == {"idle", "source", "resume", "delete", "open", "measure", "checkpoint",
        "write_local", "put_series", "put_marker", "ok", "failed", "killed"}

Cell == [db : Database \union {None}, series : Attempts \union {None},
         marker : Marker \union {None}]

Output == [series : Attempts \union {None}, marker : Marker \union {None},
           failure : Attempts \union {None}]

Attempt == [pc : Pcs, task : Tasks \union {None}, id : Attempts \union {None},
            config : Configs \union {None}, source : Attempts \union {None},
            cause : Causes \union {None}]

Typed ==
  /\ store \in [Tasks -> Cell]
  /\ local \in [Runners -> Output]
  /\ run \in [Runners -> Attempt]
  /\ dispatched \in 0 .. MaxAttempts

(* Where an attempt stands. *)
Cleaned == {"open", "measure", "checkpoint", "write_local"}
Working == {"delete", "put_series"} \union Cleaned
Sourced == {"resume", "put_marker"} \union Working

(* Two live attempts are at different tasks. *)
Exclusive == \A q, r \in Runners :
  Live(q) /\ Live(r) /\ run[q].task = run[r].task => q = r

(* What an artifact of t on data of the given configuration starts from. *)
Based(t, from, config) ==
  LET golden == store[Needs(t)].marker
  IN IF Needs(t) = None THEN from = None
     ELSE /\ golden # None /\ from = golden.by
          /\ golden.config.data = config.data
          /\ t = "compaction" => golden.config.slate = config.slate

(* A published task. *)
Kept(t) ==
  LET marker == store[t].marker
      db == store[t].db
  IN /\ marker \in Artifacts(t)
     /\ HasSeries(t) => store[t].series = marker.by
     /\ Based(t, marker.from, marker.config)
     /\ t \in Phases =>
          /\ db # None /\ db.by = marker.by /\ db.from = marker.from
          /\ db.complete /\ db.checkpoint

TaskInv(t) == /\ t \in Phases => store[t].series = None
              /\ store[t].marker # None => Kept(t)

(* The attempt of a runner, and what it was given. *)
Given(r) == run[r].pc # "idle" =>
  /\ run[r].task \in Tasks /\ run[r].config \in Configs
  /\ run[r].id \in Attempts /\ run[r].id <= dispatched

Source(r) ==
  /\ run[r].pc = "source" => Needs(run[r].task) # None
  /\ run[r].pc \in Sourced => Based(run[r].task, run[r].source, run[r].config)

(* Its own cell: what it found, and what it made of it. *)
Objects(r) ==
  LET cell == store[run[r].task]
      pc == run[r].pc
  IN /\ pc \in Working => cell.marker = None
     /\ pc \in Cleaned => cell.series = None
     /\ pc = "open" => cell.db = None
     /\ pc = "put_series" => /\ HasSeries(run[r].task)
                             /\ cell.series \in {None, run[r].id}
     /\ pc = "put_marker" => /\ cell.marker \in {None, Produced(r)}
                             /\ HasSeries(run[r].task) => cell.series = run[r].id

Golden(r) ==
  LET db == store[run[r].task].db
      pc == run[r].pc
  IN run[r].task \in Phases =>
       /\ pc \in {"measure", "checkpoint", "write_local", "put_marker"} =>
            db # None /\ db.by = run[r].id /\ db.from = run[r].source
       /\ pc \in {"checkpoint", "write_local", "put_marker"} => db.complete
       /\ pc \in {"write_local", "put_marker"} => db.checkpoint

(* Its output directory. *)
Written(r) == [series |-> IF HasSeries(run[r].task) THEN run[r].id ELSE None,
               marker |-> Produced(r), failure |-> None]

Answered(r) ==
  LET cell == store[run[r].task]
      asked == run[r].config
      answer == cell.marker.config
  IN /\ cell.marker # None
     /\ local[r] = [series |-> cell.series, marker |-> cell.marker, failure |-> None]
     /\ answer.slate = asked.slate /\ answer.data = asked.data
     /\ HasSeries(run[r].task) => answer.runner = asked.runner

Directory(r) ==
  LET pc == run[r].pc
  IN /\ pc \in {"source", "resume", "delete"} \union Cleaned => local[r] = Empty
     /\ pc \in {"put_series", "put_marker"} => local[r] = Written(r)
     /\ pc = "ok" => Answered(r)
     /\ pc = "failed" => /\ local[r].failure \in {None, run[r].id}
                         /\ local[r].marker \in {None, Produced(r)}

Holds(r) ==
  /\ run[r].pc = "idle" => run[r] = Idle
  /\ run[r].pc # "idle" =>
       /\ local[r].marker \in Artifacts(run[r].task) \union {None}
       /\ local[r].marker # None /\ HasSeries(run[r].task) =>
            local[r].series = local[r].marker.by

Unstuck(r) == run[r].cause # "leftover"

RunInv(r) == /\ Given(r) /\ Source(r) /\ Objects(r) /\ Golden(r)
             /\ Directory(r) /\ Holds(r) /\ Unstuck(r)

IInv == /\ Typed /\ Exclusive
        /\ \A t \in Tasks : TaskInv(t)
        /\ \A r \in Runners : RunInv(r)

-----------------------------------------------------------------------------
(* The chain of tasks, and what a manifest records of a configuration. *)
USE RunnerAssumption, NoneAssumption DEF Tasks, Phases

LEMMA NeedsValues ==
  ASSUME NEW t \in Tasks
  PROVE  /\ Needs(t) # None => Needs(t) \in Phases /\ Needs(t) # t
         /\ HasSeries(t) <=> t \notin Phases
         /\ t = "bulk-load" => Needs(t) = None
         /\ t = "compaction" => Needs(t) = "bulk-load"
<1>1. CASE t = "bulk-load"
  BY <1>1 DEF Needs, HasSeries
<1>2. CASE t = "compaction"
  BY <1>2 DEF Needs, HasSeries
<1>3. CASE t \in Workloads
  BY <1>3 DEF Needs, HasSeries
<1> QED
  BY <1>1, <1>2, <1>3

LEMMA RecordedFacts ==
  ASSUME NEW t \in Tasks, NEW c \in Configs
  PROVE  /\ Recorded(t, c) \in RecordedConfigs
         /\ Recorded(t, c).runner = c.runner
         /\ Recorded(t, c).slate = c.slate
         /\ Recorded(t, c).data = c.data
<1>1. c = [runner |-> c.runner, slate |-> c.slate, data |-> c.data, lsm |-> c.lsm]
  OBVIOUS
<1>2. Recorded(t, c) \in RecordedConfigs
  BY DEF RecordedConfigs
<1> QED
  BY <1>1, <1>2 DEF Recorded

LEMMA ProducedFacts ==
  ASSUME NEW r \in Runners, run[r].task \in Tasks, run[r].config \in Configs,
         run[r].id \in Attempts, run[r].source \in Attempts \union {None}
  PROVE  /\ Produced(r) \in Marker /\ Produced(r) \in Artifacts(run[r].task)
         /\ Produced(r).by = run[r].id /\ Produced(r).from = run[r].source
         /\ Produced(r).config = Recorded(run[r].task, run[r].config)
<1>1. Produced(r) \in Marker
  BY RecordedFacts DEF Produced, Marker
<1>2. Produced(r) \in Artifacts(run[r].task)
  BY DEF Produced, Artifacts, Recorded
<1> QED
  BY <1>1, <1>2 DEF Produced

(* What an artifact that is accepted as an answer has in common with what *)
(* was asked.                                                             *)
LEMMA MatchesFacts ==
  ASSUME NEW t \in Tasks, NEW c \in Configs, NEW existing \in RecordedConfigs,
         Matches(t, existing, c)
  PROVE  /\ existing.slate = c.slate /\ existing.data = c.data
         /\ HasSeries(t) => existing.runner = c.runner
<1>1. PICK u \in Tasks, d \in Configs : existing = Recorded(u, d)
  BY DEF RecordedConfigs
<1>2. d = [runner |-> d.runner, slate |-> d.slate, data |-> d.data, lsm |-> d.lsm]
  OBVIOUS
<1>3. /\ [existing EXCEPT !.runner = c.runner].slate = existing.slate
      /\ [existing EXCEPT !.runner = c.runner].data = existing.data
  BY <1>1, <1>2 DEF Recorded
<1>4. CASE t \in Phases
  <2>1. [existing EXCEPT !.runner = c.runner] = Recorded(t, c)
    BY <1>4 DEF Matches
  <2>2. Recorded(t, c).slate = existing.slate /\ Recorded(t, c).data = existing.data
    BY <1>3, <2>1, Zenon
  <2> QED
    BY <1>4, <2>2, RecordedFacts, NeedsValues
<1>5. CASE t \notin Phases
  BY <1>5 DEF Matches
<1> QED
  BY <1>4, <1>5

-----------------------------------------------------------------------------
(* What the actions' building blocks change. *)

LEMMA GoesFacts ==
  ASSUME run \in [Runners -> Attempt], NEW r \in Runners, NEW p \in Pcs, Goes(r, p)
  PROVE  /\ run' \in [Runners -> Attempt]
         /\ \A q \in Runners : q # r => run'[q] = run[q]
         /\ run'[r].pc = p /\ run'[r].task = run[r].task /\ run'[r].id = run[r].id
         /\ run'[r].config = run[r].config /\ run'[r].source = run[r].source
         /\ run'[r].cause = run[r].cause
BY DEF Goes, Attempt

LEMMA FailsFacts ==
  ASSUME Typed, NEW r \in Runners, NEW cause \in Causes, NEW files \in Output,
         FailsWith(r, cause, files), Given(r), run[r].pc # "idle"
  PROVE  /\ run' \in [Runners -> Attempt] /\ local' \in [Runners -> Output]
         /\ \A q \in Runners : q # r => run'[q] = run[q] /\ local'[q] = local[q]
         /\ run'[r].pc = "failed" /\ run'[r].task = run[r].task /\ run'[r].id = run[r].id
         /\ run'[r].config = run[r].config /\ run'[r].source = run[r].source
         /\ run'[r].cause = cause
         /\ local'[r].failure \in {None, run[r].id}
         /\ local'[r].series = files.series /\ local'[r].marker = files.marker
<1>1. run' = [run EXCEPT ![r].pc = "failed", ![r].cause = cause]
  BY DEF FailsWith
<1>2. PICK diagnostic \in {None, run[r].id} :
        local' = [local EXCEPT ![r] = [files EXCEPT !.failure = diagnostic]]
  BY DEF FailsWith
<1>3. run \in [Runners -> Attempt] /\ local \in [Runners -> Output]
  BY DEF Typed
<1>4. run[r].id \in Attempts
  BY DEF Given
<1>5. /\ run' \in [Runners -> Attempt]
      /\ \A q \in Runners : q # r => run'[q] = run[q]
      /\ run'[r].pc = "failed" /\ run'[r].task = run[r].task /\ run'[r].id = run[r].id
      /\ run'[r].config = run[r].config /\ run'[r].source = run[r].source
      /\ run'[r].cause = cause
  <2>1. "failed" \in Pcs
    BY DEF Pcs
  <2>2. PICK x \in Attempt : x = run[r]
    BY <1>3
  <2>3. PICK y \in Attempt :
          /\ y.pc = "failed" /\ y.task = x.task /\ y.id = x.id
          /\ y.config = x.config /\ y.source = x.source /\ y.cause = x.cause
          /\ y = [x EXCEPT !.pc = "failed"]
    BY <2>1 DEF Attempt
  <2>4. PICK z \in Attempt :
          /\ z.pc = "failed" /\ z.task = x.task /\ z.id = x.id
          /\ z.config = x.config /\ z.source = x.source /\ z.cause = cause
          /\ z = [y EXCEPT !.cause = cause]
    <3>1. y.pc = "failed" /\ y.task = x.task /\ y.id = x.id
          /\ y.config = x.config /\ y.source = x.source
      BY <2>3
    <3> HIDE <2>3
    <3> QED
      BY <3>1 DEF Attempt
  <2>5. run' = [run EXCEPT ![r] = z]
    BY <1>1, <2>2, <2>3, <2>4
  <2> HIDE DEF Attempt
  <2> QED
    BY <1>3, <2>2, <2>4, <2>5
<1>6. /\ local' \in [Runners -> Output]
      /\ \A q \in Runners : q # r => local'[q] = local[q]
      /\ local'[r].failure \in {None, run[r].id}
      /\ local'[r].series = files.series /\ local'[r].marker = files.marker
  BY <1>2, <1>3, <1>4 DEF Output
<1> QED
  BY <1>5, <1>6

-----------------------------------------------------------------------------
(* A step of the attempt of r touches its own directory and its own cell of *)
(* the store, and that only as long as the cell has no marker.              *)
Continues(r) ==
  /\ Live(r)
  /\ run'[r].task = run[r].task /\ run'[r].id = run[r].id
  /\ run'[r].config = run[r].config
  /\ \A q \in Runners : q # r => run'[q] = run[q] /\ local'[q] = local[q]
  /\ dispatched' = dispatched
  /\ \A u \in Tasks : u # run[r].task => store'[u] = store[u]
  /\ store[run[r].task].marker # None => store'[run[r].task] = store[run[r].task]

(* What a task is based on stays, because it has its marker. *)
LEMMA BasedKept ==
  ASSUME NEW t \in Tasks, NEW from, NEW config, Based(t, from, config),
         \A u \in Tasks : store[u].marker # None => store'[u] = store[u]
  PROVE  Based(t, from, config)'
BY NeedsValues DEF Based

(* The part of the invariant that is about another attempt. *)
LEMMA OtherAttempt ==
  ASSUME IInv, NEW q \in Runners, run'[q] = run[q], local'[q] = local[q],
         dispatched \in Nat, dispatched' \in Nat, dispatched <= dispatched',
         \A u \in Tasks : store[u].marker # None => store'[u] = store[u],
         Live(q) => store'[run[q].task] = store[run[q].task]
  PROVE  RunInv(q)'
<1>1. RunInv(q)
  BY DEF IInv
<1>2. CASE run[q].pc = "idle"
  BY <1>1, <1>2 DEF RunInv, Given, Source, Objects, Golden, Directory, Holds, Unstuck,
                    Sourced, Working, Cleaned
<1>3. CASE run[q].pc # "idle"
  <2>1. run[q].task \in Tasks
    BY <1>1, <1>3 DEF RunInv, Given
  <2>2. Given(q)'
    BY <1>1, <1>3 DEF RunInv, Given, Attempts
  <2>3. Source(q)'
    BY <1>1, <2>1, BasedKept DEF RunInv, Source
  <2>4. Objects(q)' /\ Golden(q)'
    <3>1. CASE Live(q)
      BY <1>1, <3>1 DEF RunInv, Objects, Golden, Produced
    <3>2. CASE ~Live(q)
      BY <3>2 DEF Live, Ended, Objects, Golden, Working, Cleaned
    <3> QED
      BY <3>1, <3>2
  <2>5. Directory(q)'
    BY <1>1, <2>1 DEF RunInv, Directory, Answered, Produced, Written
  <2>6. Holds(q)' /\ Unstuck(q)'
    BY <1>1 DEF RunInv, Holds, Unstuck
  <2> QED
    BY <2>2, <2>3, <2>4, <2>5, <2>6 DEF RunInv
<1> QED
  BY <1>2, <1>3

LEMMA Frame ==
  ASSUME IInv, NEW r \in Runners, Continues(r),
         NEW t \in Tasks, t = run[r].task,
         Typed', TaskInv(t)', RunInv(r)'
  PROVE  IInv'
<1>1. run[r].task \in Tasks /\ run[r].pc # "idle"
  BY DEF IInv, RunInv, Given, Continues, Live
<1>2. \A u \in Tasks : store[u].marker # None => store'[u] = store[u]
  BY <1>1 DEF Continues
<1>3. Exclusive'
  <2>1. \A q \in Runners : Live(q)' => Live(q) /\ run'[q].task = run[q].task
    BY DEF Continues, Live
  <2> QED
    BY <2>1 DEF IInv, Exclusive
<1>4. ASSUME NEW u \in Tasks PROVE TaskInv(u)'
  <2>1. CASE u = t
    BY <2>1
  <2>2. CASE u # t
    <3>1. store'[u] = store[u]
      BY <2>2 DEF Continues
    <3>2. TaskInv(u)
      BY DEF IInv
    <3>3. ASSUME store[u].marker # None PROVE Kept(u)'
      <4>1. Kept(u)
        BY <3>2, <3>3 DEF TaskInv
      <4>2. Based(u, store[u].marker.from, store[u].marker.config)
        BY <4>1 DEF Kept
      <4>3. Based(u, store[u].marker.from, store[u].marker.config)'
        BY <1>2, <3>1, <4>2, BasedKept
      <4> QED
        BY <3>1, <4>1, <4>3 DEF Kept
    <3> QED
      BY <3>1, <3>2, <3>3 DEF TaskInv
  <2> QED
    BY <2>1, <2>2
<1>5. ASSUME NEW q \in Runners PROVE RunInv(q)'
  <2>1. CASE q = r
    BY <2>1
  <2>2. CASE q # r
    <3>1. run'[q] = run[q] /\ local'[q] = local[q] /\ dispatched' = dispatched
      BY <2>2 DEF Continues
    <3>2. Live(q) => run[q].task # run[r].task /\ run[q].task \in Tasks
      BY <2>2 DEF IInv, Exclusive, Continues, RunInv, Given, Live
    <3>3. Live(q) => store'[run[q].task] = store[run[q].task]
      BY <3>2 DEF Continues
    <3>4. dispatched \in Nat
      BY DEF IInv, Typed
    <3> QED
      BY <1>2, <3>1, <3>3, <3>4, OtherAttempt
  <2> QED
    BY <2>1, <2>2
<1> QED
  BY <1>3, <1>4, <1>5 DEF IInv

-----------------------------------------------------------------------------
(* What is known of an attempt that is under way. *)
LEMMA LiveFacts ==
  ASSUME IInv, NEW r \in Runners, Live(r)
  PROVE  /\ run[r] \in Attempt /\ local[r] \in Output
         /\ run[r].pc \notin {"idle", "ok", "failed", "killed"}
         /\ run[r].task \in Tasks /\ run[r].config \in Configs
         /\ run[r].id \in Attempts /\ run[r].id <= dispatched
         /\ run[r].source \in Attempts \union {None}
         /\ store[run[r].task] \in Cell /\ TaskInv(run[r].task)
         /\ Typed /\ dispatched \in Nat /\ RunInv(r)
         /\ local[r] \in {Empty, Written(r)}
         /\ local[r].marker \in Artifacts(run[r].task) \union {None}
<1>1. RunInv(r) /\ Typed
  BY DEF IInv
<1>2. run[r].pc \notin {"idle", "ok", "failed", "killed"}
  BY DEF Live, Ended
<1>3. run[r] \in Attempt /\ local[r] \in Output
  BY <1>1 DEF Typed
<1>4. /\ run[r].task \in Tasks /\ run[r].config \in Configs
      /\ run[r].id \in Attempts /\ run[r].id <= dispatched
  BY <1>1, <1>2 DEF RunInv, Given
<1>5. run[r].source \in Attempts \union {None}
  BY <1>3 DEF Attempt
<1>6. store[run[r].task] \in Cell /\ TaskInv(run[r].task)
  BY <1>4 DEF IInv, Typed
<1>7. local[r] \in {Empty, Written(r)}
  BY <1>1, <1>2, <1>3 DEF RunInv, Directory, Attempt, Pcs, Cleaned
<1>8. dispatched \in Nat
  BY <1>1 DEF Typed
<1>9. local[r].marker \in Artifacts(run[r].task) \union {None}
  BY <1>1, <1>2 DEF RunInv, Holds
<1> QED
  BY <1>1, <1>2, <1>3, <1>4, <1>5, <1>6, <1>7, <1>8, <1>9

LEMMA StoreKept ==
  ASSUME NEW t \in Tasks, TaskInv(t), store' = store
  PROVE  TaskInv(t)'
BY DEF TaskInv, Kept, Based

(* An attempt that ends with a part of its files. *)
LEMMA EndedInv ==
  ASSUME IInv, NEW r \in Runners, Live(r), Given(r)', NEW p \in {"failed", "killed"},
         UNCHANGED <<store, dispatched>>,
         run' \in [Runners -> Attempt], local' \in [Runners -> Output],
         \A q \in Runners : q # r => run'[q] = run[q] /\ local'[q] = local[q],
         run'[r].pc = p, run'[r].task = run[r].task, run'[r].id = run[r].id,
         run'[r].config = run[r].config, run'[r].source = run[r].source,
         run'[r].cause # "leftover",
         p = "failed" => local'[r].failure \in {None, run[r].id},
         \/ local'[r].marker = None
         \/ local'[r].marker = local[r].marker /\ local'[r].series = local[r].series
  PROVE  IInv'
<1>1. PICK t \in Tasks : t = run[r].task
  BY LiveFacts
<1>2. Typed'
  BY LiveFacts DEF Typed
<1>3. Continues(r)
  BY DEF Continues
<1>4. TaskInv(t)'
  BY StoreKept, LiveFacts, <1>1
<1>5. Source(r)' /\ Objects(r)' /\ Golden(r)'
  BY DEF Source, Objects, Golden, Sourced, Working, Cleaned
<1>6. Directory(r)'
  <2>1. local[r].marker \in {None, Produced(r)}
    BY LiveFacts DEF Empty, Written
  <2>2. Produced(r)' = Produced(r)
    BY DEF Produced
  <2>3. p = "failed" => local'[r].failure \in {None, run'[r].id}
    OBVIOUS
  <2> QED
    BY <2>1, <2>2, <2>3 DEF Directory, Cleaned
<1>7. Holds(r)'
  BY LiveFacts DEF Holds, RunInv
<1> QED
  BY <1>1, <1>2, <1>3, <1>4, <1>5, <1>6, <1>7, Frame DEF RunInv, Unstuck

(* An attempt that fails for a reason of its own. *)
LEMMA FailsInv ==
  ASSUME IInv, NEW r \in Runners, Live(r), NEW cause \in Causes \ {"leftover"},
         Fails(r, cause), UNCHANGED <<store, dispatched>>
  PROVE  IInv'
<1>1. FailsWith(r, cause, local[r])
  BY DEF Fails
<1>2. /\ run' \in [Runners -> Attempt] /\ local' \in [Runners -> Output]
      /\ \A q \in Runners : q # r => run'[q] = run[q] /\ local'[q] = local[q]
      /\ run'[r].pc = "failed" /\ run'[r].task = run[r].task /\ run'[r].id = run[r].id
      /\ run'[r].config = run[r].config /\ run'[r].source = run[r].source
      /\ run'[r].cause = cause
      /\ local'[r].failure \in {None, run[r].id}
      /\ local'[r].series = local[r].series /\ local'[r].marker = local[r].marker
  BY <1>1, FailsFacts, LiveFacts DEF RunInv
<1>3. Given(r)'
  BY <1>2, LiveFacts DEF Given
<1> QED
  BY <1>2, <1>3, EndedInv

(* An attempt that goes on without touching the store or its directory. *)
LEMMA GoesKept ==
  ASSUME IInv, NEW r \in Runners, Live(r), NEW p \in Pcs, Goes(r, p),
         UNCHANGED <<store, local, dispatched>>,
         Objects(r)', Golden(r)', Directory(r)',
         p # "idle", p = "source" => run[r].pc = "source",
         p \in Sourced => run[r].pc \in Sourced
  PROVE  IInv'
<1>1. PICK t \in Tasks : t = run[r].task
  BY LiveFacts
<1>2. /\ run' \in [Runners -> Attempt]
      /\ \A q \in Runners : q # r => run'[q] = run[q]
      /\ run'[r].pc = p /\ run'[r].task = run[r].task /\ run'[r].id = run[r].id
      /\ run'[r].config = run[r].config /\ run'[r].source = run[r].source
      /\ run'[r].cause = run[r].cause
  BY GoesFacts, LiveFacts DEF Typed
<1>3. Typed'
  BY <1>2, LiveFacts DEF Typed
<1>4. Continues(r)
  BY <1>2 DEF Continues
<1>5. TaskInv(t)'
  BY StoreKept, LiveFacts, <1>1
<1>6. Given(r)'
  BY <1>2, LiveFacts DEF Given
<1>7. Source(r)'
  BY <1>2, LiveFacts DEF Source, RunInv, Based
<1>8. Holds(r)' /\ Unstuck(r)'
  BY <1>2, LiveFacts DEF Holds, Unstuck, RunInv
<1> QED
  BY <1>1, <1>3, <1>4, <1>5, <1>6, <1>7, <1>8, Frame DEF RunInv

-----------------------------------------------------------------------------
(* The steps that leave the store alone. *)

LEMMA KilledInv ==
  ASSUME IInv, NEW r \in Runners, Killed(r)
  PROVE  IInv'
<1>1. run'[r].pc = "killed"
  BY GoesFacts, LiveFacts DEF Killed, Typed, Pcs
<1>2. Objects(r)' /\ Golden(r)' /\ Directory(r)'
  BY <1>1 DEF Objects, Golden, Directory, Working, Cleaned
<1> QED
  BY <1>2, GoesKept DEF Killed, Pcs, Sourced, Working, Cleaned

LEMMA StepFailsInv ==
  ASSUME IInv, NEW r \in Runners, StepFails(r)
  PROVE  IInv'
BY FailsInv DEF StepFails, Causes

(* The first of the two files is written and the second is not. *)
LEMMA HalfWrittenInv ==
  ASSUME IInv, NEW r \in Runners, HalfWritten(r)
  PROVE  IInv'
<1>1. PICK id \in WritesSeries(r) :
        \/ FailsWith(r, "request", [local[r] EXCEPT !.series = id])
        \/ /\ Goes(r, "killed")
           /\ local' = [local EXCEPT ![r] = [local[r] EXCEPT !.series = id]]
  BY DEF HalfWritten
<1>2. UNCHANGED <<store, dispatched>>
  BY DEF HalfWritten
<1>3. run[r].pc \in {"write_local", "resume"} /\ Live(r)
  BY <1>1 DEF WritesSeries, Live, Ended
<1>4. local[r] = Empty
  BY <1>3, LiveFacts DEF RunInv, Directory, Cleaned
<1>5. id \in Attempts \union {None}
  BY <1>1, <1>3, LiveFacts DEF WritesSeries, Cell
<1> DEFINE files == [local[r] EXCEPT !.series = id]
<1>6. files \in Output /\ files.marker = None
  BY <1>4, <1>5 DEF Empty, Output
<1>7. CASE FailsWith(r, "request", files)
  <2>1. /\ run' \in [Runners -> Attempt] /\ local' \in [Runners -> Output]
        /\ \A q \in Runners : q # r => run'[q] = run[q] /\ local'[q] = local[q]
        /\ run'[r].pc = "failed" /\ run'[r].task = run[r].task /\ run'[r].id = run[r].id
        /\ run'[r].config = run[r].config /\ run'[r].source = run[r].source
        /\ run'[r].cause = "request"
        /\ local'[r].failure \in {None, run[r].id} /\ local'[r].marker = None
    <3> HIDE DEF files
    <3> QED
      BY <1>3, <1>6, <1>7, FailsFacts, LiveFacts DEF RunInv, Causes
  <2>2. Given(r)'
    BY <1>2, <1>3, <2>1, LiveFacts DEF Given
  <2> QED
    BY <1>2, <1>3, <2>1, <2>2, EndedInv
<1>8. CASE Goes(r, "killed") /\ local' = [local EXCEPT ![r] = files]
  <2>1. /\ run' \in [Runners -> Attempt]
        /\ \A q \in Runners : q # r => run'[q] = run[q]
        /\ run'[r].pc = "killed" /\ run'[r].task = run[r].task /\ run'[r].id = run[r].id
        /\ run'[r].config = run[r].config /\ run'[r].source = run[r].source
        /\ run'[r].cause = run[r].cause
    BY <1>3, <1>8, GoesFacts, LiveFacts DEF Typed, Pcs
  <2>2. /\ local' \in [Runners -> Output]
        /\ \A q \in Runners : q # r => local'[q] = local[q]
        /\ local'[r].marker = None
    <3> HIDE DEF files
    <3> QED
      BY <1>3, <1>6, <1>8, LiveFacts DEF Typed
  <2>3. Given(r)' /\ run'[r].cause # "leftover"
    BY <1>2, <1>3, <2>1, LiveFacts DEF Given, RunInv, Unstuck
  <2> QED
    BY <1>2, <1>3, <2>1, <2>2, <2>3, EndedInv
<1> QED
  BY <1>1, <1>7, <1>8

LEMMA LoadSourceInv ==
  ASSUME IInv, NEW r \in Runners, LoadSource(r)
  PROVE  IInv'
<1> DEFINE cause == SourceRefused(run[r].task, run[r].config)
<1>1. run[r].pc = "source" /\ Live(r)
  BY DEF LoadSource, Live, Ended
<1>2. PICK t \in Tasks : t = run[r].task
  BY <1>1, LiveFacts
<1>3. Needs(t) # None /\ Needs(t) \in Tasks /\ TaskInv(Needs(t)) /\ Needs(t) \in Phases
  BY <1>1, <1>2, LiveFacts, NeedsValues DEF RunInv, Source, IInv
<1>4. cause \in (Causes \ {"leftover"}) \union {None}
  <2>1. store[Needs(t)].marker # None => Verified(Needs(t), store[Needs(t)].marker)
    BY <1>3 DEF TaskInv, Kept, Verified
  <2> QED
    BY <1>2, <2>1 DEF SourceRefused, Causes
<1>5. CASE cause # None
  BY <1>1, <1>4, <1>5, FailsInv DEF LoadSource
<1>6. CASE cause = None
  <2> DEFINE golden == store[Needs(t)].marker
  <2>1. golden # None /\ Shares(t, golden.config, run[r].config)
    BY <1>2, <1>6 DEF SourceRefused, Causes
  <2>2. run' = [run EXCEPT ![r].pc = "resume", ![r].source = golden.by]
        /\ UNCHANGED <<store, local, dispatched>>
    BY <1>2, <1>6 DEF LoadSource
  <2>3. golden.by \in Attempts
    BY <1>3, <2>1, LiveFacts, <1>1 DEF Typed, Cell, Marker
  <2>4. /\ run' \in [Runners -> Attempt]
        /\ \A q \in Runners : q # r => run'[q] = run[q]
        /\ run'[r].pc = "resume" /\ run'[r].task = t /\ run'[r].id = run[r].id
        /\ run'[r].config = run[r].config /\ run'[r].source = golden.by
        /\ run'[r].cause = run[r].cause
    <3>1. "resume" \in Pcs /\ run \in [Runners -> Attempt] /\ t = run[r].task
      BY <1>1, <1>2, LiveFacts DEF Typed, Pcs
    <3>2. PICK x \in Attempt : x = run[r]
      BY <3>1
    <3>3. PICK y \in Attempt :
            /\ y.pc = "resume" /\ y.task = x.task /\ y.id = x.id
            /\ y.config = x.config /\ y.source = x.source /\ y.cause = x.cause
            /\ y = [x EXCEPT !.pc = "resume"]
      BY <3>1 DEF Attempt
    <3>4. PICK z \in Attempt :
            /\ z.pc = "resume" /\ z.task = x.task /\ z.id = x.id
            /\ z.config = x.config /\ z.source = golden.by /\ z.cause = x.cause
            /\ z = [y EXCEPT !.source = golden.by]
      <4>1. y.pc = "resume" /\ y.task = x.task /\ y.id = x.id
            /\ y.config = x.config /\ y.cause = x.cause
        BY <3>3
      <4> HIDE <3>3
      <4> QED
        BY <2>3, <4>1 DEF Attempt
    <3>5. run' = [run EXCEPT ![r] = z]
      BY <2>2, <3>2, <3>3, <3>4
    <3> HIDE DEF Attempt
    <3> QED
      BY <3>1, <3>2, <3>4, <3>5
  <2>5. Typed'
    BY <1>1, <2>2, <2>4, LiveFacts DEF Typed
  <2>6. Continues(r)
    BY <1>1, <1>2, <2>2, <2>4 DEF Continues
  <2>7. TaskInv(t)'
    BY <1>1, <1>2, <2>2, StoreKept, LiveFacts
  <2>8. Given(r)'
    BY <1>1, <1>2, <2>2, <2>4, LiveFacts DEF Given
  <2>9. Source(r)'
    BY <1>3, <2>1, <2>2, <2>4 DEF Source, Based, Shares
  <2>10. Objects(r)' /\ Golden(r)'
    BY <2>4 DEF Objects, Golden, Working, Cleaned
  <2>11. Directory(r)' /\ Holds(r)' /\ Unstuck(r)'
    BY <1>1, <1>2, <2>2, <2>4, LiveFacts DEF Directory, Holds, Unstuck, RunInv, Cleaned
  <2> QED
    BY <1>2, <2>5, <2>6, <2>7, <2>8, <2>9, <2>10, <2>11, Frame DEF RunInv
<1> QED
  BY <1>5, <1>6

(* A published artifact that answers the attempt can be restored. *)
LEMMA Restorable ==
  ASSUME IInv, NEW r \in Runners, run[r].pc = "resume",
         store[run[r].task].marker # None
  PROVE  ResumeRefused(r) # "leftover"
<1>1. Live(r)
  BY DEF Live, Ended
<1>2. PICK t \in Tasks : t = run[r].task
  BY <1>1, LiveFacts
<1>3. Kept(t) /\ Based(t, run[r].source, run[r].config)
  BY <1>1, <1>2, LiveFacts DEF TaskInv, RunInv, Source, Sourced
<1>4. HasSeries(t) => /\ store[t].marker.from = run[r].source
                      /\ store[t].series = store[t].marker.by
  BY <1>3 DEF Kept, Based
<1>5. ~HasSeries(t) => Verified(t, store[t].marker)
  BY <1>3, NeedsValues DEF Kept, Verified
<1> QED
  BY <1>2, <1>4, <1>5 DEF ResumeRefused, Causes

LEMMA ResumeInv ==
  ASSUME IInv, NEW r \in Runners, Resume(r)
  PROVE  IInv'
<1>1. run[r].pc = "resume" /\ Live(r)
  BY DEF Resume, Live, Ended
<1>2. PICK t \in Tasks : t = run[r].task
  BY <1>1, LiveFacts
<1>3. UNCHANGED <<store, dispatched>>
  BY DEF Resume
<1>4. local[r] = Empty
  BY <1>1, LiveFacts DEF RunInv, Directory
<1>5. CASE store[t].marker = None
  <2>1. Goes(r, "delete") /\ UNCHANGED local
    BY <1>2, <1>5 DEF Resume
  <2>2. run'[r].pc = "delete" /\ run'[r].task = t
    BY <1>1, <1>2, <2>1, GoesFacts, LiveFacts DEF Typed, Pcs
  <2>3. Objects(r)' /\ Golden(r)' /\ Directory(r)'
    BY <1>3, <1>4, <1>5, <2>1, <2>2 DEF Objects, Golden, Directory, Working, Cleaned, Empty
  <2> QED
    BY <1>1, <1>3, <2>1, <2>3, GoesKept DEF Pcs, Sourced, Working
<1>6. CASE store[t].marker # None /\ ResumeRefused(r) # None
  <2>1. ResumeRefused(r) \in Causes \ {"leftover"}
    BY <1>1, <1>2, <1>6, Restorable DEF ResumeRefused, Causes
  <2> QED
    BY <1>1, <1>2, <1>3, <1>6, <2>1, FailsInv DEF Resume
<1>7. CASE store[t].marker # None /\ ResumeRefused(r) = None
  <2>1. Goes(r, "ok") /\ local' = [local EXCEPT ![r] = Restored(t)]
    BY <1>2, <1>7 DEF Resume
  <2>2. /\ run' \in [Runners -> Attempt]
        /\ \A q \in Runners : q # r => run'[q] = run[q]
        /\ run'[r].pc = "ok" /\ run'[r].task = t /\ run'[r].id = run[r].id
        /\ run'[r].config = run[r].config /\ run'[r].source = run[r].source
        /\ run'[r].cause = run[r].cause
    BY <1>1, <1>2, <2>1, GoesFacts, LiveFacts DEF Typed, Pcs
  <2>3. store[t] \in Cell
    BY <1>1, <1>2, LiveFacts
  <2>4. Restored(t) = [series |-> store[t].series, marker |-> store[t].marker,
                       failure |-> None]
    <3>1. Empty \in Output
      BY DEF Empty, Output
    <3>2. Restored(t) \in Output
      BY <2>3, <3>1 DEF Restored, Output, Cell
    <3>3. /\ Restored(t).series = store[t].series
          /\ Restored(t).marker = store[t].marker
          /\ Restored(t).failure = None
      BY <3>1 DEF Restored, Empty, Output
    <3>4. Restored(t) = [series |-> Restored(t).series, marker |-> Restored(t).marker,
                         failure |-> Restored(t).failure]
      BY <3>2 DEF Output
    <3> QED
      BY <3>3, <3>4, Zenon
  <2>5. /\ local' \in [Runners -> Output]
        /\ \A q \in Runners : q # r => local'[q] = local[q]
        /\ local'[r] = Restored(t)
    BY <1>1, <2>1, <2>3, <2>4, LiveFacts DEF Typed, Cell, Output
  <2>6. Typed'
    BY <1>1, <1>3, <2>2, <2>5, LiveFacts DEF Typed
  <2>7. Continues(r)
    BY <1>1, <1>2, <1>3, <2>2, <2>5 DEF Continues
  <2>8. TaskInv(t)'
    BY <1>1, <1>2, <1>3, StoreKept, LiveFacts
  <2>9. Given(r)' /\ Source(r)' /\ Objects(r)' /\ Golden(r)'
    BY <1>1, <1>2, <1>3, <2>2, LiveFacts
       DEF Given, Source, Objects, Golden, Sourced, Working, Cleaned
  <2>10. Directory(r)'
    <3>1. Matches(t, store[t].marker.config, run[r].config)
      BY <1>2, <1>7 DEF ResumeRefused, Causes
    <3>2. store[t].marker.config \in RecordedConfigs /\ run[r].config \in Configs
      BY <1>1, <1>7, <2>3, LiveFacts DEF Cell, Marker
    <3>3. /\ store[t].marker.config.slate = run[r].config.slate
          /\ store[t].marker.config.data = run[r].config.data
          /\ HasSeries(t) => store[t].marker.config.runner = run[r].config.runner
      BY <3>1, <3>2, MatchesFacts
    <3>4. Answered(r)'
      BY <1>3, <1>7, <2>2, <2>4, <2>5, <3>3 DEF Answered
    <3> QED
      BY <2>2, <3>4 DEF Directory, Cleaned
  <2>11. Holds(r)' /\ Unstuck(r)'
    <3>1. /\ store[t].marker \in Artifacts(t)
          /\ HasSeries(t) => store[t].series = store[t].marker.by
      BY <1>1, <1>2, <1>7, LiveFacts DEF TaskInv, Kept
    <3> QED
      BY <1>1, <2>2, <2>4, <2>5, <3>1, LiveFacts DEF Holds, Unstuck, RunInv
  <2> QED
    BY <1>2, <2>6, <2>7, <2>8, <2>9, <2>10, <2>11, Frame DEF RunInv
<1> QED
  BY <1>5, <1>6, <1>7

LEMMA WriteLocalInv ==
  ASSUME IInv, NEW r \in Runners, WriteLocal(r)
  PROVE  IInv'
<1>1. run[r].pc = "write_local" /\ Live(r)
  BY DEF WriteLocal, Live, Ended
<1>2. PICK t \in Tasks : t = run[r].task
  BY <1>1, LiveFacts
<1> DEFINE next == IF HasSeries(t) THEN "put_series" ELSE "put_marker"
<1>3. /\ UNCHANGED <<store, dispatched>> /\ Goes(r, next)
      /\ local' = [local EXCEPT
            ![r].series = IF HasSeries(t) THEN run[r].id ELSE None,
            ![r].marker = Produced(r)]
  BY <1>2 DEF WriteLocal
<1>4. /\ run' \in [Runners -> Attempt]
      /\ \A q \in Runners : q # r => run'[q] = run[q]
      /\ run'[r].pc = next /\ run'[r].task = t /\ run'[r].id = run[r].id
      /\ run'[r].config = run[r].config /\ run'[r].source = run[r].source
      /\ run'[r].cause = run[r].cause
  BY <1>1, <1>2, <1>3, GoesFacts, LiveFacts DEF Typed, Pcs
<1>5. Produced(r) \in Marker /\ Produced(r) \in Artifacts(t)
  BY <1>1, <1>2, LiveFacts, ProducedFacts
<1>6. local[r] = Empty
  BY <1>1, LiveFacts DEF RunInv, Directory, Cleaned
<1>7. /\ local' \in [Runners -> Output]
      /\ \A q \in Runners : q # r => local'[q] = local[q]
      /\ local'[r] = Written(r)
  BY <1>1, <1>2, <1>3, <1>5, <1>6, LiveFacts DEF Typed, Output, Written, Empty
<1>8. Typed'
  BY <1>1, <1>3, <1>4, <1>7, LiveFacts DEF Typed
<1>9. Continues(r)
  BY <1>1, <1>2, <1>3, <1>4, <1>7 DEF Continues
<1>10. TaskInv(t)'
  BY <1>1, <1>2, <1>3, StoreKept, LiveFacts
<1>11. Given(r)' /\ Source(r)'
  BY <1>1, <1>2, <1>3, <1>4, LiveFacts
     DEF Given, Source, Sourced, Working, Cleaned, RunInv, Based
<1>12. Objects(r)'
  BY <1>1, <1>2, <1>3, <1>4, LiveFacts DEF Objects, Working, Cleaned, RunInv
<1>13. Golden(r)'
  BY <1>1, <1>2, <1>3, <1>4, LiveFacts DEF Golden, RunInv
<1>14. Directory(r)'
  BY <1>2, <1>4, <1>7 DEF Directory, Written, Produced, Cleaned
<1>15. Holds(r)' /\ Unstuck(r)'
  BY <1>1, <1>2, <1>4, <1>5, <1>7, LiveFacts, ProducedFacts
     DEF Holds, Written, Unstuck, RunInv
<1> QED
  BY <1>2, <1>8, <1>9, <1>10, <1>11, <1>12, <1>13, <1>14, <1>15, Frame DEF RunInv

-----------------------------------------------------------------------------
(* The steps that change the attempt's own cell. *)

LEMMA SetsDb ==
  ASSUME store \in [Tasks -> Cell], NEW t \in Tasks, NEW db \in Database \union {None},
         store' = [store EXCEPT ![t].db = db]
  PROVE  /\ store' \in [Tasks -> Cell]
         /\ \A u \in Tasks : u # t => store'[u] = store[u]
         /\ store'[t].db = db
         /\ store'[t].series = store[t].series /\ store'[t].marker = store[t].marker
BY DEF Cell

LEMMA SetsSeries ==
  ASSUME store \in [Tasks -> Cell], NEW t \in Tasks, NEW id \in Attempts \union {None},
         store' = [store EXCEPT ![t]["series"] = id]
  PROVE  /\ store' \in [Tasks -> Cell]
         /\ \A u \in Tasks : u # t => store'[u] = store[u]
         /\ store'[t].series = id
         /\ store'[t].db = store[t].db /\ store'[t].marker = store[t].marker
BY DEF Cell

LEMMA SetsMarker ==
  ASSUME store \in [Tasks -> Cell], NEW t \in Tasks, NEW marker \in Marker \union {None},
         store' = [store EXCEPT ![t]["marker"] = marker]
  PROVE  /\ store' \in [Tasks -> Cell]
         /\ \A u \in Tasks : u # t => store'[u] = store[u]
         /\ store'[t].marker = marker
         /\ store'[t].db = store[t].db /\ store'[t].series = store[t].series
BY DEF Cell

(* An attempt at an unpublished task that goes on, having changed its cell *)
(* but for the marker.                                                     *)
LEMMA CellChanged ==
  ASSUME IInv, NEW r \in Runners, Live(r), NEW t \in Tasks, t = run[r].task,
         NEW p \in Pcs, p # "source", Goes(r, p) \/ (p = run[r].pc /\ run' = run),
         UNCHANGED <<local, dispatched>>,
         run[r].pc \in Sourced, p \in Sourced, p # "idle",
         store' \in [Tasks -> Cell],
         \A u \in Tasks : u # t => store'[u] = store[u],
         store[t].marker = None, store'[t].marker = None,
         t \in Phases => store'[t].series = None,
         Objects(r)', Golden(r)', Directory(r)'
  PROVE  IInv'
<1>1. /\ run' \in [Runners -> Attempt]
      /\ \A q \in Runners : q # r => run'[q] = run[q]
      /\ run'[r].pc = p /\ run'[r].task = t /\ run'[r].id = run[r].id
      /\ run'[r].config = run[r].config /\ run'[r].source = run[r].source
      /\ run'[r].cause = run[r].cause
  BY GoesFacts, LiveFacts DEF Typed
<1>2. Typed'
  BY <1>1, LiveFacts DEF Typed
<1>3. Continues(r)
  BY <1>1 DEF Continues
<1>4. TaskInv(t)'
  BY DEF TaskInv
<1>5. Given(r)'
  BY <1>1, LiveFacts DEF Given
<1>6. Source(r)'
  <2>1. Based(t, run[r].source, run[r].config)
    BY LiveFacts DEF RunInv, Source
  <2>2. \A u \in Tasks : store[u].marker # None => store'[u] = store[u]
    OBVIOUS
  <2>3. Based(t, run[r].source, run[r].config)'
    BY <1>1, <2>1, <2>2, NeedsValues DEF Based
  <2> QED
    BY <1>1, <2>3 DEF Source
<1>7. Holds(r)' /\ Unstuck(r)'
  BY <1>1, LiveFacts DEF Holds, Unstuck, RunInv
<1> QED
  BY <1>2, <1>3, <1>4, <1>5, <1>6, <1>7, Frame DEF RunInv

LEMMA DeletePrefixInv ==
  ASSUME IInv, NEW r \in Runners, DeletePrefix(r)
  PROVE  IInv'
<1>1. run[r].pc = "delete" /\ Live(r)
  BY DEF DeletePrefix, Live, Ended
<1>2. PICK t \in Tasks : t = run[r].task
  BY <1>1, LiveFacts
<1>3. /\ UNCHANGED <<local, dispatched>>
      /\ store \in [Tasks -> Cell]
      /\ store[t].marker = None /\ local[r] = Empty
      /\ t \in Phases => store[t].series = None
  BY <1>1, <1>2, LiveFacts
     DEF DeletePrefix, Typed, RunInv, Objects, Directory, Working, TaskInv
<1> DEFINE left == {f \in Files(t) : store[t][f] # None}
<1>4. CASE left = {}
  <2>1. Goes(r, "open") /\ UNCHANGED store
    BY <1>2, <1>4 DEF DeletePrefix
  <2>2. store[t].db = None /\ store[t].series = None
    <3>1. "db" \in Files(t)
      BY DEF Files
    <3>2. t \notin Phases => "series" \in Files(t)
      BY DEF Files
    <3> QED
      BY <1>3, <1>4, <3>1, <3>2
  <2>3. run'[r].pc = "open" /\ run'[r].task = t
    BY <1>1, <1>2, <2>1, GoesFacts, LiveFacts DEF Typed, Pcs
  <2>4. Objects(r)' /\ Golden(r)' /\ Directory(r)'
    BY <1>3, <2>1, <2>2, <2>3 DEF Objects, Golden, Directory, Working, Cleaned, Empty
  <2> QED
    BY <1>1, <1>2, <1>3, <2>1, <2>2, <2>4, CellChanged DEF Pcs, Sourced, Working, Cleaned
<1>5. CASE left # {}
  <2>1. PICK f \in left : store' = [store EXCEPT ![t][f] = None]
    BY <1>2, <1>5 DEF DeletePrefix
  <2>2. UNCHANGED run
    BY <1>2, <1>5 DEF DeletePrefix
  <2>3. f = "db" \/ f = "series"
    BY <1>3, <2>1 DEF Files
  <2>4. /\ store' \in [Tasks -> Cell]
        /\ \A u \in Tasks : u # t => store'[u] = store[u]
        /\ store'[t].marker = None
        /\ t \in Phases => store'[t].series = None
    <3>1. CASE f = "db"
      <4>1. store' = [store EXCEPT ![t].db = None]
        BY <2>1, <3>1
      <4> QED
        BY <1>3, <4>1, SetsDb
    <3>2. CASE f = "series"
      <4>1. store' = [store EXCEPT ![t]["series"] = None]
        BY <2>1, <3>2
      <4> QED
        BY <1>3, <4>1, SetsSeries
    <3> QED
      BY <2>3, <3>1, <3>2
  <2>5. Objects(r)' /\ Golden(r)' /\ Directory(r)'
    BY <1>1, <1>2, <1>3, <2>2, <2>4 DEF Objects, Golden, Directory, Working, Cleaned, Empty
  <2> QED
    BY <1>1, <1>2, <1>3, <2>2, <2>4, <2>5, CellChanged DEF Pcs, Sourced, Working
<1> QED
  BY <1>4, <1>5

LEMMA OpenDatabaseInv ==
  ASSUME IInv, NEW r \in Runners, OpenDatabase(r)
  PROVE  IInv'
<1>1. run[r].pc = "open" /\ Live(r)
  BY DEF OpenDatabase, Live, Ended
<1>2. PICK t \in Tasks : t = run[r].task
  BY <1>1, LiveFacts
<1>3. /\ UNCHANGED dispatched
      /\ store \in [Tasks -> Cell]
      /\ store[t].db = None /\ store[t].series = None /\ store[t].marker = None
      /\ local[r] = Empty
  BY <1>1, <1>2, LiveFacts
     DEF OpenDatabase, Typed, RunInv, Objects, Directory, Working, Cleaned
<1>4. Cloneable(r)
  <2>1. Based(t, run[r].source, run[r].config)
    BY <1>1, <1>2, LiveFacts DEF RunInv, Source, Sourced, Working, Cleaned
  <2>2. ASSUME Needs(t) # None
        PROVE  store[Needs(t)].db # None /\ store[Needs(t)].db.by = run[r].source
    <3>1. Needs(t) \in Phases /\ TaskInv(Needs(t))
      BY <2>2, NeedsValues DEF IInv
    <3> QED
      BY <2>1, <2>2, <3>1 DEF Based, TaskInv, Kept
  <2> QED
    BY <1>2, <2>2 DEF Cloneable
<1> DEFINE new == [by |-> run[r].id, from |-> run[r].source,
                   complete |-> FALSE, checkpoint |-> FALSE]
<1>5. store' = [store EXCEPT ![t].db = new] /\ Goes(r, "measure") /\ UNCHANGED local
  BY <1>2, <1>3, <1>4 DEF OpenDatabase
<1>6. new \in Database
  BY <1>1, LiveFacts DEF Database
<1>7. /\ store' \in [Tasks -> Cell]
      /\ \A u \in Tasks : u # t => store'[u] = store[u]
      /\ store'[t].db = new /\ store'[t].series = None /\ store'[t].marker = None
  BY <1>3, <1>5, <1>6, SetsDb
<1>8. /\ run'[r].pc = "measure" /\ run'[r].task = t /\ run'[r].id = run[r].id
      /\ run'[r].source = run[r].source
  BY <1>1, <1>2, <1>5, GoesFacts, LiveFacts DEF Typed, Pcs
<1>9. Objects(r)' /\ Directory(r)'
  BY <1>3, <1>5, <1>7, <1>8 DEF Objects, Directory, Working, Cleaned, Empty
<1>10. Golden(r)'
  BY <1>6, <1>7, <1>8 DEF Golden
<1> QED
  BY <1>1, <1>2, <1>3, <1>5, <1>7, <1>9, <1>10, CellChanged
     DEF Pcs, Sourced, Working, Cleaned

LEMMA MeasureInv ==
  ASSUME IInv, NEW r \in Runners, Measure(r)
  PROVE  IInv'
<1>1. run[r].pc = "measure" /\ Live(r)
  BY DEF Measure, Live, Ended
<1>2. PICK t \in Tasks : t = run[r].task
  BY <1>1, LiveFacts
<1> DEFINE next == IF t \in Phases THEN "checkpoint" ELSE "write_local"
<1>3. /\ UNCHANGED <<local, dispatched>>
      /\ store \in [Tasks -> Cell]
      /\ store[t].db # None /\ store[t].series = None /\ store[t].marker = None
      /\ local[r] = Empty
      /\ store' = [store EXCEPT ![t].db.complete = TRUE] /\ Goes(r, next)
  BY <1>1, <1>2, LiveFacts
     DEF Measure, Typed, RunInv, Objects, Directory, Working, Cleaned
<1> DEFINE db == [store[t].db EXCEPT !.complete = TRUE]
<1>4. /\ db \in Database
      /\ db.by = store[t].db.by /\ db.from = store[t].db.from /\ db.complete
  <2>1. PICK x \in Database : x = store[t].db
    BY <1>3 DEF Cell
  <2> QED
    BY <2>1 DEF Database
<1>5. store' = [store EXCEPT ![t].db = db]
  BY <1>3 DEF Cell
<1>6. /\ store' \in [Tasks -> Cell]
      /\ \A u \in Tasks : u # t => store'[u] = store[u]
      /\ store'[t].db = db /\ store'[t].series = None /\ store'[t].marker = None
  BY <1>3, <1>4, <1>5, SetsDb
<1>7. /\ run'[r].pc = next /\ run'[r].task = t /\ run'[r].id = run[r].id
      /\ run'[r].source = run[r].source
  BY <1>1, <1>2, <1>3, GoesFacts, LiveFacts DEF Typed, Pcs
<1>8. Objects(r)' /\ Directory(r)'
  BY <1>3, <1>6, <1>7 DEF Objects, Directory, Working, Cleaned, Empty
<1>9. Golden(r)'
  <2>1. t \in Phases => /\ store[t].db.by = run[r].id
                        /\ store[t].db.from = run[r].source
    BY <1>1, <1>2, LiveFacts DEF RunInv, Golden
  <2> QED
    BY <1>4, <1>6, <1>7, <2>1 DEF Golden
<1> QED
  BY <1>1, <1>2, <1>3, <1>6, <1>8, <1>9, CellChanged DEF Pcs, Sourced, Working, Cleaned

LEMMA CheckpointInv ==
  ASSUME IInv, NEW r \in Runners, Checkpoint(r)
  PROVE  IInv'
<1>1. run[r].pc = "checkpoint" /\ Live(r)
  BY DEF Checkpoint, Live, Ended
<1>2. PICK t \in Tasks : t = run[r].task
  BY <1>1, LiveFacts
<1>3. /\ UNCHANGED <<local, dispatched>>
      /\ store \in [Tasks -> Cell]
      /\ store[t].db # None /\ store[t].series = None /\ store[t].marker = None
      /\ local[r] = Empty
      /\ store' = [store EXCEPT ![t].db.checkpoint = TRUE] /\ Goes(r, "write_local")
  BY <1>1, <1>2, LiveFacts
     DEF Checkpoint, Typed, RunInv, Objects, Directory, Working, Cleaned
<1> DEFINE db == [store[t].db EXCEPT !.checkpoint = TRUE]
<1>4. /\ db \in Database
      /\ db.by = store[t].db.by /\ db.from = store[t].db.from
      /\ db.complete = store[t].db.complete /\ db.checkpoint
  <2>1. PICK x \in Database : x = store[t].db
    BY <1>3 DEF Cell
  <2> QED
    BY <2>1 DEF Database
<1>5. store' = [store EXCEPT ![t].db = db]
  BY <1>3 DEF Cell
<1>6. /\ store' \in [Tasks -> Cell]
      /\ \A u \in Tasks : u # t => store'[u] = store[u]
      /\ store'[t].db = db /\ store'[t].series = None /\ store'[t].marker = None
  BY <1>3, <1>4, <1>5, SetsDb
<1>7. /\ run'[r].pc = "write_local" /\ run'[r].task = t /\ run'[r].id = run[r].id
      /\ run'[r].source = run[r].source
  BY <1>1, <1>2, <1>3, GoesFacts, LiveFacts DEF Typed, Pcs
<1>8. Objects(r)' /\ Directory(r)'
  BY <1>3, <1>6, <1>7 DEF Objects, Directory, Working, Cleaned, Empty
<1>9. Golden(r)'
  <2>1. t \in Phases => /\ store[t].db.by = run[r].id
                        /\ store[t].db.from = run[r].source
                        /\ store[t].db.complete
    BY <1>1, <1>2, LiveFacts DEF RunInv, Golden
  <2> QED
    BY <1>4, <1>6, <1>7, <2>1 DEF Golden
<1> QED
  BY <1>1, <1>2, <1>3, <1>6, <1>8, <1>9, CellChanged DEF Pcs, Sourced, Working, Cleaned

LEMMA PutSeriesInv ==
  ASSUME IInv, NEW r \in Runners, PutSeries(r)
  PROVE  IInv'
<1>1. run[r].pc = "put_series" /\ Live(r)
  BY DEF PutSeries, Live, Ended
<1>2. PICK t \in Tasks : t = run[r].task
  BY <1>1, LiveFacts
<1>3. /\ UNCHANGED dispatched
      /\ store \in [Tasks -> Cell] /\ run[r].id \in Attempts
      /\ store[t].marker = None /\ store[t].series \in {None, run[r].id}
      /\ HasSeries(t) /\ t \notin Phases
      /\ local[r] = Written(r)
  BY <1>1, <1>2, LiveFacts, NeedsValues
     DEF PutSeries, Typed, RunInv, Objects, Directory, Working
<1>4. /\ UNCHANGED local
      /\ Goes(r, "put_marker") \/ run' = run
      /\ store' \in [Tasks -> Cell]
      /\ \A u \in Tasks : u # t => store'[u] = store[u]
      /\ store'[t].series = run[r].id /\ store'[t].marker = None
  <2>1. CASE store[t].series = None
    <3>1. /\ UNCHANGED local /\ (Goes(r, "put_marker") \/ UNCHANGED run)
          /\ store' = [store EXCEPT ![t]["series"] = run[r].id]
      BY <1>2, <2>1 DEF PutSeries, Creates
    <3> QED
      BY <1>3, <3>1, SetsSeries
  <2>2. CASE store[t].series # None
    <3>1. UNCHANGED <<local, store>> /\ Goes(r, "put_marker")
      BY <1>2, <1>3, <2>2 DEF PutSeries, Creates
    <3> QED
      BY <1>3, <2>2, <3>1
  <2> QED
    BY <2>1, <2>2
<1>5. PICK p \in {"put_series", "put_marker"} :
        Goes(r, p) \/ (p = run[r].pc /\ run' = run)
  BY <1>1, <1>4
<1>6. /\ run'[r].pc = p /\ run'[r].task = t /\ run'[r].id = run[r].id
      /\ run'[r].source = run[r].source /\ run'[r].config = run[r].config
  BY <1>1, <1>2, <1>5, GoesFacts, LiveFacts DEF Typed, Pcs
<1>7. Objects(r)' /\ Golden(r)'
  BY <1>3, <1>4, <1>6 DEF Objects, Golden, Working, Cleaned
<1>8. Directory(r)'
  BY <1>2, <1>3, <1>4, <1>6 DEF Directory, Written, Produced, Cleaned
<1> QED
  BY <1>1, <1>2, <1>3, <1>4, <1>5, <1>7, <1>8, CellChanged DEF Pcs, Sourced, Working

LEMMA PutMarkerInv ==
  ASSUME IInv, NEW r \in Runners, PutMarker(r)
  PROVE  IInv'
<1>1. run[r].pc = "put_marker" /\ Live(r)
  BY DEF PutMarker, Live, Ended
<1>2. PICK t \in Tasks : t = run[r].task
  BY <1>1, LiveFacts
<1>3. /\ UNCHANGED dispatched
      /\ store \in [Tasks -> Cell]
      /\ store[t].marker \in {None, Produced(r)}
      /\ HasSeries(t) => store[t].series = run[r].id
      /\ local[r] = Written(r)
      /\ Golden(r) /\ Based(t, run[r].source, run[r].config)
      /\ t \in Phases => store[t].series = None
  BY <1>1, <1>2, LiveFacts
     DEF PutMarker, Typed, RunInv, Objects, Directory, Source, Sourced, TaskInv
<1>4. Produced(r) \in Marker /\ Produced(r) \in Artifacts(t)
  BY <1>1, <1>2, LiveFacts, ProducedFacts
<1>5. /\ UNCHANGED local
      /\ Goes(r, "ok") \/ run' = run
      /\ store' \in [Tasks -> Cell]
      /\ \A u \in Tasks : u # t => store'[u] = store[u]
      /\ store'[t].marker = Produced(r)
      /\ store'[t].db = store[t].db /\ store'[t].series = store[t].series
      /\ store[t].marker # None => store'[t] = store[t]
  <2>1. CASE store[t].marker = None
    <3>1. /\ UNCHANGED local /\ (Goes(r, "ok") \/ UNCHANGED run)
          /\ store' = [store EXCEPT ![t]["marker"] = Produced(r)]
      BY <1>2, <2>1 DEF PutMarker, Creates
    <3> QED
      BY <1>3, <1>4, <2>1, <3>1, SetsMarker
  <2>2. CASE store[t].marker # None
    <3>1. UNCHANGED <<local, store>> /\ Goes(r, "ok")
      BY <1>2, <1>3, <2>2 DEF PutMarker, Creates
    <3> QED
      BY <1>3, <2>2, <3>1
  <2> QED
    BY <2>1, <2>2
<1>6. PICK p \in {"put_marker", "ok"} :
        /\ run' \in [Runners -> Attempt]
        /\ \A q \in Runners : q # r => run'[q] = run[q]
        /\ run'[r].pc = p /\ run'[r].task = t /\ run'[r].id = run[r].id
        /\ run'[r].config = run[r].config /\ run'[r].source = run[r].source
        /\ run'[r].cause = run[r].cause
  BY <1>1, <1>2, <1>5, GoesFacts, LiveFacts DEF Typed, Pcs
<1>7. Typed'
  BY <1>1, <1>3, <1>5, <1>6, LiveFacts DEF Typed
<1>8. Continues(r)
  BY <1>1, <1>2, <1>3, <1>5, <1>6 DEF Continues
<1>9. /\ Produced(r).by = run[r].id /\ Produced(r).from = run[r].source
      /\ Produced(r).config = Recorded(t, run[r].config)
      /\ Produced(r) # None
  BY <1>2, <1>4 DEF Produced
<1>10. /\ Recorded(t, run[r].config).slate = run[r].config.slate
       /\ Recorded(t, run[r].config).data = run[r].config.data
       /\ Recorded(t, run[r].config).runner = run[r].config.runner
  BY <1>1, LiveFacts, RecordedFacts
<1>11. \A u \in Tasks : store[u].marker # None => store'[u] = store[u]
  BY <1>5
<1>12. Based(t, run[r].source, run[r].config)' /\ Source(r)'
  <2>1. /\ Needs(t) = None => run'[r].source = None
        /\ Needs(t) # None =>
             /\ store'[Needs(t)].marker # None
             /\ run'[r].source = store'[Needs(t)].marker.by
             /\ store'[Needs(t)].marker.config.data = run'[r].config.data
             /\ t = "compaction" =>
                  store'[Needs(t)].marker.config.slate = run'[r].config.slate
    BY <1>3, <1>6, <1>11, NeedsValues DEF Based
  <2> QED
    BY <1>6, <2>1 DEF Based, Source
<1>13. TaskInv(t)'
  <2>1. Based(t, store[t].marker.from, store[t].marker.config)'
    BY <1>5, <1>6, <1>9, <1>10, <1>12 DEF Based
  <2>2. t \in Phases =>
          /\ store[t].db # None /\ store[t].db.by = run[r].id
          /\ store[t].db.from = run[r].source
          /\ store[t].db.complete /\ store[t].db.checkpoint
    BY <1>1, <1>2, <1>3 DEF Golden
  <2> QED
    BY <1>3, <1>4, <1>5, <1>9, <2>1, <2>2 DEF TaskInv, Kept, Artifacts
<1>14. Given(r)'
  BY <1>1, <1>2, <1>3, <1>6, LiveFacts DEF Given
<1>15. Objects(r)' /\ Golden(r)'
  <2>1. Produced(r)' = Produced(r)
    BY <1>2, <1>6 DEF Produced
  <2> QED
    BY <1>1, <1>2, <1>3, <1>5, <1>6, <2>1 DEF Objects, Golden, Working, Cleaned
<1>16. Directory(r)'
  <2>1. Written(r)' = Written(r)
    BY <1>2, <1>6 DEF Written, Produced
  <2>2. Written(r) = [series |-> store[t].series, marker |-> Produced(r), failure |-> None]
    BY <1>2, <1>3, NeedsValues DEF Written
  <2>3. p = "ok" => Answered(r)'
    BY <1>3, <1>5, <1>6, <1>9, <1>10, <2>2 DEF Answered
  <2> QED
    BY <1>3, <1>5, <1>6, <2>1, <2>3 DEF Directory, Cleaned
<1>17. Holds(r)' /\ Unstuck(r)'
  BY <1>1, <1>2, <1>5, <1>6, LiveFacts DEF Holds, Unstuck, RunInv
<1> QED
  BY <1>2, <1>7, <1>8, <1>12, <1>13, <1>14, <1>15, <1>16, <1>17, Frame DEF RunInv

-----------------------------------------------------------------------------
(* The steps that are not an attempt's own. *)

LEMMA DispatchInv ==
  ASSUME IInv, NEW r \in Runners, Dispatch(r)
  PROVE  IInv'
<1>1. ~Live(r) /\ dispatched < MaxAttempts
      /\ local' = [local EXCEPT ![r] = Empty]
      /\ dispatched' = dispatched + 1 /\ UNCHANGED store
  BY DEF Dispatch
<1>2. PICK t \in Tasks, c \in Configs :
        /\ GroupFree(t)
        /\ run' = [run EXCEPT ![r] =
             [pc |-> IF Needs(t) = None THEN "resume" ELSE "source",
              task |-> t, id |-> dispatched + 1, config |-> c,
              source |-> None, cause |-> None]]
  BY DEF Dispatch
<1>3. Typed
  BY DEF IInv
<1>4. dispatched + 1 \in Attempts /\ dispatched \in Nat
  BY <1>1, <1>3 DEF Typed, Attempts
<1>5. /\ run' \in [Runners -> Attempt]
      /\ \A q \in Runners : q # r => run'[q] = run[q]
      /\ run'[r].pc = (IF Needs(t) = None THEN "resume" ELSE "source")
      /\ run'[r].task = t /\ run'[r].id = dispatched + 1 /\ run'[r].config = c
      /\ run'[r].source = None /\ run'[r].cause = None
  BY <1>2, <1>3, <1>4 DEF Typed, Attempt, Pcs
<1>6. /\ local' \in [Runners -> Output]
      /\ \A q \in Runners : q # r => local'[q] = local[q]
      /\ local'[r] = Empty
  BY <1>1, <1>3 DEF Typed, Output, Empty
<1>7. Typed'
  BY <1>1, <1>3, <1>4, <1>5, <1>6 DEF Typed, Attempts
<1>8. Exclusive'
  <2>1. \A q \in Runners : q # r /\ Live(q)' => Live(q) /\ run'[q].task # t
    BY <1>2, <1>5 DEF Live, GroupFree
  <2>2. \A q \in Runners : q # r => Live(q)' <=> Live(q)
    BY <1>5 DEF Live
  <2> QED
    BY <1>5, <2>1, <2>2 DEF IInv, Exclusive
<1>9. \A u \in Tasks : TaskInv(u)'
  BY <1>1, StoreKept DEF IInv
<1>10. ASSUME NEW q \in Runners PROVE RunInv(q)'
  <2>1. CASE q # r
    <3>1. dispatched' \in Nat /\ dispatched <= dispatched'
      BY <1>1, <1>4
    <3> QED
      BY <1>1, <1>4, <1>5, <1>6, <2>1, <3>1, OtherAttempt
  <2>2. CASE q = r
    <3>1. Given(r)'
      BY <1>1, <1>4, <1>5 DEF Given
    <3>2. Source(r)'
      BY <1>5 DEF Source, Based, Sourced, Working, Cleaned
    <3>3. Objects(r)' /\ Golden(r)'
      BY <1>5 DEF Objects, Golden, Working, Cleaned
    <3>4. Directory(r)'
      BY <1>5, <1>6 DEF Directory
    <3>5. Holds(r)' /\ Unstuck(r)'
      BY <1>5, <1>6 DEF Holds, Unstuck, Causes, Empty
    <3> QED
      BY <2>2, <3>1, <3>2, <3>3, <3>4, <3>5 DEF RunInv
  <2> QED
    BY <2>1, <2>2
<1> QED
  BY <1>7, <1>8, <1>9, <1>10 DEF IInv

(* A cleanup deletes databases that no live attempt uses, and leaves the   *)
(* published artifacts and the golden data.                                *)
LEMMA CleanupInv ==
  ASSUME IInv, NEW w \in Workloads, Cleanup(w)
  PROVE  IInv'
<1>1. /\ \A r \in Runners : Live(r) => run[r].task \notin Workloads
      /\ store' = [store EXCEPT ![w].db = None]
      /\ UNCHANGED <<local, run, dispatched>>
  BY DEF Cleanup
<1>2. Typed
  BY DEF IInv
<1>3. /\ store' \in [Tasks -> Cell]
      /\ \A u \in Tasks : u # w => store'[u] = store[u]
      /\ store'[w].series = store[w].series /\ store'[w].marker = store[w].marker
  BY <1>1, <1>2, SetsDb DEF Typed
<1>4. Typed'
  BY <1>1, <1>2, <1>3 DEF Typed
<1>5. Exclusive'
  BY <1>1 DEF IInv, Exclusive, Live
<1>6. \A u \in Tasks : /\ store'[u].marker = store[u].marker
                       /\ store'[u].series = store[u].series
                       /\ u \notin Workloads => store'[u] = store[u]
  BY <1>3
<1>7. ASSUME NEW u \in Tasks PROVE TaskInv(u)'
  <2>1. TaskInv(u)
    BY DEF IInv
  <2>2. ASSUME store[u].marker # None PROVE Kept(u)'
    <3>1. Kept(u)
      BY <2>1, <2>2 DEF TaskInv
    <3>2. Based(u, store[u].marker.from, store[u].marker.config)'
      BY <1>6, <3>1, NeedsValues DEF Kept, Based
    <3> QED
      BY <1>6, <3>1, <3>2 DEF Kept
  <2> QED
    BY <1>6, <2>1, <2>2 DEF TaskInv
<1>8. ASSUME NEW q \in Runners PROVE RunInv(q)'
  <2>1. RunInv(q)
    BY DEF IInv
  <2>2. CASE run[q].pc = "idle"
    BY <1>1, <2>1, <2>2 DEF RunInv, Given, Source, Objects, Golden, Directory, Holds, Unstuck,
                            Sourced, Working, Cleaned
  <2>3. CASE run[q].pc # "idle"
    <3>1. run[q].task \in Tasks
      BY <2>1, <2>3 DEF RunInv, Given
    <3>2. Given(q)' /\ Holds(q)' /\ Unstuck(q)'
      BY <1>1, <2>1 DEF RunInv, Given, Holds, Unstuck
    <3>3. Source(q)'
      BY <1>1, <1>6, <2>1, <3>1, NeedsValues DEF RunInv, Source, Based
    <3>4. Objects(q)' /\ Golden(q)'
      <4>1. CASE Live(q)
        <5>1. store'[run[q].task] = store[run[q].task]
          BY <1>1, <1>6, <3>1, <4>1
        <5> QED
          BY <1>1, <2>1, <5>1 DEF RunInv, Objects, Golden, Produced
      <4>2. CASE ~Live(q)
        BY <1>1, <4>2 DEF Live, Ended, Objects, Golden, Working, Cleaned
      <4> QED
        BY <4>1, <4>2
    <3>5. Directory(q)'
      BY <1>1, <1>6, <2>1, <3>1 DEF RunInv, Directory, Answered, Produced, Written
    <3> QED
      BY <3>2, <3>3, <3>4, <3>5 DEF RunInv
  <2> QED
    BY <2>2, <2>3
<1> QED
  BY <1>4, <1>5, <1>7, <1>8 DEF IInv

LEMMA InitInv == Init => IInv
<1> SUFFICES ASSUME Init PROVE IInv
  OBVIOUS
<1>1. Typed
  <2>1. Empty \in Output
    BY DEF Empty, Output
  <2>2. Idle \in Attempt
    BY DEF Idle, Attempt, Pcs
  <2>3. [db |-> None, series |-> None, marker |-> None] \in Cell
    BY DEF Cell
  <2> QED
    BY <2>1, <2>2, <2>3 DEF Init, Typed
<1>2. Exclusive
  BY DEF Init, Exclusive, Live, Idle
<1>3. \A t \in Tasks : TaskInv(t)
  BY DEF Init, TaskInv
<1>4. ASSUME NEW r \in Runners PROVE RunInv(r)
  <2>1. run[r] = Idle /\ run[r].pc = "idle" /\ run[r].cause = None
    BY DEF Init, Idle
  <2> QED
    BY <2>1 DEF RunInv, Given, Source, Objects, Golden, Directory, Holds, Unstuck,
                Sourced, Working, Cleaned, Causes
<1> QED
  BY <1>1, <1>2, <1>3, <1>4 DEF IInv

LEMMA StutterInv == IInv /\ UNCHANGED vars => IInv'
<1> SUFFICES ASSUME IInv, UNCHANGED vars PROVE IInv'
  OBVIOUS
<1>1. UNCHANGED <<store, local, run, dispatched>>
  BY DEF vars
<1>2. Typed' /\ Exclusive'
  BY <1>1 DEF IInv, Typed, Exclusive, Live
<1>3. \A t \in Tasks : TaskInv(t)'
  BY <1>1, StoreKept DEF IInv
<1>4. ASSUME NEW r \in Runners PROVE RunInv(r)'
  <2>1. RunInv(r)
    BY DEF IInv
  <2>2. (Given(r) /\ Source(r))'
    BY <1>1, <2>1 DEF RunInv, Given, Source, Based
  <2>3. (Objects(r) /\ Golden(r))'
    BY <1>1, <2>1 DEF RunInv, Objects, Golden, Produced
  <2>4. (Holds(r) /\ Unstuck(r))'
    BY <1>1, <2>1 DEF RunInv, Holds, Unstuck
  <2>5. Answered(r)' <=> Answered(r)
    BY <1>1 DEF Answered
  <2>6. Written(r)' = Written(r) /\ Produced(r)' = Produced(r)
    BY <1>1 DEF Written, Produced
  <2>7. Directory(r)'
    BY <1>1, <2>1, <2>5, <2>6 DEF RunInv, Directory
  <2> QED
    BY <2>2, <2>3, <2>4, <2>7 DEF RunInv
<1> QED
  BY <1>2, <1>3, <1>4 DEF IInv

LEMMA NextInv == IInv /\ [Next]_vars => IInv'
<1> SUFFICES ASSUME IInv, [Next]_vars PROVE IInv'
  OBVIOUS
<1>1. CASE \E w \in Workloads : Cleanup(w)
  BY <1>1, CleanupInv
<1>2. ASSUME NEW r \in Runners,
             \/ Dispatch(r) \/ LoadSource(r) \/ Resume(r) \/ DeletePrefix(r)
             \/ OpenDatabase(r) \/ Measure(r) \/ Checkpoint(r) \/ WriteLocal(r)
             \/ PutSeries(r) \/ PutMarker(r)
             \/ StepFails(r) \/ HalfWritten(r) \/ Killed(r)
      PROVE  IInv'
  BY <1>2, DispatchInv, LoadSourceInv, ResumeInv, DeletePrefixInv, OpenDatabaseInv,
     MeasureInv, CheckpointInv, WriteLocalInv, PutSeriesInv, PutMarkerInv,
     StepFailsInv, HalfWrittenInv, KilledInv
<1>3. CASE UNCHANGED vars
  BY <1>3, StutterInv
<1> QED
  BY <1>1, <1>2, <1>3 DEF Next

THEOREM Invariance == Spec => []IInv
BY InitInv, NextInv, PTL DEF Spec

-----------------------------------------------------------------------------
(* Every variable has its type, and a manifest of the bulk load records the *)
(* settings of the load.                                                    *)
THEOREM TypeCorrect == Spec => []TypeOK
<1>1. IInv => TypeOK
  <2> SUFFICES ASSUME IInv PROVE TypeOK
    OBVIOUS
  <2>1. ASSUME NEW t \in Tasks
        PROVE  /\ store[t].db \in Database \union {None}
               /\ store[t].series \in Attempts \union {None}
               /\ store[t].marker \in Artifacts(t) \union {None}
    BY DEF IInv, Typed, Cell, TaskInv, Kept
  <2>2. dispatched \in 0 .. MaxAttempts
    BY DEF IInv, Typed
  <2>3. ASSUME NEW r \in Runners
        PROVE  /\ local[r].series \in Attempts \union {None}
               /\ local[r].failure \in Attempts \union {None}
    BY DEF IInv, Typed, Output
  <2>4. ASSUME NEW r \in Runners, run[r] # Idle
        PROVE  /\ run[r].task \in Tasks /\ run[r].id \in 1 .. dispatched
               /\ run[r].config \in Configs /\ run[r].source \in Attempts \union {None}
               /\ run[r].cause \in Causes \union {None}
               /\ local[r].marker \in Artifacts(run[r].task) \union {None}
    <3>1. RunInv(r) /\ run[r] \in Attempt
      BY DEF IInv, Typed
    <3>2. run[r].pc # "idle"
      BY <2>4, <3>1 DEF RunInv, Holds
    <3> QED
      BY <2>2, <3>1, <3>2 DEF RunInv, Given, Holds, Attempt, Attempts
  <2> QED
    BY <2>1, <2>2, <2>3, <2>4 DEF TypeOK
<1> QED
  BY <1>1, Invariance, PTL

(* Whoever finds a result.json finds the series.json of the same attempt.   *)
THEOREM CompletionMarkers == Spec => []CompletionMarker
<1>1. IInv => CompletionMarker
  BY DEF IInv, TaskInv, Kept, HasSeries, CompletionMarker
<1> QED
  BY <1>1, Invariance, PTL

(* Golden data is there, complete and with its checkpoint, as long as its   *)
(* manifest is, and so is what it is a clone of.                            *)
THEOREM GoldenData == Spec => []GoldenBacked
<1>1. IInv => GoldenBacked
  <2> SUFFICES ASSUME IInv, NEW t \in Phases, store[t].marker # None
               PROVE  /\ store[t].db # None
                      /\ store[t].db.by = store[t].marker.by
                      /\ store[t].db.from = store[t].marker.from
                      /\ store[t].db.complete /\ store[t].db.checkpoint
                      /\ Needs(t) # None => /\ store[Needs(t)].db # None
                                            /\ store[Needs(t)].db.by = store[t].db.from
    BY DEF GoldenBacked
  <2>1. Kept(t)
    BY DEF IInv, TaskInv
  <2>2. ASSUME Needs(t) # None
        PROVE  /\ store[Needs(t)].db # None
               /\ store[Needs(t)].db.by = store[t].marker.from
    <3>1. Needs(t) \in Phases /\ TaskInv(Needs(t))
      BY <2>2, NeedsValues DEF IInv
    <3> QED
      BY <2>1, <2>2, <3>1 DEF Kept, Based, TaskInv
  <2> QED
    BY <2>1, <2>2 DEF Kept
<1> QED
  BY <1>1, Invariance, PTL

(* A task's data has the dataset and the SlateDB of the task's own.         *)
THEOREM LikeWithLike == Spec => []SameData
<1>1. IInv => SameData
  BY DEF IInv, TaskInv, Kept, Based, SameData
<1> QED
  BY <1>1, Invariance, PTL

(* An attempt that succeeds, whether it skipped or measured, has published  *)
(* what it was asked for.                                                   *)
THEOREM Answers == Spec => []AnswersItsOwn
<1>1. IInv => AnswersItsOwn
  BY DEF IInv, RunInv, Directory, Answered, AnswersItsOwn
<1> QED
  BY <1>1, Invariance, PTL

(* The output directory agrees with the store, holds no result of another   *)
(* attempt when this one failed, and no result without its series.          *)
THEOREM Outputs == Spec => []LocalAgrees
<1>1. IInv => LocalAgrees
  <2> SUFFICES ASSUME IInv, NEW r \in Runners
               PROVE  /\ run[r].pc = "ok" =>
                           local[r] = [series |-> store[run[r].task].series,
                                       marker |-> store[run[r].task].marker,
                                       failure |-> None]
                      /\ run[r].pc = "failed" =>
                           /\ local[r].failure \in {None, run[r].id}
                           /\ local[r].marker # None => local[r].marker = Produced(r)
                      /\ run[r] # Idle /\ HasSeries(run[r].task) /\ local[r].marker # None
                           => local[r].series = local[r].marker.by
    BY DEF LocalAgrees
  <2>1. Directory(r) /\ Holds(r)
    BY DEF IInv, RunInv
  <2>2. run[r].pc = "ok" =>
          local[r] = [series |-> store[run[r].task].series,
                      marker |-> store[run[r].task].marker, failure |-> None]
    BY <2>1 DEF Directory, Answered
  <2>3. run[r].pc = "failed" =>
          /\ local[r].failure \in {None, run[r].id}
          /\ local[r].marker # None => local[r].marker = Produced(r)
    BY <2>1 DEF Directory
  <2>4. run[r] # Idle /\ HasSeries(run[r].task) /\ local[r].marker # None
          => local[r].series = local[r].marker.by
    BY <2>1 DEF Holds
  <2> QED
    BY <2>2, <2>3, <2>4
<1> QED
  BY <1>1, Invariance, PTL

(* No attempt ever fails because of what another one left in the store.     *)
THEOREM Retries == Spec => []NeverStuck
<1>1. IInv => NeverStuck
  BY DEF IInv, RunInv, Unstuck, NeverStuck
<1> QED
  BY <1>1, Invariance, PTL

-----------------------------------------------------------------------------
(* The refinement: the put of a marker publishes, and no other step does.   *)

LEMMA PublishedValue ==
  ASSUME IInv, NEW t \in Tasks
  PROVE  Published[t] = IF store[t].marker # None
                        THEN [by |-> store[t].marker.by, from |-> store[t].marker.from]
                        ELSE None
BY DEF IInv, TaskInv, Kept, Published

(* A step that keeps every marker publishes nothing. *)
LEMMA MarkersKept ==
  ASSUME IInv, IInv', \A t \in Tasks : store'[t].marker = store[t].marker
  PROVE  UNCHANGED Published
<1>1. ASSUME NEW t \in Tasks PROVE Published'[t] = Published[t]
  <2>1. Published[t] = IF store[t].marker # None
                       THEN [by |-> store[t].marker.by, from |-> store[t].marker.from]
                       ELSE None
    BY PublishedValue
  <2>2. Published'[t] = IF store'[t].marker # None
                        THEN [by |-> store'[t].marker.by, from |-> store'[t].marker.from]
                        ELSE None
    BY DEF IInv, TaskInv, Kept, Published
  <2> QED
    BY <2>1, <2>2
<1>2. Published = [t \in Tasks |-> Published[t]] /\ Published' = [t \in Tasks |-> Published'[t]]
  BY DEF Published
<1> QED
  BY <1>1, <1>2, Zenon

LEMMA OwnCellPublishes ==
  ASSUME IInv, NEW r \in Runners,
         \/ DeletePrefix(r) \/ OpenDatabase(r) \/ Measure(r) \/ Checkpoint(r) \/ PutSeries(r)
  PROVE  \A u \in Tasks : store'[u].marker = store[u].marker
<1>1. Live(r)
  BY DEF Live, Ended, DeletePrefix, OpenDatabase, Measure, Checkpoint, PutSeries
<1>2. PICK t \in Tasks : t = run[r].task
  BY <1>1, LiveFacts
<1>3. /\ store \in [Tasks -> Cell] /\ run[r].id \in Attempts
      /\ run[r].source \in Attempts \union {None}
  BY <1>1, LiveFacts DEF Typed
<1>4. CASE DeletePrefix(r)
  <2>1. store[t].marker = None
    BY <1>1, <1>2, <1>4, LiveFacts DEF DeletePrefix, RunInv, Objects, Working
  <2>2. \/ UNCHANGED store
        \/ store' = [store EXCEPT ![t]["db"] = None]
        \/ store' = [store EXCEPT ![t]["series"] = None]
    <3>1. CASE UNCHANGED store
      BY <3>1
    <3>2. CASE ~UNCHANGED store
      <4>1. PICK f \in Files(t) : /\ store[t][f] # None
                                 /\ store' = [store EXCEPT ![t][f] = None]
        BY <1>2, <1>4, <3>2 DEF DeletePrefix
      <4>2. f = "db" \/ f = "series"
        BY <2>1, <4>1 DEF Files
      <4> QED
        BY <4>1, <4>2
    <3> QED
      BY <3>1, <3>2
  <2> QED
    BY <1>3, <2>2 DEF Cell
<1>5. CASE OpenDatabase(r)
  BY <1>2, <1>3, <1>5 DEF OpenDatabase, Cell
<1>6. CASE Measure(r)
  BY <1>2, <1>3, <1>6 DEF Measure, Cell
<1>7. CASE Checkpoint(r)
  BY <1>2, <1>3, <1>7 DEF Checkpoint, Cell
<1>8. CASE PutSeries(r)
  <2>1. UNCHANGED store \/ store' = [store EXCEPT ![t]["series"] = run[r].id]
    BY <1>2, <1>8 DEF PutSeries, Creates
  <2> QED
    BY <1>3, <2>1 DEF Cell
<1> QED
  BY <1>4, <1>5, <1>6, <1>7, <1>8

LEMMA PutMarkerPublishes ==
  ASSUME IInv, IInv', NEW r \in Runners, PutMarker(r)
  PROVE  UNCHANGED Published \/ \E t \in Tasks : Abstract!Publish(t)
<1>1. run[r].pc = "put_marker" /\ Live(r)
  BY DEF PutMarker, Live, Ended
<1>2. PICK t \in Tasks : t = run[r].task
  BY <1>1, LiveFacts
<1>3. /\ store \in [Tasks -> Cell] /\ Based(t, run[r].source, run[r].config)
      /\ run[r].id \in Attempts
  BY <1>1, <1>2, LiveFacts DEF Typed, RunInv, Source, Sourced
<1>4. CASE UNCHANGED store
  BY <1>4, MarkersKept
<1>5. CASE ~UNCHANGED store
  <2>1. store[t].marker = None /\ store' = [store EXCEPT ![t]["marker"] = Produced(r)]
    BY <1>2, <1>5 DEF PutMarker, Creates
  <2>2. Produced(r) \in Marker /\ Produced(r) # None
    BY <1>1, LiveFacts, RecordedFacts DEF Produced, Marker
  <2>3. /\ \A u \in Tasks : u # t => store'[u] = store[u]
        /\ store'[t].marker = Produced(r)
    BY <1>3, <2>1, <2>2, SetsMarker
  <2>4. /\ \A u \in Tasks : u # t => Published'[u] = Published[u]
        /\ Published[t] = None
        /\ Published'[t] = [by |-> run[r].id, from |-> run[r].source]
    <3>1. ASSUME NEW u \in Tasks
          PROVE  Published'[u] = IF store'[u].marker # None
                                 THEN [by |-> store'[u].marker.by,
                                       from |-> store'[u].marker.from]
                                 ELSE None
      BY DEF IInv, TaskInv, Kept, Published
    <3>2. Produced(r).by = run[r].id /\ Produced(r).from = run[r].source
      BY DEF Produced
    <3>3. ASSUME NEW u \in Tasks, u # t PROVE Published'[u] = Published[u]
      <4>1. store'[u] = store[u]
        BY <2>3, <3>3, Zenon
      <4>2. Published[u] = IF store[u].marker # None
                           THEN [by |-> store[u].marker.by, from |-> store[u].marker.from]
                           ELSE None
        BY PublishedValue, Zenon
      <4>3. Published'[u] = IF store'[u].marker # None
                            THEN [by |-> store'[u].marker.by,
                                  from |-> store'[u].marker.from]
                            ELSE None
        BY <3>1, Zenon
      <4> HIDE <2>3, <3>1
      <4> QED
        BY <4>1, <4>2, <4>3, Zenon
    <3>4. Published[t] = None
      BY <2>1, PublishedValue
    <3>5. Published'[t] = [by |-> run[r].id, from |-> run[r].source]
      BY <2>2, <2>3, <3>1, <3>2
    <3> QED
      BY <3>3, <3>4, <3>5
  <2>5. Published' = [Published EXCEPT ![t] = [by |-> run[r].id, from |-> run[r].source]]
    <3>1. Published = [u \in Tasks |-> Published[u]]
      BY DEF Published
    <3>2. Published' = [u \in Tasks |-> Published'[u]]
      BY DEF Published
    <3> QED
      BY <2>4, <3>1, <3>2, Zenon
  <2>6. CASE Needs(t) = None
    BY <1>3, <2>4, <2>5, <2>6 DEF Abstract!Publish, Based
  <2>7. CASE Needs(t) # None
    <3>1. Needs(t) \in Tasks
      BY <2>7, NeedsValues
    <3>2. store[Needs(t)].marker # None /\ run[r].source = store[Needs(t)].marker.by
      BY <1>3, <2>7 DEF Based
    <3>3. Published[Needs(t)] = [by |-> run[r].source,
                                 from |-> store[Needs(t)].marker.from]
      BY <3>1, <3>2, PublishedValue
    <3>4. store[Needs(t)].marker \in Marker
      BY <1>3, <3>1, <3>2 DEF Cell
    <3>5. Published[Needs(t)] # None /\ Published[Needs(t)].by = run[r].source
      BY <3>2, <3>3, <3>4 DEF Marker
    <3> QED
      BY <1>3, <2>4, <2>5, <2>7, <3>5 DEF Abstract!Publish
  <2> QED
    BY <2>6, <2>7
<1> QED
  BY <1>4, <1>5

LEMMA StepRefines ==
  ASSUME IInv, IInv', [Next]_vars
  PROVE  [Abstract!Next]_Published
<1>1. ASSUME NEW r \in Runners, PutMarker(r) PROVE [Abstract!Next]_Published
  BY <1>1, PutMarkerPublishes DEF Abstract!Next
<1>2. CASE \A t \in Tasks : store'[t].marker = store[t].marker
  BY <1>2, MarkersKept
<1>3. CASE \E w \in Workloads : Cleanup(w)
  <2>1. PICK w \in Workloads : store' = [store EXCEPT ![w].db = None]
    BY <1>3 DEF Cleanup
  <2>2. store \in [Tasks -> Cell]
    BY DEF IInv, Typed
  <2> QED
    BY <1>2, <2>1, <2>2, SetsDb
<1>4. ASSUME NEW r \in Runners,
             \/ DeletePrefix(r) \/ OpenDatabase(r) \/ Measure(r)
             \/ Checkpoint(r) \/ PutSeries(r)
      PROVE  [Abstract!Next]_Published
  BY <1>2, <1>4, OwnCellPublishes
<1>5. CASE UNCHANGED store
  BY <1>2, <1>5
<1>6. ASSUME NEW r \in Runners,
             \/ Dispatch(r) \/ LoadSource(r) \/ Resume(r) \/ WriteLocal(r)
             \/ StepFails(r) \/ HalfWritten(r) \/ Killed(r)
      PROVE  UNCHANGED store
  BY <1>6 DEF Dispatch, LoadSource, Resume, WriteLocal, StepFails, HalfWritten, Killed
<1> QED
  BY <1>1, <1>3, <1>4, <1>5, <1>6 DEF Next, vars

(* Seen from outside, each task publishes once and for all, on top of what  *)
(* the task it starts from published.                                       *)
THEOREM LedgerImplemented == Spec => ImplementsLedger
<1>1. Init => Abstract!Init
  BY DEF Init, Abstract!Init, Published
<1>2. IInv /\ IInv' /\ [Next]_vars => [Abstract!Next]_Published
  BY StepRefines
<1> QED
  BY <1>1, <1>2, Invariance, PTL DEF Spec, ImplementsLedger, Abstract!Spec

=============================================================================
