---------------------------- MODULE DatasetLoad ----------------------------
(***************************************************************************)
(* The bulk load of the golden dataset: `populate_dataset` and             *)
(* `spawn_dataset_producers` (src/workloads/closed.rs).                    *)
(*                                                                         *)
(* Producer threads generate batches of consecutive records, each producer *)
(* every ProducerCount-th batch, and send them over bounded channels, one  *)
(* per producer.  The writer takes the batches round robin, so that the    *)
(* database sees the records in order, and fails with its first failed     *)
(* write, which closes the channels under the producers.                   *)
(***************************************************************************)
EXTENDS Naturals, Sequences

CONSTANTS ProducerCount, \* available_parallelism, clamped to 2 .. 8
          BatchRecords,  \* DATASET_BATCH_RECORDS
          QueueDepth,    \* DATASET_BATCH_QUEUE_DEPTH
          MaxRecords     \* bound: size of the dataset

ASSUME LoadAssumption ==
  /\ ProducerCount \in Nat \ {0}
  /\ BatchRecords \in Nat \ {0}
  /\ QueueDepth \in Nat /\ MaxRecords \in Nat

VARIABLES
  recordCount,   \* config.dataset.record_count
  producerState, \* per producer: generating, sending, returned, panicked
  start,         \* per producer: the first record of its current batch
  queue,         \* per producer: the batches in its channel
  open,          \* the writer holds the receivers
  writer,        \* receiving, writing, joining, flushing, done, or a failure
  batch,         \* the batch being written
  loaded,        \* records written so far, as the writer counts them
  database       \* the batches the database has accepted, in order

producerVars == <<producerState, start>>
vars == <<recordCount, producerVars, queue, open, writer, batch, loaded, database>>

Producers == 0 .. (ProducerCount - 1)
Batches == [start : Nat, end : Nat]
Failures == {"stopped_producer", "out_of_order", "write_failed", "flush_failed",
             "producer_panicked"}
Outcomes == {"done"} \union Failures

AtLeastOne(n) == IF n > 0 THEN n ELSE 1
Lesser(a, b) == IF a < b THEN a ELSE b

QueuePerProducer == AtLeastOne(QueueDepth \div ProducerCount)
Stride == BatchRecords * ProducerCount

NoBatch == [start |-> 0, end |-> 0]

Init ==
  /\ recordCount \in 1 .. MaxRecords
  /\ producerState = [p \in Producers |-> "generating"]
  /\ start = [p \in Producers |-> BatchRecords * p]
  /\ queue = [p \in Producers |-> <<>>]
  /\ open = TRUE
  /\ writer = "receiving"
  /\ batch = NoBatch
  /\ loaded = 0
  /\ database = <<>>

-----------------------------------------------------------------------------
(* A producer thread *)

(* The batch a producer sends: the last one of the dataset may be short. *)
NextBatch(p) ==
  [start |-> start[p], end |-> Lesser(start[p] + BatchRecords, recordCount)]

Generates(p) ==
  /\ producerState[p] = "generating"
  /\ producerState' = [producerState EXCEPT ![p] =
       IF start[p] < recordCount THEN "sending" ELSE "returned"]
  /\ UNCHANGED <<recordCount, start, queue, open, writer, batch, loaded, database>>

(* blocking_send blocks while the channel is full. *)
Sends(p) ==
  /\ producerState[p] = "sending"
  /\ open /\ Len(queue[p]) < QueuePerProducer
  /\ queue' = [queue EXCEPT ![p] = Append(@, NextBatch(p))]
  /\ start' = [start EXCEPT ![p] = @ + Stride]
  /\ producerState' = [producerState EXCEPT ![p] = "generating"]
  /\ UNCHANGED <<recordCount, open, writer, batch, loaded, database>>

(* Mutant: a producer goes on when its channel is closed. *)
IgnoresClosed(p) ==
  /\ producerState[p] = "sending" /\ ~open
  /\ producerState' = [producerState EXCEPT ![p] = "generating"]
  /\ UNCHANGED <<recordCount, start, queue, open, writer, batch, loaded, database>>

(* It fails once the receiver is gone, and the producer returns. *)
SendFails(p) ==
  /\ producerState[p] = "sending" /\ ~open
  /\ producerState' = [producerState EXCEPT ![p] = "returned"]
  /\ UNCHANGED <<recordCount, start, queue, open, writer, batch, loaded, database>>

(* A panic in a producer thread drops its sender. *)
Panics(p) ==
  /\ producerState[p] \in {"generating", "sending"}
  /\ producerState' = [producerState EXCEPT ![p] = "panicked"]
  /\ UNCHANGED <<recordCount, start, queue, open, writer, batch, loaded, database>>

Ended(p) == producerState[p] \in {"returned", "panicked"}

-----------------------------------------------------------------------------
(* populate_dataset *)

(* An error return drops the receivers, and what their channels still hold. *)
Fail(failure) ==
  /\ writer' = failure
  /\ open' = FALSE
  /\ queue' = [p \in Producers |-> <<>>]

(* Mutant: the turns go by records, not by batches. *)
TurnByRecord == loaded % ProducerCount

(* The producer whose batch comes next. *)
Turn == (loaded \div BatchRecords) % ProducerCount

Receives ==
  /\ writer = "receiving" /\ loaded < recordCount
  /\ queue[Turn] # <<>>
  /\ \/ /\ Head(queue[Turn]).start = loaded
        /\ batch' = Head(queue[Turn])
        /\ queue' = [queue EXCEPT ![Turn] = Tail(@)]
        /\ writer' = "writing"
        /\ UNCHANGED open
     \/ /\ Head(queue[Turn]).start # loaded
        /\ Fail("out_of_order")
        /\ UNCHANGED batch
  /\ UNCHANGED <<recordCount, producerVars, loaded, database>>

(* recv() returns None: the sender is gone and its channel is empty. *)
ReceivesNothing ==
  /\ writer = "receiving" /\ loaded < recordCount
  /\ queue[Turn] = <<>> /\ Ended(Turn)
  /\ Fail("stopped_producer")
  /\ UNCHANGED <<recordCount, producerVars, batch, loaded, database>>

(* Mutant: the count goes on by a whole batch, short or not. *)
WritesWhole ==
  /\ writer = "writing"
  /\ database' = Append(database, batch)
  /\ loaded' = loaded + BatchRecords
  /\ batch' = NoBatch
  /\ writer' = "receiving"
  /\ UNCHANGED <<recordCount, producerVars, queue, open>>

WriteSucceeds ==
  /\ writer = "writing"
  /\ database' = Append(database, batch)
  /\ loaded' = batch.end
  /\ batch' = NoBatch
  /\ writer' = "receiving"
  /\ UNCHANGED <<recordCount, producerVars, queue, open>>

(* Mutant: a failed write is tried again. *)
WriteRetries ==
  /\ writer = "writing"
  /\ database' \in {database, Append(database, batch)}
  /\ UNCHANGED <<recordCount, producerVars, queue, open, writer, batch, loaded>>

(* A write that is reported as failed may have been applied. *)
WriteFails ==
  /\ writer = "writing"
  /\ database' \in {database, Append(database, batch)}
  /\ batch' = NoBatch
  /\ Fail("write_failed")
  /\ UNCHANGED <<recordCount, producerVars, loaded>>

AllReceived ==
  /\ writer = "receiving" /\ loaded >= recordCount
  /\ writer' = "joining"
  /\ UNCHANGED <<recordCount, producerVars, queue, open, batch, loaded, database>>

(* Mutant: the producers are not joined before the flush. *)
JoinsNone ==
  /\ writer = "joining"
  /\ writer' = "flushing"
  /\ UNCHANGED <<recordCount, producerVars, queue, open, batch, loaded, database>>

ProducersJoined ==
  /\ writer = "joining"
  /\ \A p \in Producers : producerState[p] = "returned"
  /\ writer' = "flushing"
  /\ UNCHANGED <<recordCount, producerVars, queue, open, batch, loaded, database>>

(* They are joined in their order, up to the first that has panicked. *)
JoinFails ==
  /\ writer = "joining"
  /\ \E p \in Producers :
       /\ producerState[p] = "panicked"
       /\ \A q \in 0 .. (p - 1) : producerState[q] = "returned"
  /\ Fail("producer_panicked")
  /\ UNCHANGED <<recordCount, producerVars, batch, loaded, database>>

Flushes ==
  /\ writer = "flushing"
  /\ \/ writer' = "done" /\ open' = FALSE /\ UNCHANGED queue
     \/ Fail("flush_failed")
  /\ UNCHANGED <<recordCount, producerVars, batch, loaded, database>>

(* The load has returned and its threads have ended. *)
Returned ==
  /\ writer \in Outcomes /\ \A p \in Producers : Ended(p)
  /\ UNCHANGED vars

-----------------------------------------------------------------------------
Producer(p) == Generates(p) \/ Sends(p) \/ SendFails(p)

Writer ==
  \/ Receives \/ ReceivesNothing \/ WriteSucceeds \/ WriteFails
  \/ AllReceived \/ ProducersJoined \/ JoinFails \/ Flushes

Next ==
  \/ \E p \in Producers : Producer(p) \/ Panics(p)
  \/ Writer
  \/ Returned

Spec == Init /\ [][Next]_vars

(* The runtime schedules the writer, the operating system the threads. *)
FairSpec == Spec /\ WF_vars(Writer) /\ \A p \in Producers : WF_vars(Producer(p))

-----------------------------------------------------------------------------
(* Every variable keeps its type, and the writer never counts more records *)
(* than there are.                                                         *)
TypeOK ==
  /\ recordCount \in Nat
  /\ producerState \in [Producers -> {"generating", "sending", "returned", "panicked"}]
  /\ start \in [Producers -> Nat]
  /\ queue \in [Producers -> Seq(Batches)]
  /\ open \in BOOLEAN
  /\ writer \in {"receiving", "writing", "joining", "flushing"} \union Outcomes
  /\ batch \in Batches
  /\ loaded \in 0 .. recordCount
  /\ database \in Seq(Batches)

(* The producers deal out the batches and the writer collects them by two   *)
(* computations that must agree: the assertion on the order never fails.    *)
NeverOutOfOrder == writer # "out_of_order"

(* Whatever fails when, the database holds an unbroken prefix of the        *)
(* dataset, each record written once.                                       *)
DatabaseContiguous ==
  \A i \in 1 .. Len(database) :
    database[i].start = (IF i = 1 THEN 0 ELSE database[i - 1].end)

(* A load that succeeds has written the whole dataset, and nothing of it is *)
(* left in a channel or in a thread.                                        *)
LoadComplete ==
  writer = "done" =>
    /\ database # <<>> /\ database[Len(database)].end = recordCount
    /\ \A p \in Producers : producerState[p] = "returned" /\ queue[p] = <<>>

(* The load ends and so do its threads: none stays blocked on a full        *)
(* channel, neither while the writer waits for another one nor after it has *)
(* failed.                                                                  *)
LoadEnds == <>(writer \in Outcomes /\ \A p \in Producers : Ended(p))
=============================================================================
