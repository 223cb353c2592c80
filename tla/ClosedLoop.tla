----------------------------- MODULE ClosedLoop -----------------------------
(***************************************************************************)
(* A closed-loop client: the operations of `worker_loop` in                *)
(* src/workloads/closed.rs, with the two sets of books it keeps.  The      *)
(* correctness counters (WorkerStats, stats.rs) are judged by `execute`    *)
(* (workloads/mod.rs) when the phase ends; the recorded calls              *)
(* (ApplicationRecorder, system.rs) are published, and judged again when   *)
(* the published result is validated (validation.rs).                      *)
(*                                                                         *)
(* Abstractions.  Clients share nothing here and their books are added up, *)
(* so one client stands for them.  Keys are left out: a read finds its key *)
(* or does not, a scan starts so close to the end of the dataset that it   *)
(* should return `expected` records.  The check of the read mix, a         *)
(* statistical one, is left out.                                           *)
(***************************************************************************)
EXTENDS Naturals

CONSTANTS Reads, Updates, \* transaction_reads, transaction_updates
          ScanLimit,      \* scan_limit
          MaxOperations   \* bound: operations of one phase

ASSUME LoopAssumption ==
  Reads \in Nat /\ Updates \in Nat /\ ScanLimit \in Nat \ {0} /\ MaxOperations \in Nat

VARIABLES
  operations, \* the names in the workload's operation_mix
  absent,     \* its key_selection is "uniform-absent"
  operation,  \* the operation under way, "none" between two
  reads, updates, \* of a transaction: operations still to come
  expected, returned, \* of a scan
  nexts,      \* iterator.next() calls so far
  issued,     \* operations so far
  stats,      \* WorkerStats
  calls,      \* per API: calls recorded
  failed,     \* per API: errors recorded
  durable,    \* durable latencies recorded by the end of the drain
  sound,      \* every operation so far had an outcome the workload allows
  phase       \* running, accepted or rejected by execute

stepVars == <<operation, reads, updates, expected, returned>>
bookVars == <<stats, calls, failed, durable, sound>>
vars == <<operations, absent, stepVars, nexts, issued, bookVars, phase>>

Apis == {"get", "put", "scan", "transaction.get", "transaction.put",
         "transaction.commit", "transaction.conflict"}

Mixes == {{"get"}, {"put"}, {"get", "put"}, {"scan"}, {"transaction"}}

Counters == {"errors", "read_hits", "read_misses", "writes", "transaction_attempts",
             "transaction_commits", "transaction_conflicts"}

Init ==
  /\ operations \in Mixes
  /\ absent \in BOOLEAN /\ (absent => operations = {"get"})
  /\ operation = "none" /\ reads = 0 /\ updates = 0 /\ expected = 0 /\ returned = 0
  /\ nexts = 0 /\ issued = 0
  /\ stats = [n \in Counters |-> 0]
  /\ calls = [a \in Apis |-> 0] /\ failed = [a \in Apis |-> 0]
  /\ durable = 0 /\ sound = TRUE
  /\ phase = "running"

-----------------------------------------------------------------------------
(* The books *)

Counting(names) == [n \in Counters |-> IF n \in names THEN stats[n] + 1 ELSE stats[n]]

(* record_success: a call of the API; beside it, the counters named. *)
Succeeds(api, names, allowed) ==
  /\ calls' = [calls EXCEPT ![api] = @ + 1]
  /\ sound' = (sound /\ allowed)
  /\ stats' = Counting(names)
  /\ UNCHANGED <<failed, durable>>

(* record_error: a call as well, and an error in both books. *)
Fails(api) ==
  /\ calls' = [calls EXCEPT ![api] = @ + 1]
  /\ failed' = [failed EXCEPT ![api] = @ + 1]
  /\ stats' = Counting({"errors"})
  /\ sound' = FALSE
  /\ UNCHANGED durable

(* worker_loop's next iteration. *)
Begins(name) ==
  /\ phase = "running" /\ operation = "none" /\ issued < MaxOperations
  /\ name \in operations
  /\ issued' = issued + 1

Idle == operation' = "none" /\ reads' = 0 /\ updates' = 0 /\ expected' = 0 /\ returned' = 0

-----------------------------------------------------------------------------
Get ==
  /\ Begins("get")
  /\ \/ Succeeds("get", {"read_hits"}, ~absent)
     \/ Succeeds("get", {"read_misses"}, absent)
     \/ Fails("get")
  /\ UNCHANGED <<operations, absent, stepVars, nexts, phase>>

Put ==
  /\ Begins("put")
  /\ Succeeds("put", {"writes"}, TRUE) \/ Fails("put")
  /\ UNCHANGED <<operations, absent, stepVars, nexts, phase>>

(* The iterator is created, or that fails and the scan is over. *)
ScanBegins ==
  /\ Begins("scan")
  /\ \/ /\ operation' = "scan" /\ expected' \in 1 .. ScanLimit
        /\ UNCHANGED <<reads, updates, returned, bookVars>>
     \/ Fails("scan") /\ UNCHANGED stepVars
  /\ UNCHANGED <<operations, absent, nexts, phase>>

(* Mutant: one record more than the limit. *)
ScanNextPastLimit ==
  /\ operation = "scan" /\ returned <= ScanLimit
  /\ nexts' = nexts + 1
  /\ returned' = returned + 1
  /\ UNCHANGED <<operations, absent, operation, reads, updates, expected, issued,
                 bookVars, phase>>

(* One call of next(): a record, the end, or an error. *)
ScanNext ==
  /\ operation = "scan" /\ returned < ScanLimit
  /\ nexts' = nexts + 1
  /\ returned' = returned + 1
  /\ UNCHANGED <<operations, absent, operation, reads, updates, expected, issued,
                 bookVars, phase>>

ScanNextFails ==
  /\ operation = "scan" /\ returned < ScanLimit
  /\ nexts' = nexts + 1
  /\ Fails("scan")
  /\ Idle
  /\ UNCHANGED <<operations, absent, issued, phase>>

(* Mutant: a wrong number of records goes unnoticed. *)
ScanEndsUnchecked ==
  /\ operation = "scan"
  /\ nexts' = IF returned = ScanLimit THEN nexts ELSE nexts + 1
  /\ Succeeds("scan", {}, returned = expected)
  /\ Idle
  /\ UNCHANGED <<operations, absent, issued, phase>>

(* The limit is reached, or next() returns None; a number of records other  *)
(* than expected is an error of the workload, not of the API.               *)
ScanEnds ==
  /\ operation = "scan"
  /\ nexts' = IF returned = ScanLimit THEN nexts ELSE nexts + 1
  /\ Succeeds("scan", IF returned = expected THEN {} ELSE {"errors"}, returned = expected)
  /\ Idle
  /\ UNCHANGED <<operations, absent, issued, phase>>

-----------------------------------------------------------------------------
(* configured_transaction_operations: so many reads and updates, shuffled. *)
Shuffled == reads' = Reads /\ updates' = Updates

TransactionBegins ==
  /\ Begins("transaction")
  /\ \/ /\ operation' = "transaction" /\ Shuffled
        /\ stats' = Counting({"transaction_attempts"})
        /\ UNCHANGED <<expected, returned, sound>>
     \/ /\ stats' = Counting({"transaction_attempts", "errors"})
        /\ sound' = FALSE
        /\ UNCHANGED stepVars
  /\ UNCHANGED <<operations, absent, nexts, calls, failed, durable, phase>>

(* Mutant: a conflict is accepted from a read, too. *)
TransactionReadConflicts ==
  /\ operation = "transaction" /\ reads > 0
  /\ \/ /\ Succeeds("transaction.get", {}, TRUE)
        /\ reads' = reads - 1
        /\ UNCHANGED <<operation, updates, expected, returned>>
     \/ Succeeds("transaction.conflict", {"transaction_conflicts"}, TRUE) /\ Idle
  /\ UNCHANGED <<operations, absent, nexts, issued, phase>>

(* Reads and updates come in a shuffled order.  A missing key is an error   *)
(* that lets the transaction go on; an API error ends it.                   *)
TransactionReads ==
  /\ operation = "transaction" /\ reads > 0
  /\ \/ /\ Succeeds("transaction.get", {}, TRUE) \/ Succeeds("transaction.get", {"errors"}, FALSE)
        /\ reads' = reads - 1
        /\ UNCHANGED <<operation, updates, expected, returned>>
     \/ Fails("transaction.get") /\ Idle
  /\ UNCHANGED <<operations, absent, nexts, issued, phase>>

TransactionUpdates ==
  /\ operation = "transaction" /\ updates > 0
  /\ \/ /\ Succeeds("transaction.put", {}, TRUE)
        /\ updates' = updates - 1
        /\ UNCHANGED <<operation, reads, expected, returned>>
     \/ Fails("transaction.put") /\ Idle
  /\ UNCHANGED <<operations, absent, nexts, issued, phase>>

(* Committed; committed without a write handle, an error; in conflict, an   *)
(* outcome of its own; or failed otherwise.                                 *)
TransactionEnds ==
  /\ operation = "transaction" /\ reads = 0 /\ updates = 0
  /\ \/ Succeeds("transaction.commit", {"transaction_commits", "writes"}, TRUE)
     \/ Succeeds("transaction.conflict", {"transaction_conflicts"}, TRUE)
     \/ Fails("transaction.commit")
  /\ Idle
  /\ UNCHANGED <<operations, absent, nexts, issued, phase>>

-----------------------------------------------------------------------------
(* execute, once the deadline has passed *)

(* validate_stats *)
StatsValid ==
  /\ stats["errors"] = 0
  /\ "get" \in operations =>
       IF absent THEN stats["read_hits"] = 0 /\ stats["read_misses"] > 0
       ELSE stats["read_misses"] = 0
  /\ "transaction" \in operations =>
       stats["transaction_attempts"] =
         stats["transaction_commits"] + stats["transaction_conflicts"]

(* SampledMeasurement::application_errors, of which only zero counts. *)
ApplicationErrors == \E a \in Apis : failed[a] > 0

(* The drain records a durable latency for each write that was counted, or  *)
(* fails (Durability); what it hands over is then judged.                   *)
PhaseEnds ==
  /\ phase = "running" /\ operation = "none"
  /\ durable' = stats["writes"]
  /\ phase' = IF StatsValid /\ ~ApplicationErrors THEN "accepted" ELSE "rejected"
  /\ UNCHANGED <<operations, absent, stepVars, nexts, issued, stats, calls, failed, sound>>

Returned == phase # "running" /\ UNCHANGED vars

Next ==
  \/ Get \/ Put
  \/ ScanBegins \/ ScanNext \/ ScanNextFails \/ ScanEnds
  \/ TransactionBegins \/ TransactionReads \/ TransactionUpdates \/ TransactionEnds
  \/ PhaseEnds \/ Returned

Spec == Init /\ [][Next]_vars

-----------------------------------------------------------------------------
(* Every variable keeps its type, and an operation leaves nothing behind.   *)
TypeOK ==
  /\ operations \in Mixes /\ absent \in BOOLEAN
  /\ operation \in {"none", "scan", "transaction"}
  /\ reads \in 0 .. Reads /\ updates \in 0 .. Updates
  /\ expected \in 0 .. ScanLimit /\ returned \in 0 .. ScanLimit
  /\ operation = "none" => reads = 0 /\ updates = 0 /\ expected = 0 /\ returned = 0
  /\ nexts \in Nat /\ issued \in 0 .. MaxOperations
  /\ stats \in [Counters -> Nat]
  /\ calls \in [Apis -> Nat] /\ failed \in [Apis -> Nat] /\ durable \in Nat
  /\ sound \in BOOLEAN
  /\ phase \in {"running", "accepted", "rejected"}

(* validate_transaction_counts and validate_application_rows (validation.rs) *)
(* compare the published counts of a write workload with each other.         *)
CountsReconcile ==
  /\ "put" \in operations => durable = calls["put"]
  /\ "transaction" \in operations =>
       LET attempts == calls["transaction.commit"] + calls["transaction.conflict"]
       IN  /\ calls["transaction.get"] = attempts * Reads
           /\ calls["transaction.put"] = attempts * Updates
           /\ durable = calls["transaction.commit"]

(* What execute accepts by the counters, the validation of the published    *)
(* result accepts by the recorded calls: no workload passes the first after *)
(* hours of measurement to be thrown away by the second.                    *)
AcceptedReconciles == phase = "accepted" => CountsReconcile

(* No outcome the workload does not allow slips through: a missing record,  *)
(* a short scan, an absent key that was found, a failed call.  And nothing  *)
(* else is rejected, but a workload of absent keys that read none: not a    *)
(* transaction that met a conflict, in particular.                          *)
JudgedBySoundness ==
  phase # "running" =>
    (phase = "accepted" <=> sound /\ (absent => stats["read_misses"] > 0))

(* docs/DESIGN.md:84: "The `scan` API row records each iterator `next()`    *)
(* call separately".                                                        *)
ScanRowCountsNexts ==
  operation = "none" /\ ~ApplicationErrors => calls["scan"] = nexts
=============================================================================
