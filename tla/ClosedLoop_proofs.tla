-------------------------- MODULE ClosedLoop_proofs --------------------------
(***************************************************************************)
(* The judgement of a closed-loop client, proved for any number of         *)
(* operations of any length.                                               *)
(*                                                                         *)
(* As long as no error is counted the two sets of books agree: each write  *)
(* is a recorded put or commit, and each transaction that has ended        *)
(* recorded all its reads and updates, the one under way those it has done *)
(* (Reconciled).  An outcome that the workload does not allow always shows *)
(* in a counter, and nothing else does (Sound).                            *)
(*                                                                         *)
(* Of the row of an API, the calls that are counted are the latencies that *)
(* were recorded, in the window under way and in the merge of those that   *)
(* were sampled (Booked); its percentiles are in order by Percentiles_proofs. *)
(***************************************************************************)
EXTENDS Rows, Percentiles_proofs, TLAPS

Absent == absent => operations = {"get"}

(* What the workload does not allow is in the counters. *)
Sound ==
  /\ sound => /\ stats["errors"] = 0 /\ \A a \in Apis : failed[a] = 0
              /\ IF absent THEN stats["read_hits"] = 0 ELSE stats["read_misses"] = 0
  /\ ~sound => \/ stats["errors"] > 0
               \/ /\ "get" \in operations
                  /\ IF absent THEN stats["read_hits"] > 0 ELSE stats["read_misses"] > 0

Open == IF operation = "transaction" THEN 1 ELSE 0
Attempts == calls["transaction.commit"] + calls["transaction.conflict"]

(* The operations that a workload does not have leave no trace. *)
Unmixed ==
  /\ operation # "none" => operation \in operations
  /\ operation # "transaction" => reads = 0 /\ updates = 0
  /\ "put" \notin operations => calls["put"] = 0
  /\ "transaction" \notin operations => calls["transaction.commit"] = 0

Reconciled ==
  stats["errors"] = 0 =>
    /\ stats["writes"] = calls["put"] + calls["transaction.commit"]
    /\ stats["transaction_commits"] = calls["transaction.commit"]
    /\ stats["transaction_conflicts"] = calls["transaction.conflict"]
    /\ stats["transaction_attempts"] = Attempts + Open
    /\ calls["transaction.get"] + reads = (Attempts + Open) * Reads
    /\ calls["transaction.put"] + updates = (Attempts + Open) * Updates

Judged ==
  phase # "running" =>
    /\ operation = "none" /\ durable = stats["writes"]
    /\ phase = "accepted" <=> StatsValid /\ ~ApplicationErrors

LoopInv == TypeOK /\ Absent /\ Sound /\ Unmixed /\ Reconciled /\ Judged
-----------------------------------------------------------------------------
USE LoopAssumption

LEMMA Multiples ==
  ASSUME NEW a \in Nat, NEW n \in Nat
  PROVE  a * n \in Nat /\ (a + 1) * n = a * n + n
BY SMT

LEMMA LoopInitInv == Init => LoopInv
<1> SUFFICES ASSUME Init PROVE LoopInv
  OBVIOUS
<1>1. TypeOK
  BY DEF Init, TypeOK
<1>2. Absent /\ Sound /\ Unmixed /\ Judged
  BY DEF Init, Absent, Sound, Unmixed, Judged, Counters, Apis
<1>3. Reconciled
  <2>1. Attempts + Open = 0 /\ 0 * Reads = 0 /\ 0 * Updates = 0
    BY DEF Init, Attempts, Open, Apis
  <2> QED
    BY <2>1 DEF Init, Reconciled, Counters, Apis
<1> QED
  BY <1>1, <1>2, <1>3 DEF LoopInv

(* The books after a call that succeeds, and after one that fails. *)
LEMMA CallSucceeds ==
  ASSUME TypeOK, NEW called \in Apis, NEW names \in SUBSET Counters, NEW allowed \in BOOLEAN,
         Succeeds(called, names, allowed)
  PROVE  /\ calls' \in [Apis -> Nat] /\ stats' \in [Counters -> Nat] /\ sound' \in BOOLEAN
         /\ \A a \in Apis : calls'[a] = IF a = called THEN calls[a] + 1 ELSE calls[a]
         /\ \A n \in Counters : stats'[n] = IF n \in names THEN stats[n] + 1 ELSE stats[n]
         /\ sound' <=> sound /\ allowed
         /\ UNCHANGED <<failed, durable>>
<1>1. calls' = [calls EXCEPT ![called] = calls[called] + 1]
      /\ stats' = [n \in Counters |-> IF n \in names THEN stats[n] + 1 ELSE stats[n]]
      /\ calls \in [Apis -> Nat] /\ stats \in [Counters -> Nat]
  BY DEF Succeeds, Counting, TypeOK
<1>2. sound' = (sound /\ allowed) /\ UNCHANGED <<failed, durable>> /\ sound \in BOOLEAN
  BY DEF Succeeds, TypeOK
<1> QED
  BY <1>1, <1>2

LEMMA CallFails ==
  ASSUME TypeOK, NEW called \in Apis, Fails(called)
  PROVE  /\ calls' \in [Apis -> Nat] /\ stats' \in [Counters -> Nat]
         /\ failed' \in [Apis -> Nat]
         /\ \A a \in Apis \ {called} : calls'[a] = calls[a]
         /\ stats'["errors"] > 0
         /\ sound' = FALSE /\ UNCHANGED durable
<1>1. calls' = [calls EXCEPT ![called] = calls[called] + 1]
      /\ failed' = [failed EXCEPT ![called] = failed[called] + 1]
      /\ stats' = [n \in Counters |-> IF n = "errors" THEN stats[n] + 1 ELSE stats[n]]
      /\ calls \in [Apis -> Nat] /\ stats \in [Counters -> Nat] /\ failed \in [Apis -> Nat]
      /\ sound' = FALSE /\ UNCHANGED durable
  BY DEF Fails, Counting, TypeOK
<1>2. "errors" \in Counters
  BY DEF Counters
<1> QED
  BY <1>1, <1>2

Names(operationName) ==
  CASE operationName = "transaction" ->
         {"transaction.get", "transaction.put", "transaction.commit", "transaction.conflict"}
    [] OTHER -> {operationName}

(* A step that fails: the error is in both books, and nothing else counts. *)
LEMMA FailsInv ==
  ASSUME LoopInv, NEW name \in operations, NEW called \in Names(name), Fails(called),
         phase = "running",
         \/ UNCHANGED stepVars /\ operation = "none"
         \/ Idle,
         issued' \in 0 .. MaxOperations, nexts' \in Nat,
         UNCHANGED <<operations, absent, phase>>
  PROVE  LoopInv'
<1>1. name \in {"get", "put", "scan", "transaction"} /\ called \in Apis
  BY DEF LoopInv, TypeOK, Mixes, Names, Apis
<1>2. /\ calls' \in [Apis -> Nat] /\ stats' \in [Counters -> Nat]
      /\ failed' \in [Apis -> Nat]
      /\ \A a \in Apis \ {called} : calls'[a] = calls[a]
      /\ stats'["errors"] > 0 /\ stats'["errors"] \in Nat
      /\ sound' = FALSE /\ UNCHANGED durable
  BY <1>1, CallFails DEF LoopInv, Counters
<1>3. operation' = "none" /\ reads' = 0 /\ updates' = 0 /\ expected' = 0 /\ returned' = 0
  BY DEF stepVars, Idle, LoopInv, TypeOK
<1>4. TypeOK'
  <2>1. 0 \in 0 .. Reads /\ 0 \in 0 .. Updates /\ 0 \in 0 .. ScanLimit
    OBVIOUS
  <2>2. operations \in Mixes /\ absent \in BOOLEAN /\ durable \in Nat
    BY DEF LoopInv, TypeOK
  <2> QED
    BY <1>2, <1>3, <2>1, <2>2, Zenon DEF TypeOK
<1>5. Sound' /\ Reconciled' /\ Judged' /\ Absent'
  BY <1>2 DEF LoopInv, Sound, Reconciled, Judged, Absent
<1>6. Unmixed'
  BY <1>1, <1>2, <1>3 DEF LoopInv, Unmixed, Names, Apis
<1> QED
  BY <1>4, <1>5, <1>6 DEF LoopInv

(* Gets, puts and scans *)

LEMMA GetInv ==
  ASSUME LoopInv, Get
  PROVE  LoopInv'
<1>1. /\ phase = "running" /\ operation = "none" /\ "get" \in operations
      /\ issued' \in 0 .. MaxOperations
      /\ UNCHANGED <<operations, absent, stepVars, nexts, phase>>
  BY DEF Get, Begins, LoopInv, TypeOK
<1>2. CASE Fails("get")
  <2>1. "get" \in Names("get") /\ nexts' \in Nat
    BY <1>1 DEF Names, LoopInv, TypeOK
  <2> QED
    BY <1>1, <1>2, <2>1, FailsInv
<1>3. ASSUME NEW name \in {"read_hits", "read_misses"}, NEW allowed \in BOOLEAN,
             allowed <=> (name = "read_hits" <=> ~absent), Succeeds("get", {name}, allowed)
      PROVE  LoopInv'
  <2>1. {name} \in SUBSET Counters /\ "get" \in Apis /\ TypeOK
    BY DEF Counters, Apis, LoopInv
  <2>2. /\ calls' \in [Apis -> Nat] /\ stats' \in [Counters -> Nat] /\ sound' \in BOOLEAN
        /\ \A a \in Apis : calls'[a] = IF a = "get" THEN calls[a] + 1 ELSE calls[a]
        /\ \A n \in Counters : stats'[n] = IF n \in {name} THEN stats[n] + 1 ELSE stats[n]
        /\ sound' <=> sound /\ allowed
        /\ UNCHANGED <<failed, durable>>
    BY <1>3, <2>1, CallSucceeds, Zenon
  <2>3. /\ stats \in [Counters -> Nat] /\ \A a \in Apis \ {"get"} : calls'[a] = calls[a]
        /\ stats'["errors"] = stats["errors"] /\ stats'["writes"] = stats["writes"]
        /\ stats'["transaction_attempts"] = stats["transaction_attempts"]
        /\ stats'["transaction_commits"] = stats["transaction_commits"]
        /\ stats'["transaction_conflicts"] = stats["transaction_conflicts"]
        /\ name = "read_hits" => /\ stats'["read_hits"] = stats["read_hits"] + 1
                                 /\ stats'["read_misses"] = stats["read_misses"]
        /\ name = "read_misses" => /\ stats'["read_misses"] = stats["read_misses"] + 1
                                   /\ stats'["read_hits"] = stats["read_hits"]
    BY <1>3, <2>2 DEF Counters, LoopInv, TypeOK
  <2>4. UNCHANGED <<operation, reads, updates, expected, returned>>
    BY <1>1 DEF stepVars
  <2>5. TypeOK'
    BY <1>1, <2>2, <2>4 DEF LoopInv, TypeOK
  <2>6. Absent' /\ Judged'
    BY <1>1 DEF LoopInv, Absent, Judged
  <2>7. Sound'
    <3>1. stats["read_hits"] \in Nat /\ stats["read_misses"] \in Nat /\ stats["errors"] \in Nat
          /\ absent \in BOOLEAN
      BY <2>3 DEF Counters, LoopInv, TypeOK
    <3> QED
      BY <1>1, <1>3, <2>2, <2>3, <3>1 DEF LoopInv, Sound
  <2>8. Unmixed' /\ Reconciled'
    BY <1>1, <2>3, <2>4 DEF LoopInv, Unmixed, Reconciled, Attempts, Open, Apis
  <2> QED
    BY <2>5, <2>6, <2>7, <2>8 DEF LoopInv
<1>4. CASE Succeeds("get", {"read_hits"}, ~absent) \/ Succeeds("get", {"read_misses"}, absent)
  <2>1. absent \in BOOLEAN /\ (~absent) \in BOOLEAN
    BY DEF LoopInv, TypeOK
  <2> QED
    BY <1>3, <1>4, <2>1
<1> QED
  BY <1>2, <1>4 DEF Get

LEMMA PutInv ==
  ASSUME LoopInv, Put
  PROVE  LoopInv'
<1>1. /\ phase = "running" /\ operation = "none" /\ "put" \in operations
      /\ issued' \in 0 .. MaxOperations
      /\ UNCHANGED <<operations, absent, stepVars, nexts, phase>>
  BY DEF Put, Begins, LoopInv, TypeOK
<1>2. CASE Fails("put")
  <2>1. "put" \in Names("put") /\ nexts' \in Nat
    BY <1>1 DEF Names, LoopInv, TypeOK
  <2> QED
    BY <1>1, <1>2, <2>1, FailsInv
<1>3. CASE Succeeds("put", {"writes"}, TRUE)
  <2>1. {"writes"} \in SUBSET Counters /\ "put" \in Apis
    BY DEF Counters, Apis
  <2>2. /\ calls' \in [Apis -> Nat] /\ stats' \in [Counters -> Nat] /\ sound' \in BOOLEAN
        /\ \A a \in Apis : calls'[a] = IF a = "put" THEN calls[a] + 1 ELSE calls[a]
        /\ \A n \in Counters : stats'[n] = IF n = "writes" THEN stats[n] + 1 ELSE stats[n]
        /\ sound' <=> sound
        /\ UNCHANGED <<failed, durable>>
    <3>1. TypeOK /\ TRUE \in BOOLEAN
      BY DEF LoopInv
    <3>2. /\ \A n \in Counters : stats'[n] = IF n \in {"writes"} THEN stats[n] + 1 ELSE stats[n]
          /\ \A a \in Apis : calls'[a] = IF a = "put" THEN calls[a] + 1 ELSE calls[a]
          /\ calls' \in [Apis -> Nat] /\ stats' \in [Counters -> Nat] /\ sound' \in BOOLEAN
          /\ sound' <=> sound /\ TRUE
          /\ UNCHANGED <<failed, durable>>
      BY <1>3, <2>1, <3>1, CallSucceeds, Zenon
    <3> QED
      BY <3>2
  <2>3. /\ stats \in [Counters -> Nat] /\ calls \in [Apis -> Nat]
        /\ stats'["errors"] = stats["errors"] /\ stats'["writes"] = stats["writes"] + 1
        /\ stats'["transaction_attempts"] = stats["transaction_attempts"]
        /\ stats'["transaction_commits"] = stats["transaction_commits"]
        /\ stats'["transaction_conflicts"] = stats["transaction_conflicts"]
        /\ stats'["read_hits"] = stats["read_hits"]
        /\ stats'["read_misses"] = stats["read_misses"]
    BY <2>2 DEF Counters, LoopInv, TypeOK
  <2>4. UNCHANGED <<operation, reads, updates, expected, returned>>
    BY <1>1 DEF stepVars
  <2>5. TypeOK'
    BY <1>1, <2>2, <2>4 DEF LoopInv, TypeOK
  <2>6. Absent' /\ Judged'
    BY <1>1 DEF LoopInv, Absent, Judged
  <2>7. Sound'
    BY <1>1, <2>2, <2>3 DEF LoopInv, Sound
  <2>8. Unmixed'
    BY <1>1, <2>2, <2>4 DEF LoopInv, Unmixed, Apis
  <2>9. Reconciled'
    <3>1. calls'["put"] = calls["put"] + 1
          /\ calls["put"] \in Nat /\ calls["transaction.commit"] \in Nat
          /\ \A a \in Apis \ {"put"} : calls'[a] = calls[a]
      BY <2>2, <2>3 DEF Apis
    <3> QED
      BY <2>3, <2>4, <3>1 DEF LoopInv, Reconciled, Attempts, Open, Apis
  <2> QED
    BY <2>5, <2>6, <2>7, <2>8, <2>9 DEF LoopInv
<1> QED
  BY <1>2, <1>3 DEF Put

(* An error is counted, and nothing else that the invariant speaks of. *)
LEMMA ErrorInv ==
  ASSUME LoopInv, TypeOK', stats'["errors"] > 0, sound' = FALSE,
         phase = "running",
         operation' = "none" \/ (operation = "transaction" /\ UNCHANGED operation),
         calls'["put"] = calls["put"], calls'["transaction.commit"] = calls["transaction.commit"],
         UNCHANGED <<operations, absent, phase>>
  PROVE  LoopInv'
<1>1. stats'["errors"] # 0
  BY DEF TypeOK, Counters
<1>2. Sound' /\ Reconciled' /\ Judged' /\ Absent' /\ Unmixed'
  BY <1>1 DEF LoopInv, Sound, Reconciled, Judged, Absent, Unmixed, TypeOK
<1> QED
  BY <1>2 DEF LoopInv

(* A step of a scan that counts no error. *)
LEMMA ScanStepInv ==
  ASSUME LoopInv, TypeOK', \A n \in Counters : stats'[n] = stats[n],
         \A a \in Apis \ {"scan"} : calls'[a] = calls[a],
         phase = "running", operation \in {"none", "scan"}, operation' \in {"none", "scan"},
         "scan" \in operations,
         UNCHANGED <<operations, absent, failed, sound, reads, updates, phase>>
  PROVE  LoopInv'
<1>1. /\ stats'["errors"] = stats["errors"] /\ stats'["writes"] = stats["writes"]
      /\ stats'["transaction_attempts"] = stats["transaction_attempts"]
      /\ stats'["transaction_commits"] = stats["transaction_commits"]
      /\ stats'["transaction_conflicts"] = stats["transaction_conflicts"]
      /\ stats'["read_hits"] = stats["read_hits"]
      /\ stats'["read_misses"] = stats["read_misses"]
  BY DEF Counters
<1>2. Sound'
  BY <1>1 DEF LoopInv, Sound
<1>3. Reconciled'
  BY <1>1 DEF LoopInv, Reconciled, Attempts, Open, Apis
<1>4. Judged' /\ Absent' /\ Unmixed'
  BY DEF LoopInv, Judged, Absent, Unmixed, Apis
<1> QED
  BY <1>2, <1>3, <1>4 DEF LoopInv

LEMMA ScanInv ==
  ASSUME LoopInv, ScanBegins \/ ScanNext \/ ScanNextFails \/ ScanEnds
  PROVE  LoopInv'
<1>1. /\ operation \in {"none", "scan"} /\ "scan" \in operations /\ phase = "running"
      /\ nexts \in Nat /\ nexts' \in Nat
      /\ issued \in 0 .. MaxOperations /\ issued' \in 0 .. MaxOperations
      /\ UNCHANGED <<operations, absent, phase>>
  BY DEF ScanBegins, Begins, ScanNext, ScanNextFails, ScanEnds, LoopInv, TypeOK, Judged, Unmixed
<1>2. /\ reads \in 0 .. Reads /\ updates \in 0 .. Updates /\ TypeOK
  BY DEF LoopInv, TypeOK
<1>3. CASE Fails("scan") /\ ((UNCHANGED stepVars /\ operation = "none") \/ Idle)
  <2>1. "scan" \in Names("scan")
    BY DEF Names
  <2> QED
    BY <1>1, <1>3, <2>1, FailsInv
<1>4. CASE \/ ScanNext
           \/ /\ operation' = "scan" /\ expected' \in 1 .. ScanLimit
              /\ UNCHANGED <<reads, updates, returned, bookVars>>
  <2>1. /\ operation' = "scan" /\ expected' \in 0 .. ScanLimit /\ returned' \in 0 .. ScanLimit
        /\ UNCHANGED <<reads, updates, stats, calls, failed, durable, sound>>
    BY <1>4 DEF ScanNext, bookVars, LoopInv, TypeOK
  <2>2. TypeOK'
    BY <1>1, <1>2, <2>1 DEF TypeOK
  <2> QED
    BY <1>1, <2>1, <2>2, ScanStepInv
<1>5. CASE ScanEnds
  <2>1. operation' = "none" /\ reads' = 0 /\ updates' = 0 /\ expected' = 0 /\ returned' = 0
        /\ operation = "scan"
    BY <1>5 DEF ScanEnds, Idle
  <2>2. 0 \in 0 .. Reads /\ 0 \in 0 .. Updates /\ 0 \in 0 .. ScanLimit
    OBVIOUS
  <2>3. {} \in SUBSET Counters /\ {"errors"} \in SUBSET Counters /\ "scan" \in Apis
        /\ "errors" \in Counters /\ stats \in [Counters -> Nat]
    BY DEF Counters, Apis, LoopInv, TypeOK
  <2>4. CASE returned = expected
    <3>1. Succeeds("scan", {}, TRUE)
      BY <1>5, <2>4 DEF ScanEnds
    <3>2. /\ calls' \in [Apis -> Nat] /\ stats' \in [Counters -> Nat] /\ sound' \in BOOLEAN
          /\ \A a \in Apis : calls'[a] = IF a = "scan" THEN calls[a] + 1 ELSE calls[a]
          /\ \A n \in Counters : stats'[n] = IF n \in {} THEN stats[n] + 1 ELSE stats[n]
          /\ sound' <=> sound /\ TRUE
          /\ UNCHANGED <<failed, durable>>
      BY <1>2, <2>3, <3>1, CallSucceeds, Zenon
    <3>3. TypeOK'
      BY <1>1, <1>2, <2>1, <2>2, <3>2, Zenon DEF TypeOK
    <3>4. UNCHANGED <<reads, updates>>
      BY <2>1 DEF LoopInv, Unmixed
    <3>5. \A n \in Counters : stats'[n] = stats[n]
      BY <3>2
    <3>6. sound' = sound
      BY <1>2, <3>2 DEF TypeOK
    <3>7. \A a \in Apis \ {"scan"} : calls'[a] = calls[a]
      BY <3>2
    <3> QED
      BY <1>1, <2>1, <3>2, <3>3, <3>4, <3>5, <3>6, <3>7, ScanStepInv
  <2>5. CASE returned # expected
    <3>1. Succeeds("scan", {"errors"}, FALSE)
      BY <1>5, <2>5 DEF ScanEnds
    <3>2. /\ calls' \in [Apis -> Nat] /\ stats' \in [Counters -> Nat] /\ sound' \in BOOLEAN
          /\ \A a \in Apis : calls'[a] = IF a = "scan" THEN calls[a] + 1 ELSE calls[a]
          /\ \A n \in Counters : stats'[n] = IF n \in {"errors"} THEN stats[n] + 1 ELSE stats[n]
          /\ sound' <=> sound /\ FALSE
          /\ UNCHANGED <<failed, durable>>
      BY <1>2, <2>3, <3>1, CallSucceeds, Zenon
    <3>3. TypeOK'
      BY <1>1, <1>2, <2>1, <2>2, <3>2, Zenon DEF TypeOK
    <3>4. stats'["errors"] > 0 /\ sound' = FALSE
      BY <2>3, <3>2
    <3> QED
      BY <1>1, <2>1, <3>2, <3>3, <3>4, ErrorInv DEF Apis
  <2> QED
    BY <2>4, <2>5
<1> QED
  BY <1>3, <1>4, <1>5 DEF ScanBegins, Begins, ScanNextFails

(* Transactions *)

LEMMA TransactionBeginsInv ==
  ASSUME LoopInv, TransactionBegins
  PROVE  LoopInv'
<1>1. /\ phase = "running" /\ operation = "none" /\ "transaction" \in operations
      /\ issued' \in 0 .. MaxOperations /\ nexts' \in Nat
      /\ TypeOK /\ stats \in [Counters -> Nat] /\ sound \in BOOLEAN
      /\ UNCHANGED <<operations, absent, nexts, calls, failed, durable, phase>>
  BY DEF TransactionBegins, Begins, LoopInv, TypeOK
<1>2. reads = 0 /\ updates = 0
  BY <1>1 DEF TypeOK
<1>3. CASE /\ operation' = "transaction" /\ Shuffled
           /\ stats' = Counting({"transaction_attempts"})
           /\ UNCHANGED <<expected, returned, sound>>
  <2>1. /\ stats' \in [Counters -> Nat]
        /\ stats'["errors"] = stats["errors"] /\ stats'["writes"] = stats["writes"]
        /\ stats'["transaction_attempts"] = stats["transaction_attempts"] + 1
        /\ stats'["transaction_commits"] = stats["transaction_commits"]
        /\ stats'["transaction_conflicts"] = stats["transaction_conflicts"]
        /\ stats'["read_hits"] = stats["read_hits"]
        /\ stats'["read_misses"] = stats["read_misses"]
    BY <1>1, <1>3 DEF Counting, Counters
  <2>2. reads' = Reads /\ updates' = Updates
    BY <1>3 DEF Shuffled
  <2>3. TypeOK'
    <3>1. Reads \in 0 .. Reads /\ Updates \in 0 .. Updates
      OBVIOUS
    <3>2. /\ expected' \in 0 .. ScanLimit /\ returned' \in 0 .. ScanLimit
          /\ operations' \in Mixes /\ absent' \in BOOLEAN /\ calls' \in [Apis -> Nat]
          /\ failed' \in [Apis -> Nat] /\ durable' \in Nat /\ sound' \in BOOLEAN
          /\ phase' = "running"
      BY <1>1, <1>3 DEF TypeOK
    <3> QED
      BY <1>1, <1>3, <2>1, <2>2, <3>1, <3>2, Zenon DEF TypeOK
  <2>4. Sound' /\ Judged' /\ Absent' /\ Unmixed'
    BY <1>1, <1>3, <2>1 DEF LoopInv, Sound, Judged, Absent, Unmixed
  <2>5. Reconciled'
    <3>1. Attempts \in Nat /\ Attempts' = Attempts /\ Open = 0 /\ Open' = 1
      BY <1>1, <1>3 DEF Attempts, Open, TypeOK, Apis
    <3>2. (Attempts + 1) * Reads = Attempts * Reads + Reads
          /\ (Attempts + 1) * Updates = Attempts * Updates + Updates
          /\ Attempts * Reads \in Nat /\ Attempts * Updates \in Nat
      BY <3>1, Multiples
    <3>3. calls["transaction.get"] \in Nat /\ calls["transaction.put"] \in Nat
      BY <1>1 DEF TypeOK, Apis
    <3>4. SUFFICES ASSUME stats["errors"] = 0
                   PROVE  /\ calls["transaction.get"] + Reads = (Attempts + 1) * Reads
                          /\ calls["transaction.put"] + Updates = (Attempts + 1) * Updates
                          /\ stats["transaction_attempts"] + 1 = Attempts + 1
      BY <1>1, <2>1, <2>2, <3>1 DEF LoopInv, Reconciled
    <3>5. /\ calls["transaction.get"] + 0 = (Attempts + 0) * Reads
          /\ calls["transaction.put"] + 0 = (Attempts + 0) * Updates
          /\ stats["transaction_attempts"] = Attempts + 0
      BY <1>2, <3>1, <3>4 DEF LoopInv, Reconciled
    <3> QED
      BY <3>1, <3>2, <3>3, <3>5
  <2> QED
    BY <2>3, <2>4, <2>5 DEF LoopInv
<1>4. CASE /\ stats' = Counting({"transaction_attempts", "errors"})
           /\ sound' = FALSE
           /\ UNCHANGED stepVars
  <2>1. stats' \in [Counters -> Nat] /\ stats'["errors"] > 0
    BY <1>1, <1>4 DEF Counting, Counters
  <2>2. UNCHANGED <<operation, reads, updates, expected, returned>>
    BY <1>4 DEF stepVars
  <2>3. TypeOK'
    BY <1>1, <1>4, <2>1, <2>2 DEF TypeOK
  <2> QED
    BY <1>1, <1>4, <2>1, <2>2, <2>3, ErrorInv
<1> QED
  BY <1>3, <1>4 DEF TransactionBegins

(* A transaction that goes on after a read that found its key, or an update. *)
LEMMA TransactionStepInv ==
  ASSUME LoopInv, NEW called \in {"transaction.get", "transaction.put"},
         operation = "transaction", Succeeds(called, {}, TRUE),
         IF called = "transaction.get" THEN reads > 0 /\ reads' = reads - 1 /\ UNCHANGED updates
                                       ELSE updates > 0 /\ updates' = updates - 1 /\ UNCHANGED reads,
         UNCHANGED <<operations, absent, operation, expected, returned, nexts, issued, phase>>
  PROVE  LoopInv'
<1>1. /\ phase = "running" /\ TypeOK /\ stats \in [Counters -> Nat] /\ sound \in BOOLEAN
      /\ reads \in 0 .. Reads /\ updates \in 0 .. Updates /\ calls \in [Apis -> Nat]
  BY DEF LoopInv, TypeOK, Judged
<1>2. {} \in SUBSET Counters /\ called \in Apis /\ TRUE \in BOOLEAN
  BY DEF Apis
<1>3. /\ calls' \in [Apis -> Nat] /\ stats' \in [Counters -> Nat] /\ sound' \in BOOLEAN
      /\ \A a \in Apis : calls'[a] = IF a = called THEN calls[a] + 1 ELSE calls[a]
      /\ \A n \in Counters : stats'[n] = IF n \in {} THEN stats[n] + 1 ELSE stats[n]
      /\ sound' <=> sound /\ TRUE
      /\ UNCHANGED <<failed, durable>>
  BY <1>1, <1>2, CallSucceeds, Zenon
<1>4. /\ \A n \in Counters : stats'[n] = stats[n]
      /\ sound' = sound
  BY <1>1, <1>3
<1>5. /\ stats'["errors"] = stats["errors"] /\ stats'["writes"] = stats["writes"]
      /\ stats'["transaction_attempts"] = stats["transaction_attempts"]
      /\ stats'["transaction_commits"] = stats["transaction_commits"]
      /\ stats'["transaction_conflicts"] = stats["transaction_conflicts"]
      /\ stats'["read_hits"] = stats["read_hits"]
      /\ stats'["read_misses"] = stats["read_misses"]
  BY <1>4 DEF Counters
<1>6. /\ reads' \in 0 .. Reads /\ updates' \in 0 .. Updates
  BY <1>1
<1>7. TypeOK'
  <2>1. /\ expected' \in 0 .. ScanLimit /\ returned' \in 0 .. ScanLimit
        /\ operations' \in Mixes /\ absent' \in BOOLEAN /\ operation' = "transaction"
        /\ failed' \in [Apis -> Nat] /\ durable' \in Nat
        /\ nexts' \in Nat /\ issued' \in 0 .. MaxOperations /\ phase' = "running"
    BY <1>1, <1>3 DEF TypeOK
  <2> QED
    BY <1>3, <1>6, <2>1, Zenon DEF TypeOK
<1>8. calls'["put"] = calls["put"]
      /\ calls'["transaction.commit"] = calls["transaction.commit"]
      /\ calls'["transaction.conflict"] = calls["transaction.conflict"]
  BY <1>2, <1>3 DEF Apis
<1>9. Sound' /\ Judged' /\ Absent' /\ Unmixed'
  BY <1>1, <1>3, <1>4, <1>5, <1>8 DEF LoopInv, Sound, Judged, Absent, Unmixed
<1>10. Reconciled'
  <2>1. Attempts' = Attempts /\ Open' = Open
    BY <1>8 DEF Attempts, Open
  <2>2. /\ calls'["transaction.get"] + reads' = calls["transaction.get"] + reads
        /\ calls'["transaction.put"] + updates' = calls["transaction.put"] + updates
    <3>1. "transaction.get" \in Apis /\ "transaction.put" \in Apis
      BY DEF Apis
    <3> QED
      BY <1>1, <1>3, <3>1
  <2> QED
    BY <1>5, <1>8, <2>1, <2>2 DEF LoopInv, Reconciled
<1> QED
  BY <1>7, <1>9, <1>10 DEF LoopInv

LEMMA TransactionOperationInv ==
  ASSUME LoopInv, TransactionReads \/ TransactionUpdates
  PROVE  LoopInv'
<1>1. /\ operation = "transaction" /\ phase = "running" /\ TypeOK
      /\ "transaction" \in operations
      /\ reads \in 0 .. Reads /\ updates \in 0 .. Updates
      /\ nexts \in Nat /\ issued \in 0 .. MaxOperations /\ stats \in [Counters -> Nat]
      /\ UNCHANGED <<operations, absent, nexts, issued, phase>>
  BY DEF TransactionReads, TransactionUpdates, LoopInv, Judged, Unmixed, TypeOK
<1>2. ASSUME NEW called \in {"transaction.get", "transaction.put"}, Fails(called), Idle
      PROVE  LoopInv'
  <2>1. called \in Names("transaction")
    BY DEF Names
  <2> QED
    BY <1>1, <1>2, <2>1, FailsInv
<1>3. CASE /\ Succeeds("transaction.get", {"errors"}, FALSE)
           /\ reads > 0 /\ reads' = reads - 1
           /\ UNCHANGED <<operation, updates, expected, returned>>
  <2>1. {"errors"} \in SUBSET Counters /\ "errors" \in Counters /\ "transaction.get" \in Apis
        /\ FALSE \in BOOLEAN
    BY DEF Counters, Apis
  <2>2. /\ calls' \in [Apis -> Nat] /\ stats' \in [Counters -> Nat] /\ sound' \in BOOLEAN
        /\ \A a \in Apis : calls'[a] = IF a = "transaction.get" THEN calls[a] + 1 ELSE calls[a]
        /\ \A n \in Counters : stats'[n] = IF n \in {"errors"} THEN stats[n] + 1 ELSE stats[n]
        /\ sound' <=> sound /\ FALSE
        /\ UNCHANGED <<failed, durable>>
    BY <1>1, <1>3, <2>1, CallSucceeds, Zenon
  <2>3. stats'["errors"] > 0 /\ sound' = FALSE /\ reads' \in 0 .. Reads
    BY <1>1, <1>3, <2>1, <2>2
  <2>4. TypeOK'
    <3>1. /\ expected' \in 0 .. ScanLimit /\ returned' \in 0 .. ScanLimit
          /\ operations' \in Mixes /\ absent' \in BOOLEAN /\ operation' = "transaction"
          /\ failed' \in [Apis -> Nat] /\ durable' \in Nat /\ updates' \in 0 .. Updates
          /\ nexts' \in Nat /\ issued' \in 0 .. MaxOperations /\ phase' = "running"
      BY <1>1, <1>3, <2>2 DEF TypeOK
    <3> QED
      BY <2>2, <2>3, <3>1, Zenon DEF TypeOK
  <2> QED
    BY <1>1, <1>3, <2>2, <2>3, <2>4, ErrorInv DEF Apis
<1>4. CASE /\ Succeeds("transaction.get", {}, TRUE)
           /\ reads > 0 /\ reads' = reads - 1
           /\ UNCHANGED <<operation, updates, expected, returned>>
  BY <1>1, <1>4, TransactionStepInv
<1>5. CASE /\ Succeeds("transaction.put", {}, TRUE)
           /\ updates > 0 /\ updates' = updates - 1
           /\ UNCHANGED <<operation, reads, expected, returned>>
  BY <1>1, <1>5, TransactionStepInv
<1> QED
  BY <1>2, <1>3, <1>4, <1>5 DEF TransactionReads, TransactionUpdates

(* A commit or a conflict: the operations that were open have all been called. *)
LEMMA TransactionEndsInv ==
  ASSUME LoopInv, TransactionEnds
  PROVE  LoopInv'
<1>1. /\ operation = "transaction" /\ reads = 0 /\ updates = 0 /\ phase = "running"
      /\ TypeOK /\ "transaction" \in operations
      /\ nexts \in Nat /\ issued \in 0 .. MaxOperations /\ stats \in [Counters -> Nat]
      /\ calls \in [Apis -> Nat] /\ sound \in BOOLEAN
      /\ Idle /\ UNCHANGED <<operations, absent, nexts, issued, phase>>
  BY DEF TransactionEnds, LoopInv, Judged, Unmixed, TypeOK
<1>2. CASE Fails("transaction.commit")
  <2>1. "transaction.commit" \in Names("transaction")
    BY DEF Names
  <2> QED
    BY <1>1, <1>2, <2>1, FailsInv
<1>3. ASSUME NEW committed \in BOOLEAN,
             IF committed THEN Succeeds("transaction.commit", {"transaction_commits", "writes"}, TRUE)
             ELSE Succeeds("transaction.conflict", {"transaction_conflicts"}, TRUE)
      PROVE  LoopInv'
  <2>1. /\ {"transaction_commits", "writes"} \in SUBSET Counters
        /\ {"transaction_conflicts"} \in SUBSET Counters
        /\ "transaction.commit" \in Apis /\ "transaction.conflict" \in Apis /\ TRUE \in BOOLEAN
    BY DEF Counters, Apis
  <2> DEFINE called == IF committed THEN "transaction.commit" ELSE "transaction.conflict"
             names == IF committed THEN {"transaction_commits", "writes"} ELSE {"transaction_conflicts"}
  <2>2. /\ calls' \in [Apis -> Nat] /\ stats' \in [Counters -> Nat] /\ sound' = sound
        /\ \A a \in Apis : calls'[a] = IF a = called THEN calls[a] + 1 ELSE calls[a]
        /\ \A n \in Counters : stats'[n] = IF n \in names THEN stats[n] + 1 ELSE stats[n]
        /\ UNCHANGED <<failed, durable>>
    <3>1. CASE committed
      <4>1. /\ calls' \in [Apis -> Nat] /\ stats' \in [Counters -> Nat] /\ sound' \in BOOLEAN
            /\ \A a \in Apis : calls'[a] = IF a = "transaction.commit" THEN calls[a] + 1 ELSE calls[a]
            /\ \A n \in Counters : stats'[n] = IF n \in {"transaction_commits", "writes"} THEN stats[n] + 1
                                             ELSE stats[n]
            /\ sound' <=> sound /\ TRUE
            /\ UNCHANGED <<failed, durable>>
        <5>1. Succeeds("transaction.commit", {"transaction_commits", "writes"}, TRUE)
          BY <1>3, <3>1
        <5> QED
          BY <1>1, <2>1, <5>1, CallSucceeds, Zenon
      <4> QED
        BY <1>1, <3>1, <4>1
    <3>2. CASE ~committed
      <4>1. /\ calls' \in [Apis -> Nat] /\ stats' \in [Counters -> Nat] /\ sound' \in BOOLEAN
            /\ \A a \in Apis : calls'[a] = IF a = "transaction.conflict" THEN calls[a] + 1 ELSE calls[a]
            /\ \A n \in Counters : stats'[n] = IF n \in {"transaction_conflicts"} THEN stats[n] + 1
                                             ELSE stats[n]
            /\ sound' <=> sound /\ TRUE
            /\ UNCHANGED <<failed, durable>>
        <5>1. Succeeds("transaction.conflict", {"transaction_conflicts"}, TRUE)
          BY <1>3, <3>2
        <5> QED
          BY <1>1, <2>1, <5>1, CallSucceeds, Zenon
      <4> QED
        BY <1>1, <3>2, <4>1
    <3> QED
      BY <3>1, <3>2
  <2>3. /\ stats'["errors"] = stats["errors"]
        /\ stats'["writes"] = stats["writes"] + (IF committed THEN 1 ELSE 0)
        /\ stats'["transaction_attempts"] = stats["transaction_attempts"]
        /\ stats'["transaction_commits"] = stats["transaction_commits"] + (IF committed THEN 1 ELSE 0)
        /\ stats'["transaction_conflicts"]
             = stats["transaction_conflicts"] + (IF committed THEN 0 ELSE 1)
        /\ stats'["read_hits"] = stats["read_hits"]
        /\ stats'["read_misses"] = stats["read_misses"]
    BY <1>1, <2>2 DEF Counters
  <2>4. /\ calls'["put"] = calls["put"]
        /\ calls'["transaction.get"] = calls["transaction.get"]
        /\ calls'["transaction.put"] = calls["transaction.put"]
        /\ calls'["transaction.commit"] = calls["transaction.commit"] + (IF committed THEN 1 ELSE 0)
        /\ calls'["transaction.conflict"] = calls["transaction.conflict"] + (IF committed THEN 0 ELSE 1)
    BY <1>1, <2>2 DEF Apis
  <2>5. /\ operation' = "none" /\ reads' = 0 /\ updates' = 0 /\ expected' = 0 /\ returned' = 0
    BY <1>1 DEF Idle
  <2>6. TypeOK'
    <3>1. 0 \in 0 .. Reads /\ 0 \in 0 .. Updates /\ 0 \in 0 .. ScanLimit
      OBVIOUS
    <3>2. /\ operations' \in Mixes /\ absent' \in BOOLEAN /\ sound' \in BOOLEAN
          /\ failed' \in [Apis -> Nat] /\ durable' \in Nat
          /\ nexts' \in Nat /\ issued' \in 0 .. MaxOperations /\ phase' = "running"
      BY <1>1, <2>2 DEF TypeOK
    <3> QED
      BY <2>2, <2>5, <3>1, <3>2, Zenon DEF TypeOK
  <2>7. Sound' /\ Judged' /\ Absent' /\ Unmixed'
    BY <1>1, <2>2, <2>3, <2>4, <2>5 DEF LoopInv, Sound, Judged, Absent, Unmixed
  <2>8. Reconciled'
    <3>1. /\ calls["put"] \in Nat /\ calls["transaction.commit"] \in Nat
          /\ calls["transaction.conflict"] \in Nat
      BY <1>1 DEF Apis
    <3>2. Attempts' + Open' = Attempts + Open
      BY <1>1, <2>4, <2>5, <3>1 DEF Attempts, Open
    <3>3. stats["writes"] \in Nat /\ stats["transaction_commits"] \in Nat
          /\ stats["transaction_conflicts"] \in Nat
      BY <1>1 DEF Counters
    <3> HIDE DEF called, names
    <3> QED
      BY <1>1, <2>3, <2>4, <2>5, <3>1, <3>2, <3>3 DEF LoopInv, Reconciled
  <2> QED
    BY <2>6, <2>7, <2>8 DEF LoopInv
<1>4. CASE Succeeds("transaction.commit", {"transaction_commits", "writes"}, TRUE)
  BY <1>3, <1>4
<1>5. CASE Succeeds("transaction.conflict", {"transaction_conflicts"}, TRUE)
  BY <1>3, <1>5
<1> QED
  BY <1>2, <1>4, <1>5 DEF TransactionEnds

-----------------------------------------------------------------------------
LEMMA PhaseEndsInv ==
  ASSUME LoopInv, PhaseEnds
  PROVE  LoopInv'
<1>1. /\ operation = "none" /\ durable' = stats["writes"] /\ phase = "running"
      /\ phase' \in {"accepted", "rejected"}
      /\ phase' = "accepted" <=> StatsValid /\ ~ApplicationErrors
      /\ UNCHANGED <<operations, absent, operation, reads, updates, expected, returned,
                     nexts, issued, stats, calls, failed, sound>>
  BY DEF PhaseEnds, stepVars
<1>2. TypeOK'
  <2>1. durable' \in Nat
    BY <1>1 DEF LoopInv, TypeOK, Counters
  <2> QED
    BY <1>1, <2>1 DEF LoopInv, TypeOK
<1>3. Judged'
  BY <1>1 DEF Judged, StatsValid, ApplicationErrors
<1>4. Absent' /\ Sound' /\ Unmixed'
  BY <1>1 DEF LoopInv, Absent, Sound, Unmixed
<1>5. Reconciled'
  BY <1>1 DEF LoopInv, Reconciled, Attempts, Open
<1> QED
  BY <1>2, <1>3, <1>4, <1>5 DEF LoopInv

LEMMA LoopNextInv == LoopInv /\ [Next]_vars => LoopInv'
<1> SUFFICES ASSUME LoopInv, [Next]_vars PROVE LoopInv'
  OBVIOUS
<1>1. CASE UNCHANGED vars
  <2>1. UNCHANGED <<operations, absent, operation, reads, updates, expected, returned, nexts,
                    issued, stats, calls, failed, durable, sound, phase>>
    BY <1>1 DEF vars, stepVars, bookVars
  <2>2. TypeOK'
    BY <2>1 DEF LoopInv, TypeOK
  <2>3. Absent' /\ Sound' /\ Unmixed'
    BY <2>1 DEF LoopInv, Absent, Sound, Unmixed
  <2>4. Reconciled' /\ Judged'
    BY <2>1 DEF LoopInv, Reconciled, Attempts, Open, Judged, StatsValid, ApplicationErrors
  <2> QED
    BY <2>2, <2>3, <2>4 DEF LoopInv
<1> QED
  BY <1>1, GetInv, PutInv, ScanInv, TransactionBeginsInv, TransactionOperationInv,
     TransactionEndsInv, PhaseEndsInv DEF Next, Returned

THEOREM LoopInvariance == Spec => []LoopInv
BY LoopInitInv, LoopNextInv, PTL DEF Spec

(* Every variable keeps its type, and an operation leaves nothing behind.   *)
THEOREM LoopTypeCorrect == Spec => []TypeOK
<1>1. LoopInv => TypeOK
  BY DEF LoopInv
<1> QED
  BY <1>1, LoopInvariance, PTL

LEMMA Reconciles == LoopInv => AcceptedReconciles
<1> SUFFICES ASSUME LoopInv, phase = "accepted" PROVE CountsReconcile
  BY DEF AcceptedReconciles
<1>1. /\ operation = "none" /\ durable = stats["writes"] /\ stats["errors"] = 0
      /\ reads = 0 /\ updates = 0
  BY DEF LoopInv, Judged, StatsValid, TypeOK
<1>2. /\ durable = calls["put"] + calls["transaction.commit"]
      /\ calls["transaction.get"] + 0 = (Attempts + 0) * Reads
      /\ calls["transaction.put"] + 0 = (Attempts + 0) * Updates
  BY <1>1 DEF LoopInv, Reconciled, Open
<1>3. /\ calls["put"] \in Nat /\ calls["transaction.commit"] \in Nat
      /\ calls["transaction.get"] \in Nat /\ calls["transaction.put"] \in Nat
      /\ calls["transaction.conflict"] \in Nat /\ Attempts \in Nat
  BY DEF LoopInv, TypeOK, Apis, Attempts
<1>4. ASSUME "put" \in operations PROVE durable = calls["put"]
  <2>1. "transaction" \notin operations
    BY <1>4 DEF LoopInv, TypeOK, Mixes
  <2> QED
    BY <1>2, <1>3, <2>1 DEF LoopInv, Unmixed
<1>5. ASSUME "transaction" \in operations
      PROVE  /\ calls["transaction.get"] = Attempts * Reads
             /\ calls["transaction.put"] = Attempts * Updates
             /\ durable = calls["transaction.commit"]
  <2>1. "put" \notin operations
    BY <1>5 DEF LoopInv, TypeOK, Mixes
  <2>2. Attempts + 0 = Attempts
    BY <1>3
  <2> QED
    BY <1>2, <1>3, <2>1, <2>2 DEF LoopInv, Unmixed
<1> QED
  BY <1>4, <1>5 DEF CountsReconcile, Attempts

(* What execute accepts by the counters, the validation of the published    *)
(* result accepts by the recorded calls.                                    *)
THEOREM AcceptedIsConsistent == Spec => []AcceptedReconciles
BY Reconciles, LoopInvariance, PTL

LEMMA SoundlyJudged == LoopInv => JudgedBySoundness
<1> SUFFICES ASSUME LoopInv, phase # "running"
             PROVE  phase = "accepted" <=> sound /\ (absent => stats["read_misses"] > 0)
  BY DEF JudgedBySoundness
<1>1. phase = "accepted" <=> StatsValid /\ ~ApplicationErrors
  BY DEF LoopInv, Judged
<1>2. /\ stats["errors"] \in Nat /\ stats["read_hits"] \in Nat /\ stats["read_misses"] \in Nat
      /\ \A a \in Apis : failed[a] \in Nat
      /\ absent \in BOOLEAN /\ sound \in BOOLEAN
  BY DEF LoopInv, TypeOK, Counters
<1>3. absent => "get" \in operations
  BY DEF LoopInv, Absent
<1>4. ASSUME sound
      PROVE  StatsValid /\ ~ApplicationErrors <=> (absent => stats["read_misses"] > 0)
  <2>1. /\ stats["errors"] = 0 /\ ~ApplicationErrors
        /\ IF absent THEN stats["read_hits"] = 0 ELSE stats["read_misses"] = 0
    BY <1>2, <1>4 DEF LoopInv, Sound, ApplicationErrors
  <2>2. stats["transaction_attempts"]
          = stats["transaction_commits"] + stats["transaction_conflicts"]
    <3>1. operation = "none"
      BY DEF LoopInv, Judged
    <3>2. Attempts \in Nat
      BY DEF LoopInv, TypeOK, Apis, Attempts
    <3> QED
      BY <2>1, <3>1, <3>2 DEF LoopInv, Reconciled, Attempts, Open
  <2> QED
    BY <1>3, <2>1, <2>2 DEF StatsValid
<1>5. ASSUME ~sound PROVE ~StatsValid
  BY <1>2, <1>5 DEF LoopInv, Sound, StatsValid
<1> QED
  BY <1>1, <1>2, <1>4, <1>5

(* Exactly the phases with an outcome that the workload does not allow are  *)
(* rejected, and those of absent keys that read none.                       *)
THEOREM JudgedRightly == Spec => []JudgedBySoundness
BY SoundlyJudged, LoopInvariance, PTL

-----------------------------------------------------------------------------
(* The rows *)

LEMMA RowsStepLoops == [RowsNext]_<<vars, rowVars>> => [Next]_vars
<1> SUFFICES ASSUME [RowsNext]_<<vars, rowVars>> PROVE [Next]_vars
  OBVIOUS
<1>1. CASE Client
  BY <1>1 DEF Client, Next
<1>2. CASE Samples
  BY <1>2 DEF Samples
<1>3. CASE Ends
  BY <1>3 DEF Ends, Next
<1>4. CASE Returned
  BY <1>4 DEF Next
<1> QED
  BY <1>1, <1>2, <1>3, <1>4 DEF RowsNext

(* The client whose rows are made is the client, with its fairness left out. *)
THEOREM RowsLoop == RowsSpec => Spec
<1>1. RowsInit => Init
  BY DEF RowsInit
<1> QED
  BY <1>1, RowsStepLoops, PTL DEF RowsSpec, Spec

(* A latency is recorded in one of the buckets, however short or long it is. *)
LEMMA RecordTyped ==
  ASSUME NEW histogram \in [Bounds -> Nat], NEW latency \in Nat
  PROVE  Record(histogram, latency) \in [Bounds -> Nat]
<1> USE RowsAssumption
<1> DEFINE micros == IF latency < 1 THEN 1 ELSE IF latency > MaxMicros THEN MaxMicros ELSE latency
<1>1. micros \in 1 .. MaxMicros
  OBVIOUS
<1>2. Highest(micros) \in Bounds
  BY <1>1 DEF Bounds
<1>3. Record(histogram, latency)
        = [histogram EXCEPT ![Highest(micros)] = histogram[Highest(micros)] + 1]
  BY DEF Record
<1> HIDE DEF micros
<1>4. histogram[Highest(micros)] + 1 \in Nat
  BY <1>2
<1> QED
  BY <1>2, <1>3, <1>4, Zenon

RowsInv == LoopInv /\ RowsTypeOK

LEMMA RowsInitInv == RowsInit => RowsInv
<1> SUFFICES ASSUME RowsInit PROVE RowsInv
  OBVIOUS
<1>1. LoopInv /\ phase = "running"
  BY LoopInitInv DEF RowsInit, Init
<1>2. /\ api \in Observed /\ windowCalls = 0 /\ window = [b \in Bounds |-> 0]
      /\ rates = <<>> /\ latencyWindows = <<>>
  BY DEF RowsInit, NoLatencies
<1>3. window \in [Bounds -> Nat]
  BY <1>2
<1>4. /\ rates \in Seq(Nat) /\ latencyWindows \in Seq([Bounds -> Nat])
      /\ Len(rates) = 0 /\ Len(latencyWindows) = 0
  BY <1>2
<1> QED
  BY <1>1, <1>2, <1>3, <1>4 DEF RowsInv, RowsTypeOK, LoopInv

LEMMA RowsNextInv == RowsInv /\ [RowsNext]_<<vars, rowVars>> => RowsInv'
<1> SUFFICES ASSUME RowsInv, [RowsNext]_<<vars, rowVars>> PROVE RowsInv'
  OBVIOUS
<1> USE RowsAssumption
<1>1. LoopInv'
  BY LoopNextInv, RowsStepLoops DEF RowsInv
<1>2. /\ TypeOK' /\ api \in Observed /\ windowCalls \in Nat /\ window \in [Bounds -> Nat]
      /\ rates \in Seq(Nat) /\ latencyWindows \in Seq([Bounds -> Nat])
      /\ Len(latencyWindows) = Len(rates) + (IF phase = "running" THEN 0 ELSE 1)
  BY <1>1 DEF RowsInv, RowsTypeOK, LoopInv
<1>3. NoLatencies \in [Bounds -> Nat]
  BY DEF NoLatencies
<1>4. CASE Client
  <2>1. /\ phase = "running" /\ phase' = "running"
        /\ UNCHANGED <<api, rates, latencyWindows>>
    BY <1>4 DEF Client, Get, Put, Begins, ScanBegins, ScanNext, ScanNextFails, ScanEnds,
                TransactionBegins, TransactionReads, TransactionUpdates, TransactionEnds,
                RowsInv, LoopInv, Judged
  <2>2. windowCalls' \in Nat /\ window' \in [Bounds -> Nat]
    <3>1. CASE UNCHANGED <<windowCalls, window>>
      BY <1>2, <3>1
    <3>2. ASSUME NEW latency \in Latencies, windowCalls' = windowCalls + 1,
                 window' = Record(window, latency)
          PROVE  windowCalls' \in Nat /\ window' \in [Bounds -> Nat]
      BY <1>2, <3>2, RecordTyped
    <3> QED
      BY <1>4, <3>1, <3>2 DEF Client, CallRecorded
  <2> QED
    BY <1>1, <1>2, <2>1, <2>2 DEF RowsInv, RowsTypeOK
<1>5. CASE Samples
  <2>1. PICK duration \in Durations : rates' = Append(rates, windowCalls * (RateUnit \div duration))
    BY <1>5 DEF Samples
  <2>2. windowCalls * (RateUnit \div duration) \in Nat
    <3>1. RateUnit \div duration \in Nat
      BY Z3
    <3> HIDE RowsAssumption
    <3> QED
      BY <1>2, <3>1, Multiples
  <2>3. /\ latencyWindows' = Append(latencyWindows, window)
        /\ windowCalls' = 0 /\ window' = NoLatencies /\ UNCHANGED <<api, phase>>
        /\ phase = "running"
    BY <1>5 DEF Samples, vars
  <2>4. /\ rates' \in Seq(Nat) /\ latencyWindows' \in Seq([Bounds -> Nat])
        /\ Len(rates') = Len(rates) + 1 /\ Len(latencyWindows') = Len(latencyWindows) + 1
        /\ Len(rates) \in Nat
    BY <1>2, <2>1, <2>2, <2>3
  <2> QED
    BY <1>1, <1>2, <1>3, <2>3, <2>4 DEF RowsInv, RowsTypeOK
<1>6. CASE Ends
  <2>1. /\ latencyWindows' = Append(latencyWindows, window)
        /\ windowCalls' = 0 /\ window' = NoLatencies /\ UNCHANGED <<api, rates>>
        /\ phase = "running" /\ phase' # "running"
    BY <1>6 DEF Ends, PhaseEnds
  <2>2. /\ latencyWindows' \in Seq([Bounds -> Nat])
        /\ Len(latencyWindows') = Len(latencyWindows) + 1 /\ Len(rates) \in Nat
    BY <1>2, <2>1
  <2> QED
    BY <1>1, <1>2, <1>3, <2>1, <2>2 DEF RowsInv, RowsTypeOK
<1>7. CASE UNCHANGED <<phase, rowVars>>
  BY <1>1, <1>2, <1>7 DEF RowsInv, RowsTypeOK, rowVars
<1> QED
  BY <1>4, <1>5, <1>6, <1>7 DEF RowsNext, Returned, vars

THEOREM RowsInvariance == RowsSpec => []RowsInv
BY RowsInitInv, RowsNextInv, PTL DEF RowsSpec

(* Every variable keeps its type; each sample has a latency window.         *)
THEOREM RowsTypeCorrect == RowsSpec => []RowsTypeOK
<1>1. RowsInv => RowsTypeOK
  BY DEF RowsInv
<1> QED
  BY <1>1, RowsInvariance, PTL


-----------------------------------------------------------------------------
(* The books of a row: the calls that are counted are the latencies recorded. *)

HIDE LoopAssumption

(* The bounds of the buckets are numbers up to the one of MAX_MICROSECONDS. *)
LEMMA HistogramOf ==
  ASSUME NEW histogram \in [Bounds -> Nat]
  PROVE  Histogram(histogram, Bounds, MaxMicros + 1)
<1>1. MaxMicros \in Nat /\ Exact \in Nat
  BY RowsAssumption
<1>2. ASSUME NEW v \in 1 .. MaxMicros
      PROVE  Highest(v) \in Nat /\ Highest(v) <= MaxMicros + 1
  <2>1. v \in Nat /\ v <= MaxMicros /\ v % 2 \in 0 .. 1 /\ v % 2 <= v
    BY <1>1
  <2> QED
    BY <1>1, <2>1 DEF Highest
<1>3. Bounds \subseteq Nat /\ \A b \in Bounds : b <= MaxMicros + 1
  BY <1>2 DEF Bounds
<1> QED
  BY <1>1, <1>3 DEF Histogram

LEMMA CountNothing ==
  /\ NoLatencies \in [Bounds -> Nat] /\ Count(NoLatencies) = 0
<1>1. NoLatencies \in [Bounds -> Nat] /\ \A b \in Bounds : NoLatencies[b] = 0
  BY DEF NoLatencies
<1>2. /\ Count(NoLatencies) = SumFunctionOnSet(NoLatencies, Bounds)
      /\ IsFiniteSet(Bounds)
  BY <1>1, HistogramOf, HistogramIs
<1>3. SumFunctionOnSet(NoLatencies, Bounds) = SumFunctionOnSet(NoLatencies, {})
  <2>1. {} \in SUBSET Bounds /\ \A b \in Bounds \ {} : NoLatencies[b] = 0
    BY <1>1
  <2>2. \A b \in Bounds : NoLatencies[b] \in Nat
    BY <1>1
  <2> QED
    BY <1>2, <2>1, <2>2, SumOfPart
<1> QED
  BY <1>1, <1>2, <1>3, SumEmpty

(* A latency is one more in its histogram: none is out of its bounds. *)
LEMMA CountRecord ==
  ASSUME NEW histogram \in [Bounds -> Nat], NEW latency \in Nat
  PROVE  Count(Record(histogram, latency)) = Count(histogram) + 1
<1> DEFINE micros == IF latency < 1 THEN 1 ELSE IF latency > MaxMicros THEN MaxMicros ELSE latency
           more == Record(histogram, latency)
<1>1. micros \in 1 .. MaxMicros
  BY RowsAssumption
<1>2. PICK b \in Bounds : b = Highest(micros)
  BY <1>1 DEF Bounds
<1>3. more = [histogram EXCEPT ![b] = histogram[b] + 1]
  BY <1>2 DEF Record
<1>4. more \in [Bounds -> Nat]
  BY RecordTyped
<1> HIDE DEF micros, more
<1>5. more[b] = histogram[b] + 1 /\ \A c \in Bounds \ {b} : more[c] = histogram[c]
  BY <1>3
<1>6. /\ IsFiniteSet(Bounds) /\ \A c \in Bounds : histogram[c] \in Nat
      /\ Count(histogram) = SumFunctionOnSet(histogram, Bounds)
      /\ Count(more) = SumFunctionOnSet(more, Bounds)
  BY <1>4, HistogramOf, HistogramIs
<1>7. SumFunctionOnSet(more, Bounds) = SumFunctionOnSet(histogram, Bounds) + 1
  BY <1>5, <1>6, SumMore
<1> QED
  BY <1>6, <1>7 DEF more

(* Histograms, merged. *)
Merged(histograms) ==
  [b \in Bounds |-> SumFunction([i \in DOMAIN histograms |-> histograms[i][b]])]

LEMMA MergedTyped ==
  ASSUME NEW histograms \in Seq([Bounds -> Nat])
  PROVE  Merged(histograms) \in [Bounds -> Nat]
<1>1. PICK n \in Nat : n = Len(histograms)
  OBVIOUS
<1>2. IsFiniteSet(1 .. n) /\ DOMAIN histograms = 1 .. n
  BY <1>1, FS_Interval
<1>3. ASSUME NEW b \in Bounds
      PROVE  SumFunction([i \in DOMAIN histograms |-> histograms[i][b]]) \in Nat
  <2> DEFINE f == [i \in DOMAIN histograms |-> histograms[i][b]]
  <2>1. DOMAIN f = 1 .. n /\ \A i \in 1 .. n : f[i] \in Nat
    BY <1>1, <1>2
  <2> HIDE DEF f
  <2>2. SumFunctionOnSet(f, 1 .. n) \in Nat
    BY <1>2, <2>1, SumNat
  <2>3. SumFunction(f) = SumFunctionOnSet(f, DOMAIN f)
    BY DEF SumFunction
  <2>4. SumFunction(f) \in Nat
    BY <2>1, <2>2, <2>3
  <2> QED
    BY <2>4 DEF f
<1> QED
  BY <1>3 DEF Merged

(* The merge of no histograms counts nothing. *)
LEMMA MergedNone == Count(Merged(<<>>)) = 0
<1>1. ASSUME NEW b \in Bounds
      PROVE  SumFunction([i \in DOMAIN <<>> |-> <<>>[i][b]]) = 0
  <2> DEFINE f == [i \in DOMAIN <<>> |-> <<>>[i][b]]
  <2>1. DOMAIN f = {}
    OBVIOUS
  <2> HIDE DEF f
  <2>2. SumFunction(f) = 0
    BY <2>1, SumEmpty DEF SumFunction
  <2> QED
    BY <2>2 DEF f
<1>2. Merged(<<>>) = NoLatencies
  BY <1>1 DEF Merged, NoLatencies
<1> QED
  BY <1>2, CountNothing

(* One more histogram adds its counts. *)
LEMMA MergedAppend ==
  ASSUME NEW histograms \in Seq([Bounds -> Nat]), NEW last \in [Bounds -> Nat]
  PROVE  Count(Merged(Append(histograms, last))) = Count(Merged(histograms)) + Count(last)
<1> DEFINE more == Append(histograms, last)
<1>1. PICK n \in Nat : n = Len(histograms)
  OBVIOUS
<1>2. /\ more \in Seq([Bounds -> Nat]) /\ DOMAIN more = 1 .. (n + 1)
      /\ DOMAIN histograms = 1 .. n
      /\ more[n + 1] = last /\ \A i \in 1 .. n : more[i] = histograms[i]
  BY <1>1
<1>3. /\ IsFiniteSet(1 .. n) /\ IsFiniteSet(1 .. (n + 1))
      /\ 1 .. n = (1 .. (n + 1)) \ {n + 1} /\ n + 1 \in 1 .. (n + 1)
  <2>1. n \in Int /\ n + 1 \in Int /\ 1 \in Int
    OBVIOUS
  <2>2. IsFiniteSet(1 .. n) /\ IsFiniteSet(1 .. (n + 1))
    BY <2>1, FS_Interval
  <2>3. 1 .. n = (1 .. (n + 1)) \ {n + 1} /\ n + 1 \in 1 .. (n + 1)
    OBVIOUS
  <2> QED
    BY <2>2, <2>3
<1> HIDE DEF more
<1>4. ASSUME NEW b \in Bounds
      PROVE  Merged(more)[b] = Merged(histograms)[b] + last[b]
  <2> DEFINE f == [i \in DOMAIN histograms |-> histograms[i][b]]
             g == [i \in DOMAIN more |-> more[i][b]]
  <2>1. /\ DOMAIN f = 1 .. n /\ DOMAIN g = 1 .. (n + 1)
        /\ \A i \in 1 .. n : f[i] = g[i]
        /\ g[n + 1] = last[b]
    BY <1>2, <1>3
  <2>2. \A i \in 1 .. (n + 1) : g[i] \in Nat
    BY <1>2
  <2>3. Merged(more)[b] = SumFunction(g) /\ Merged(histograms)[b] = SumFunction(f)
    BY DEF Merged
  <2> HIDE DEF f, g
  <2>4. /\ SumFunction(g) = SumFunctionOnSet(g, 1 .. (n + 1))
        /\ SumFunction(f) = SumFunctionOnSet(f, 1 .. n)
    BY <2>1 DEF SumFunction
  <2>5. /\ SumFunctionOnSet(g, 1 .. (n + 1))
             = g[n + 1] + SumFunctionOnSet(g, (1 .. (n + 1)) \ {n + 1})
        /\ SumFunctionOnSet(g, (1 .. (n + 1)) \ {n + 1}) \in Nat
    BY <1>3, <2>2, SumWithout
  <2>6. SumFunctionOnSet(f, 1 .. n) = SumFunctionOnSet(g, 1 .. n)
    BY <1>3, <2>1, SumSame
  <2>7. SumFunctionOnSet(g, (1 .. (n + 1)) \ {n + 1}) = SumFunctionOnSet(g, 1 .. n)
    BY <1>3, Zenon
  <2>8. last[b] \in Nat
    OBVIOUS
  <2> QED
    BY <2>1, <2>3, <2>4, <2>5, <2>6, <2>7, <2>8
<1>5. Merged(more) \in [Bounds -> Nat] /\ Merged(histograms) \in [Bounds -> Nat]
  BY <1>2, MergedTyped
<1>6. /\ IsFiniteSet(Bounds)
      /\ Count(Merged(more)) = SumFunctionOnSet(Merged(more), Bounds)
      /\ Count(Merged(histograms)) = SumFunctionOnSet(Merged(histograms), Bounds)
      /\ Count(last) = SumFunctionOnSet(last, Bounds)
  BY <1>5, HistogramOf, HistogramIs
<1>7. SumFunctionOnSet(Merged(more), Bounds)
        = SumFunctionOnSet(Merged(histograms), Bounds) + SumFunctionOnSet(last, Bounds)
  <2>1. \A b \in Bounds : /\ Merged(histograms)[b] \in Nat /\ last[b] \in Nat
                          /\ Merged(more)[b] = Merged(histograms)[b] + last[b]
    BY <1>4, <1>5
  <2> QED
    BY <1>6, <2>1, SumBoth
<1>8. Count(Merged(more)) = Count(Merged(histograms)) + Count(last)
  BY <1>6, <1>7, Zenon
<1> QED
  BY <1>8, Zenon DEF more

Booked ==
  /\ windowCalls = Count(window)
  /\ Count(Total) + windowCalls = calls[api]
  /\ phase # "running" => windowCalls = 0

LEMMA TotalIs == Total = Merged(latencyWindows)
BY DEF Total, Merged

(* An operation records at most one call of an API. *)
LEMMA OneCall ==
  ASSUME LoopInv, Client, api \in Apis
  PROVE  calls'[api] = calls[api] \/ calls'[api] = calls[api] + 1
<1>1. calls \in [Apis -> Nat]
  BY DEF LoopInv, TypeOK
<1>2. ASSUME NEW a \in Apis, calls' = [calls EXCEPT ![a] = @ + 1]
      PROVE  calls'[api] = calls[api] \/ calls'[api] = calls[api] + 1
  BY <1>1, <1>2
<1>3. UNCHANGED calls \/ \E a \in Apis : calls' = [calls EXCEPT ![a] = @ + 1]
  <2>1. ASSUME NEW a, a \in Apis, NEW names, NEW allowed, Succeeds(a, names, allowed) \/ Fails(a)
        PROVE  \E b \in Apis : calls' = [calls EXCEPT ![b] = @ + 1]
    BY <2>1 DEF Succeeds, Fails
  <2>2. /\ "get" \in Apis /\ "put" \in Apis /\ "scan" \in Apis /\ "transaction.get" \in Apis
        /\ "transaction.put" \in Apis /\ "transaction.commit" \in Apis
        /\ "transaction.conflict" \in Apis
    BY DEF Apis
  <2>3. CASE Get \/ Put
    BY <2>1, <2>2, <2>3 DEF Get, Put
  <2>4. CASE ScanBegins \/ ScanNext \/ ScanNextFails \/ ScanEnds
    BY <2>1, <2>2, <2>4 DEF ScanBegins, ScanNext, ScanNextFails, ScanEnds, bookVars
  <2>5. CASE TransactionBegins
    BY <2>5 DEF TransactionBegins
  <2>6. CASE TransactionReads \/ TransactionUpdates \/ TransactionEnds
    BY <2>1, <2>2, <2>6 DEF TransactionReads, TransactionUpdates, TransactionEnds
  <2> QED
    BY <2>3, <2>4, <2>5, <2>6 DEF Client
<1> QED
  BY <1>2, <1>3

LEMMA BookedInit == RowsInit => Booked
<1> SUFFICES ASSUME RowsInit PROVE Booked
  OBVIOUS
<1>1. Count(Total) = 0
  BY TotalIs, MergedNone DEF RowsInit
<1>2. Count(window) = 0
  BY CountNothing DEF RowsInit
<1>3. calls[api] = 0
  <2>1. api \in Apis
    BY RowsAssumption DEF RowsInit
  <2> QED
    BY <2>1 DEF RowsInit, Init
<1> QED
  BY <1>1, <1>2, <1>3 DEF Booked, RowsInit, Init

LEMMA BookedNext == RowsInv /\ Booked /\ [RowsNext]_<<vars, rowVars>> => Booked'
<1> SUFFICES ASSUME RowsInv, Booked, [RowsNext]_<<vars, rowVars>> PROVE Booked'
  OBVIOUS
<1>1. /\ LoopInv /\ api \in Observed /\ api \in Apis /\ windowCalls \in Nat
      /\ window \in [Bounds -> Nat] /\ latencyWindows \in Seq([Bounds -> Nat])
      /\ calls \in [Apis -> Nat] /\ calls[api] \in Nat
  BY RowsAssumption DEF RowsInv, RowsTypeOK, TypeOK
<1>2. /\ Count(window) \in Nat /\ Count(Total) \in Nat
      /\ Total = Merged(latencyWindows) /\ Total' = Merged(latencyWindows')
  <2>1. Total = Merged(latencyWindows) /\ Total' = Merged(latencyWindows')
    BY DEF Total, Merged
  <2> QED
    BY <1>1, <2>1, MergedTyped, HistogramOf, HistogramIs
<1>3. CASE Client
  <2>1. /\ phase = "running" /\ phase' = "running" /\ UNCHANGED <<api, latencyWindows>>
        /\ CallRecorded
    BY <1>1, <1>3 DEF Client, Get, Put, Begins, ScanBegins, ScanNext, ScanNextFails, ScanEnds,
                TransactionBegins, TransactionReads, TransactionUpdates, TransactionEnds,
                LoopInv, Judged
  <2>2. CASE calls'[api] = calls[api]
    <3>1. UNCHANGED <<windowCalls, window>>
      BY <2>1, <2>2 DEF CallRecorded
    <3> QED
      BY <1>2, <2>1, <2>2, <3>1 DEF Booked
  <2>3. CASE calls'[api] # calls[api]
    <3>1. calls'[api] = calls[api] + 1
      BY <1>1, <1>3, <2>3, OneCall
    <3>2. PICK latency \in Nat : windowCalls' = windowCalls + 1 /\ window' = Record(window, latency)
      BY <2>1, <2>3, RowsAssumption DEF CallRecorded
    <3>3. Count(window') = Count(window) + 1
      BY <1>1, <3>2, CountRecord
    <3>4. Count(Total') = Count(Total) /\ api' = api
      BY <1>2, <2>1
    <3>5. windowCalls = Count(window) /\ Count(Total) + windowCalls = calls[api]
      BY DEF Booked
    <3> QED
      BY <1>1, <1>2, <2>1, <3>1, <3>2, <3>3, <3>4, <3>5 DEF Booked
  <2> QED
    BY <2>2, <2>3
<1>4. CASE Samples \/ Ends
  <2>1. /\ latencyWindows' = Append(latencyWindows, window)
        /\ windowCalls' = 0 /\ window' = NoLatencies
        /\ UNCHANGED <<api, calls>>
    BY <1>4 DEF Samples, Ends, PhaseEnds, vars, bookVars
  <2>2. Count(Total') = Count(Total) + Count(window)
    BY <1>1, <1>2, <2>1, MergedAppend
  <2>3. Count(window') = 0
    BY <2>1, CountNothing
  <2>4. windowCalls = Count(window) /\ Count(Total) + windowCalls = calls[api]
    BY DEF Booked
  <2> QED
    BY <1>1, <1>2, <2>1, <2>2, <2>3, <2>4 DEF Booked
<1>5. CASE UNCHANGED <<phase, calls, rowVars>>
  <2>1. UNCHANGED <<windowCalls, window, api, phase, calls>> /\ Total' = Total
    BY <1>2, <1>5 DEF rowVars
  <2> QED
    BY <2>1 DEF Booked
<1> QED
  BY <1>3, <1>4, <1>5 DEF RowsNext, Returned, vars, bookVars

LEMMA BookedInvariance == RowsSpec => [](RowsInv /\ Booked)
<1>1. RowsInit => RowsInv /\ Booked
  BY RowsInitInv, BookedInit
<1>2. (RowsInv /\ Booked) /\ [RowsNext]_<<vars, rowVars>> => (RowsInv /\ Booked)'
  BY RowsNextInv, BookedNext
<1> QED
  BY <1>1, <1>2, PTL DEF RowsSpec

-----------------------------------------------------------------------------
(* The rows are valid *)

LEMMA QuantilesPerMille ==
  Quantiles \subseteq PerMille /\ 1 \in Quantiles /\ 999 \in Quantiles
BY DEF Quantiles, PerMille

(* rate_summary: the percentiles of the rates are in order. *)
LEMMA RatesOrdered ==
  ASSUME rates \in Seq(Nat), rates # <<>>
  PROVE  Ordered(RateRow)
<1>1. PICK n \in Nat \ {0} : n = Len(rates)
  OBVIOUS
<1>2. PICK s : s = Sorted(rates)
  OBVIOUS
<1>3. /\ s \in Seq(Nat) /\ Len(s) = n
      /\ \A i, j \in 1 .. Len(s) : i <= j => s[i] <= s[j]
  BY <1>1, <1>2, SortedIs
<1>4. s # <<>>
  BY <1>1, <1>3
<1>5. ASSUME NEW k \in Quantiles, NEW m \in Quantiles, k <= m
      PROVE  /\ s[1] <= s[PercentileIndex(k, n) + 1]
             /\ s[PercentileIndex(k, n) + 1] <= s[PercentileIndex(m, n) + 1]
             /\ s[PercentileIndex(m, n) + 1] <= s[n]
  <2>1. k \in PerMille /\ m \in PerMille
    BY QuantilesPerMille
  <2> QED
    BY <1>3, <1>4, <1>5, <2>1, PercentilesOrdered
<1>6. /\ RateRow.min = s[1] /\ RateRow.max = s[n]
      /\ \A k \in Quantiles : RateRow.at[k] = s[PercentileIndex(k, n) + 1]
  BY <1>1, <1>2, <1>3 DEF RateRow, Smallest, Greatest, Percentile
<1>7. 1 <= 1 /\ 999 <= 999
  OBVIOUS
<1>8. /\ s[1] <= s[PercentileIndex(1, n) + 1]
      /\ s[PercentileIndex(999, n) + 1] <= s[n]
  BY <1>5, <1>7, QuantilesPerMille
<1>9. RateRow.min <= RateRow.at[1] /\ RateRow.at[999] <= RateRow.max
  BY <1>6, <1>8, QuantilesPerMille
<1>10. ASSUME NEW k \in Quantiles, NEW m \in Quantiles, k <= m
       PROVE  RateRow.at[k] <= RateRow.at[m]
  BY <1>5, <1>6, <1>10, Zenon
<1> QED
  BY <1>9, <1>10, Zenon DEF Ordered

(* summary: the extremes are buckets that hold a latency, and around the     *)
(* percentiles.                                                              *)
LEMMA SummaryIs ==
  ASSUME NEW histogram \in [Bounds -> Nat], Recorded(histogram) # {}
  PROVE  /\ Ordered(SummaryOf(histogram))
         /\ \E b \in Recorded(histogram) :
              /\ SummaryOf(histogram).min <= b
              /\ \A c \in Recorded(histogram) : b <= c
         /\ SummaryOf(histogram).max \in Recorded(histogram)
<1> DEFINE bounds == Recorded(histogram)
           least == CHOOSE b \in bounds : \A c \in bounds : b <= c
           greatest == CHOOSE b \in bounds : \A c \in bounds : c <= b
           at == [k \in Quantiles |-> ValueAtQuantile(k, histogram)]
<1>1. Histogram(histogram, Bounds, MaxMicros + 1)
  BY HistogramOf
<1>2. bounds \subseteq Nat
  BY <1>1, HistogramIs
<1>3. /\ \E b \in bounds : \A c \in bounds : b <= c
      /\ \E b \in bounds : \A c \in bounds : c <= b
  BY <1>1, Extremes
<1>4. /\ least \in bounds /\ \A c \in bounds : least <= c
      /\ greatest \in bounds /\ \A c \in bounds : c <= greatest
  BY <1>3, Zenon
<1>5. SummaryOf(histogram) = [min |-> Lowest(least), max |-> greatest, at |-> at]
  BY DEF SummaryOf
<1>6. ASSUME NEW k \in Quantiles, NEW m \in Quantiles, k <= m
      PROVE  at[k] <= at[m] /\ at[k] \in bounds
  <2>1. k \in PerMille /\ m \in PerMille
    BY QuantilesPerMille
  <2>2. /\ ValueAtQuantile(k, histogram) <= ValueAtQuantile(m, histogram)
        /\ ValueAtQuantile(k, histogram) \in bounds
    BY <1>1, <1>6, <2>1, QuantilesOrdered
  <2> QED
    BY <2>2
<1> HIDE DEF bounds, least, greatest, at
<1>7. Lowest(least) \in Int /\ Lowest(least) <= least
  <2>1. least \in Nat /\ Exact \in Nat
    BY <1>2, <1>4, RowsAssumption
  <2>2. PICK n \in Nat : n = least
    BY <2>1
  <2>3. n % 2 \in Nat /\ n - (n % 2) \in Int /\ n - (n % 2) <= n /\ n <= n
    BY <2>2
  <2>4. Lowest(n) = n \/ Lowest(n) = n - (n % 2)
    BY DEF Lowest
  <2> QED
    BY <2>2, <2>3, <2>4
<1>8. at[1] \in bounds /\ at[999] \in bounds
  <2>1. 1 <= 1 /\ 999 <= 999
    OBVIOUS
  <2> QED
    BY <1>6, <2>1, QuantilesPerMille
<1>9. Lowest(least) <= at[1] /\ at[999] <= greatest
  <2>1. least <= at[1] /\ at[1] \in Nat /\ least \in Nat /\ at[999] <= greatest
    BY <1>2, <1>4, <1>8, Zenon
  <2> QED
    BY <1>7, <2>1
<1>10. Ordered(SummaryOf(histogram))
  BY <1>5, <1>6, <1>9 DEF Ordered
<1>11. SummaryOf(histogram).min = Lowest(least) /\ SummaryOf(histogram).max = greatest
  BY <1>5
<1> QED
  BY <1>4, <1>7, <1>10, <1>11 DEF bounds

LEMMA BookedAccepted == RowsInv /\ Booked => RowAccepted
<1> SUFFICES ASSUME RowsInv, Booked, phase = "accepted", calls[api] > 0, rates # <<>>
             PROVE  ValidMetrics /\ ValidLatencySeries /\ ValidHistogram
  BY DEF RowAccepted
<1>1. /\ rates \in Seq(Nat) /\ latencyWindows \in Seq([Bounds -> Nat])
      /\ api \in Apis /\ calls[api] \in Nat
  BY RowsAssumption DEF RowsInv, RowsTypeOK, TypeOK
<1>2. Total \in [Bounds -> Nat]
  BY <1>1, TotalIs, MergedTyped
<1>3. Count(Total) = calls[api]
  <2>1. Count(Total) \in Nat
    BY <1>2, HistogramOf, HistogramIs
  <2> QED
    BY <2>1 DEF Booked
<1>4. Recorded(Total) # {}
  <2>1. Histogram(Total, Bounds, MaxMicros + 1)
    BY <1>2, HistogramOf
  <2> QED
    BY <1>3, <2>1, NotEmpty
<1>5. ValidMetrics
  BY <1>1, <1>2, <1>3, <1>4, RatesOrdered, SummaryIs DEF ValidMetrics
<1>6. ValidHistogram
  <2>1. SummaryOf(Total).max \in Recorded(Total)
    BY <1>2, <1>4, SummaryIs
  <2>2. \E b \in Recorded(Total) : /\ SummaryOf(Total).min <= b
                                   /\ \A c \in Recorded(Total) : b <= c
    BY <1>2, <1>4, SummaryIs
  <2> QED
    BY <2>1, <2>2 DEF ValidHistogram
<1>7. ValidLatencySeries
  <2>1. ASSUME NEW i \in DOMAIN latencyWindows, Recorded(latencyWindows[i]) # {}
        PROVE  Ordered(SummaryOf(latencyWindows[i]))
    <3>1. latencyWindows[i] \in [Bounds -> Nat]
      BY <1>1
    <3> QED
      BY <2>1, <3>1, SummaryIs
  <2>2. \E i \in DOMAIN latencyWindows : Recorded(latencyWindows[i]) # {}
    <3>1. PICK b \in Bounds : Total[b] > 0
      BY <1>2, <1>4 DEF Recorded
    <3> DEFINE f == [i \in DOMAIN latencyWindows |-> latencyWindows[i][b]]
    <3>2. PICK n \in Nat : n = Len(latencyWindows)
      BY <1>1
    <3>3. DOMAIN f = 1 .. n /\ DOMAIN latencyWindows = 1 .. n /\ \A i \in 1 .. n : f[i] \in Nat
      BY <1>1, <3>2
    <3>4. SumFunction(f) > 0
      BY <3>1 DEF Total
    <3>5. \A i \in 1 .. n : f[i] = latencyWindows[i][b]
      BY <3>3
    <3> HIDE DEF f
    <3>6. SumFunctionOnSet(f, 1 .. n) > 0
      BY <3>3, <3>4 DEF SumFunction
    <3>7. IsFiniteSet(1 .. n)
      BY <3>2, FS_Interval
    <3>8. PICK i \in 1 .. n : f[i] > 0
      BY <3>3, <3>6, <3>7, SumPositive
    <3>9. DOMAIN latencyWindows[i] = Bounds
      BY <1>1, <3>3
    <3>10. b \in Recorded(latencyWindows[i])
      BY <3>5, <3>8, <3>9 DEF Recorded
    <3> QED
      BY <3>3, <3>10
  <2> QED
    BY <2>1, <2>2 DEF ValidLatencySeries
<1> QED
  BY <1>5, <1>6, <1>7

(* However long its calls took and wherever the samples fell between them,  *)
(* the validation accepts the row of an API that was called.                *)
THEOREM RowsAccepted == RowsSpec => []RowAccepted
BY BookedInvariance, BookedAccepted, PTL

=============================================================================
