------------------------- MODULE Preparation_proofs -------------------------
(***************************************************************************)
(* The preparation of golden data, proved for any quiet period, any limits *)
(* of the LSM tree, any dataset and any behaviour of the compactor.        *)
(*                                                                         *)
(* First the order of the bulk load, for any number of producers, any      *)
(* batch size and any depth of the channels.  The batches are numbered in  *)
(* the order of the dataset.  If n of them have been received, the first   *)
(* that producer p has still to deliver is the one among n ..              *)
(* n + ProducerCount - 1 that is p modulo ProducerCount; what p has in its *)
(* channel follows it at distances of ProducerCount.  So the producer      *)
(* whose turn it is delivers batch n.                                      *)
(*                                                                         *)
(* The steps of the preparation are steps of the load or leave the load    *)
(* alone, so what is proved of it holds here.  The wait is judged by the   *)
(* identities of the manifest and of the compactions, which only grow: if  *)
(* those last judged are still in force, nothing was written since, so     *)
(* that the compactor has been idle for as long as the wait believes       *)
(* (WaitInv).                                                              *)
(***************************************************************************)
EXTENDS Preparation, TLAPS

(* The first record of a batch, and the batch. *)
At(k) == BatchRecords * k
Batch(k) == [start |-> At(k), end |-> Lesser(At(k) + BatchRecords, recordCount)]

(* Producer p has delivered what comes before batch `first`, and holds the *)
(* batches from there on in its channel.                                   *)
Holds(p, first) ==
  /\ start[p] = At(first + ProducerCount * Len(queue[p]))
  /\ \A i \in 1 .. Len(queue[p]) :
       /\ queue[p][i] = Batch(first + ProducerCount * (i - 1))
       /\ queue[p][i].start < recordCount

Dealt(n) ==
  \A p \in Producers : \E m \in Nat :
    /\ n <= p + ProducerCount * m /\ p + ProducerCount * m < n + ProducerCount
    /\ Holds(p, p + ProducerCount * m)

(* What the writer has made of the n batches it has received. *)
Collected(n) ==
  /\ writer = "receiving" => loaded = Lesser(At(n), recordCount)
  /\ writer = "writing" => /\ n > 0 /\ loaded = At(n - 1) /\ loaded < recordCount
                           /\ batch = Batch(n - 1)
  /\ writer \in {"joining", "flushing", "done"} =>
       loaded = recordCount /\ recordCount <= At(n)

Running == {"receiving", "writing", "joining", "flushing", "done"}

OrderInv == writer \in Running => \E n \in Nat : Dealt(n) /\ Collected(n)

DatabaseInv ==
  /\ DatabaseContiguous
  /\ writer \in Running =>
       IF loaded = 0 THEN database = <<>>
       ELSE database # <<>> /\ database[Len(database)].end = loaded

ThreadInv ==
  /\ \A p \in Producers : producerState[p] = "sending" => start[p] < recordCount
  /\ writer \in {"receiving", "writing", "joining", "flushing"} => open
  /\ writer \in {"flushing", "done"} => \A p \in Producers : producerState[p] = "returned"
  /\ recordCount > 0

LoadInv == TypeOK /\ OrderInv /\ DatabaseInv /\ ThreadInv /\ NeverOutOfOrder
-----------------------------------------------------------------------------
(* Arithmetic of the batches and of the turns. *)
USE LoadAssumption

LEMMA Products == \A a, b \in Nat : a * b \in Nat
OBVIOUS

LEMMA AtFacts ==
  ASSUME NEW k \in Nat
  PROVE  /\ At(k) \in Nat /\ At(0) = 0
         /\ At(k + 1) = At(k) + BatchRecords
         /\ k > 0 => At(k) = At(k - 1) + BatchRecords
<1>1. At(k) \in Nat
  BY Products DEF At
<1>2. At(k + 1) = At(k) + BatchRecords
  BY DEF At
<1>3. k > 0 => At(k) = At(k - 1) + BatchRecords
  BY DEF At
<1>4. At(0) = 0
  BY DEF At
<1> QED
  BY <1>1, <1>2, <1>3, <1>4

LEMMA AtMonotone ==
  ASSUME NEW k \in Nat, NEW l \in Nat
  PROVE  /\ k <= l => At(k) <= At(l)
         /\ k < l => At(k) < At(l)
<1>1. ASSUME k <= l PROVE At(k) <= At(l)
  <2>1. At(l) = At(k) + BatchRecords * (l - k)
    BY DEF At
  <2>2. l - k \in Nat
    BY <1>1
  <2>3. BatchRecords * (l - k) \in Nat
    BY <2>2, Products
  <2> QED
    BY <2>1, <2>3, AtFacts
<1>2. ASSUME k < l PROVE At(k) < At(l)
  <2>1. At(l) = At(k) + BatchRecords * (l - k - 1) + BatchRecords
    BY DEF At
  <2>2. l - k - 1 \in Nat
    BY <1>2
  <2>3. BatchRecords * (l - k - 1) \in Nat
    BY <2>2, Products
  <2> QED
    BY <2>1, <2>3, AtFacts
<1> QED
  BY <1>1, <1>2

LEMMA AtStride ==
  ASSUME NEW k \in Nat
  PROVE  At(k + ProducerCount) = At(k) + Stride
BY DEF At, Stride

(* The number of a batch from its first record. *)
LEMMA AtNumber ==
  ASSUME NEW k \in Nat
  PROVE  At(k) \div BatchRecords = k
BY Z3 DEF At

LEMMA Division ==
  ASSUME NEW a \in Nat, NEW d \in Nat \ {0}
  PROVE  \E q \in Nat, r \in 0 .. (d - 1) : /\ q = a \div d /\ r = a % d
                                          /\ a = d * q + r
<1> DEFINE q == a \div d
           r == a % d
<1>1. q \in Nat
  BY Z3
<1>2. r \in 0 .. (d - 1)
  BY SMT
<1>3. a - d * q = r
  BY Z3
<1> HIDE DEF q, r
<1>4. d * q \in Nat
  BY <1>1, Products
<1>5. a = d * q + r
  BY <1>2, <1>3, <1>4
<1> QED
  BY <1>1, <1>2, <1>5, Zenon DEF q, r

LEMMA Remainder ==
  ASSUME NEW n \in Nat
  PROVE  \E d \in Nat, r \in Producers : /\ r = n % ProducerCount
                                       /\ n = ProducerCount * d + r
<1>1. ProducerCount \in Nat \ {0}
  BY Zenon DEF LoadAssumption
<1>2. \E d \in Nat, r \in 0 .. (ProducerCount - 1) :
        /\ d = n \div ProducerCount /\ r = n % ProducerCount
        /\ n = ProducerCount * d + r
  BY <1>1, Division, Zenon
<1> QED
  BY <1>2, Zenon DEF Producers

(* Two batches of a producer are a multiple of ProducerCount apart. *)
LEMMA SameProducer ==
  ASSUME NEW p \in Producers, NEW q \in Producers, NEW l \in Nat, NEW m \in Nat,
         p + ProducerCount * l = q + ProducerCount * m
  PROVE  p = q
<1>1. p \in Nat /\ q \in Nat /\ p < ProducerCount /\ q < ProducerCount
  BY DEF Producers
<1>2. CASE l = m
  BY <1>1, <1>2
<1>3. CASE l < m
  <2>1. ProducerCount * m = ProducerCount * l + ProducerCount * (m - l - 1) + ProducerCount
    OBVIOUS
  <2>2. ProducerCount * (m - l - 1) \in Nat /\ ProducerCount * l \in Nat
    BY <1>3, Products
  <2> QED
    BY <1>1, <2>1, <2>2
<1>4. CASE l > m
  <2>1. ProducerCount * l = ProducerCount * m + ProducerCount * (l - m - 1) + ProducerCount
    OBVIOUS
  <2>2. ProducerCount * (l - m - 1) \in Nat /\ ProducerCount * m \in Nat
    BY <1>4, Products
  <2> QED
    BY <1>1, <2>1, <2>2
<1> QED
  BY <1>2, <1>3, <1>4

(* The first batch that is left of the producer whose turn it is. *)
LEMMA TurnsBatch ==
  ASSUME NEW n \in Nat, NEW p \in Producers, NEW m \in Nat, p = n % ProducerCount,
         n <= p + ProducerCount * m, p + ProducerCount * m < n + ProducerCount
  PROVE  p + ProducerCount * m = n
<1>1. PICK d \in Nat, r \in Producers : r = p /\ n = ProducerCount * d + r
  BY Remainder, Zenon
<1>2. ProducerCount * d \in Nat /\ ProducerCount * m \in Nat
  BY Products
<1>3. p \in Nat /\ n = ProducerCount * d + p
  BY <1>1 DEF Producers
<1>4. CASE m < d
  <2>1. ProducerCount * d = ProducerCount * m + ProducerCount * (d - m - 1) + ProducerCount
    BY <1>1
  <2>2. ProducerCount * (d - m - 1) \in Nat
    BY <1>1, <1>4, Products
  <2> QED
    BY <1>2, <1>3, <2>1, <2>2
<1>5. CASE m > d
  <2>1. ProducerCount * m = ProducerCount * d + ProducerCount * (m - d - 1) + ProducerCount
    BY <1>1
  <2>2. ProducerCount * (m - d - 1) \in Nat
    BY <1>1, <1>5, Products
  <2> QED
    BY <1>2, <1>3, <2>1, <2>2
<1>6. CASE m = d
  BY <1>3, <1>6
<1> QED
  BY <1>3, <1>4, <1>5, <1>6

-----------------------------------------------------------------------------
LEMMA InitInv == Init => LoadInv
<1> SUFFICES ASSUME Init PROVE LoadInv
  OBVIOUS
<1>1. \A p \in Producers : p \in Nat /\ 0 <= p /\ p < ProducerCount
  BY DEF Producers
<1>2. TypeOK
  <2>1. start \in [Producers -> Nat]
    BY <1>1, Products DEF Init
  <2>2. queue \in [Producers -> Seq(Batches)]
    BY DEF Init
  <2>3. recordCount \in Nat /\ loaded \in 0 .. recordCount
    BY DEF Init
  <2> QED
    BY <2>1, <2>2, <2>3 DEF Init, TypeOK, NoBatch, Batches
<1>3. OrderInv
  <2>1. Dealt(0)
    <3> SUFFICES ASSUME NEW p \in Producers
                 PROVE  /\ 0 <= p + ProducerCount * 0
                        /\ p + ProducerCount * 0 < 0 + ProducerCount
                        /\ Holds(p, p + ProducerCount * 0)
      BY DEF Dealt
    <3>1. p + ProducerCount * 0 = p
      BY <1>1
    <3>2. Holds(p, p)
      <4>1. queue[p] = <<>> /\ start[p] = BatchRecords * p
        BY DEF Init
      <4>2. p + ProducerCount * Len(queue[p]) = p
        BY <1>1, <4>1
      <4> QED
        BY <4>1, <4>2 DEF Holds, At
    <3> QED
      BY <1>1, <3>1, <3>2
  <2>2. Collected(0)
    BY AtFacts DEF Init, Collected, Lesser
  <2> QED
    BY <2>1, <2>2 DEF OrderInv
<1>4. DatabaseInv
  BY DEF Init, DatabaseInv, DatabaseContiguous
<1>5. ThreadInv /\ NeverOutOfOrder
  BY DEF Init, ThreadInv, NeverOutOfOrder
<1> QED
  BY <1>2, <1>3, <1>4, <1>5 DEF LoadInv

(* The order of the batches does not depend on what the threads do else. *)
LEMMA OrderKept ==
  ASSUME OrderInv, UNCHANGED <<recordCount, start, queue, writer, batch, loaded>>
  PROVE  OrderInv'
<1>1. ASSUME NEW n \in Nat, Dealt(n) PROVE Dealt(n)'
  <2>1. ASSUME NEW p \in Producers, NEW first, Holds(p, first) PROVE Holds(p, first)'
    BY <2>1 DEF Holds, Batch, At
  <2> QED
    BY <1>1, <2>1 DEF Dealt
<1>2. ASSUME NEW n \in Nat, Collected(n) PROVE Collected(n)'
  BY <1>2 DEF Collected, Batch, At
<1> QED
  BY <1>1, <1>2 DEF OrderInv

LEMMA DatabaseKept ==
  ASSUME DatabaseInv, UNCHANGED <<writer, loaded, database>>
  PROVE  DatabaseInv'
BY DEF DatabaseInv, DatabaseContiguous

(* After a failure nothing is left to keep but what is in the database. *)
LEMMA FailInv ==
  ASSUME LoadInv, NEW failure \in Failures \ {"out_of_order"}, Fail(failure),
         UNCHANGED <<recordCount, producerVars, loaded>>,
         batch' \in Batches, database' \in Seq(Batches), DatabaseContiguous'
  PROVE  LoadInv'
<1>1. TypeOK'
  <2>1. queue' \in [Producers -> Seq(Batches)]
    BY DEF Fail
  <2> QED
    BY <2>1 DEF LoadInv, TypeOK, Fail, producerVars, Outcomes
<1>2. writer' \notin Running \union {"out_of_order"}
  BY DEF Fail, Failures, Running
<1>3. OrderInv' /\ DatabaseInv' /\ NeverOutOfOrder'
  BY <1>2 DEF OrderInv, DatabaseInv, NeverOutOfOrder
<1>4. ThreadInv'
  BY <1>2 DEF LoadInv, ThreadInv, producerVars, Running
<1> QED
  BY <1>1, <1>3, <1>4 DEF LoadInv

(* A step of a producer that sends nothing. *)
LEMMA ProducerInv ==
  ASSUME LoadInv, NEW p \in Producers,
         Generates(p) \/ SendFails(p) \/ Panics(p)
  PROVE  LoadInv'
<1>1. /\ producerState[p] \in {"generating", "sending"}
      /\ \A q \in Producers : q # p => producerState'[q] = producerState[q]
      /\ producerState'[p] \in {"sending", "returned", "panicked"}
      /\ producerState'[p] = "sending" => start[p] < recordCount
      /\ producerState' \in [Producers -> {"generating", "sending", "returned", "panicked"}]
      /\ UNCHANGED <<recordCount, start, queue, open, writer, batch, loaded, database>>
  BY DEF LoadInv, TypeOK, Generates, SendFails, Panics
<1>2. TypeOK'
  BY <1>1 DEF LoadInv, TypeOK
<1>3. OrderInv' /\ DatabaseInv'
  BY <1>1, OrderKept, DatabaseKept DEF LoadInv
<1>4. ThreadInv' /\ NeverOutOfOrder'
  BY <1>1 DEF LoadInv, ThreadInv, NeverOutOfOrder
<1> QED
  BY <1>2, <1>3, <1>4 DEF LoadInv

LEMMA SendsInv ==
  ASSUME LoadInv, NEW p \in Producers, Sends(p)
  PROVE  LoadInv'
<1>1. /\ producerState[p] = "sending" /\ start[p] < recordCount
      /\ queue' = [queue EXCEPT ![p] = Append(queue[p], NextBatch(p))]
      /\ start' = [start EXCEPT ![p] = start[p] + Stride]
      /\ producerState' = [producerState EXCEPT ![p] = "generating"]
      /\ UNCHANGED <<recordCount, open, writer, batch, loaded, database>>
  BY DEF LoadInv, ThreadInv, Sends
<1>2. TypeOK
  BY DEF LoadInv
<1>3. Stride \in Nat /\ start[p] \in Nat /\ recordCount \in Nat
  BY <1>2, Products DEF TypeOK, Stride
<1>4. NextBatch(p) \in Batches
  BY <1>3 DEF NextBatch, Lesser, Batches
<1>5. TypeOK'
  <2>1. start' \in [Producers -> Nat]
    BY <1>1, <1>2, <1>3 DEF TypeOK
  <2>2. queue' \in [Producers -> Seq(Batches)]
    BY <1>1, <1>2, <1>4 DEF TypeOK
  <2>3. producerState' \in [Producers -> {"generating", "sending", "returned", "panicked"}]
    BY <1>1, <1>2 DEF TypeOK
  <2> QED
    BY <1>1, <1>2, <2>1, <2>2, <2>3 DEF TypeOK
<1>6. ASSUME writer \in Running PROVE OrderInv'
  <2>1. PICK n \in Nat : Dealt(n) /\ Collected(n)
    BY <1>6 DEF LoadInv, OrderInv
  <2>2. ASSUME NEW q \in Producers
        PROVE  \E m \in Nat :
                 /\ n <= q + ProducerCount * m /\ q + ProducerCount * m < n + ProducerCount
                 /\ Holds(q, q + ProducerCount * m)'
    <3>1. PICK m \in Nat :
             /\ n <= q + ProducerCount * m /\ q + ProducerCount * m < n + ProducerCount
             /\ Holds(q, q + ProducerCount * m)
      BY <2>1 DEF Dealt
    <3>2. CASE q # p
      <4>1. queue'[q] = queue[q] /\ start'[q] = start[q]
        BY <1>1, <1>2, <3>2 DEF TypeOK
      <4>2. Holds(q, q + ProducerCount * m)'
        BY <1>1, <3>1, <4>1 DEF Holds, Batch, At, Lesser
      <4> QED
        BY <3>1, <4>2
    <3>3. CASE q = p
      <4> DEFINE first == p + ProducerCount * m
                 len == Len(queue[p])
                 last == first + ProducerCount * len
      <4>1. queue[p] \in Seq(Batches) /\ len \in Nat
        BY <1>2 DEF TypeOK
      <4>2. first \in Nat /\ ProducerCount * len \in Nat /\ last \in Nat
        <5>1. p \in Nat
          BY DEF Producers
        <5>2. ProducerCount * m \in Nat
          BY Products
        <5>3. first \in Nat
          BY <5>1, <5>2
        <5> HIDE DEF first
        <5>4. ProducerCount * len \in Nat
          BY <4>1, Products
        <5> QED
          BY <5>3, <5>4
      <4>3. /\ start[p] = At(last)
            /\ \A i \in 1 .. len :
                 /\ queue[p][i] = Batch(first + ProducerCount * (i - 1))
                 /\ queue[p][i].start < recordCount
        BY <3>1, <3>3 DEF Holds
      <4>4. /\ queue'[p] = Append(queue[p], NextBatch(p))
            /\ start'[p] = start[p] + Stride
        BY <1>1, <1>2 DEF TypeOK
      <4>5. /\ Len(queue'[p]) = len + 1
            /\ \A i \in 1 .. len : queue'[p][i] = queue[p][i]
            /\ queue'[p][len + 1] = NextBatch(p)
        BY <4>1, <4>4, <1>4
      <4>6. NextBatch(p) = Batch(last) /\ NextBatch(p).start < recordCount
        BY <1>1, <4>3 DEF NextBatch, Batch
      <4>7. first + ProducerCount * (len + 1) = last + ProducerCount
        BY <4>1, <4>2
      <4> HIDE DEF first, len, last
      <4>8. start'[p] = At(first + ProducerCount * (len + 1))
        BY <4>2, <4>3, <4>4, <4>7, AtStride
      <4>9. ASSUME NEW i \in 1 .. (len + 1)
            PROVE  /\ queue'[p][i] = Batch(first + ProducerCount * (i - 1))
                   /\ queue'[p][i].start < recordCount
        <5>1. CASE i \in 1 .. len
          BY <4>3, <4>5, <5>1
        <5>2. CASE i = len + 1
          <6>1. i - 1 = len
            BY <4>1, <5>2
          <6> QED
            BY <4>5, <4>6, <5>2, <6>1 DEF last
        <5> QED
          BY <4>1, <5>1, <5>2
      <4>10. Holds(p, first)'
        BY <1>1, <4>5, <4>8, <4>9 DEF Holds, Batch, At, Lesser
      <4> QED
        BY <3>1, <3>3, <4>10 DEF first
    <3> QED
      BY <3>2, <3>3
  <2>3. Collected(n)'
    BY <1>1, <2>1 DEF Collected, Batch, At, Lesser
  <2> QED
    BY <2>2, <2>3 DEF OrderInv, Dealt
<1>7. OrderInv'
  BY <1>1, <1>6 DEF OrderInv
<1>8. DatabaseInv'
  BY <1>1, DatabaseKept DEF LoadInv
<1>9. ThreadInv' /\ NeverOutOfOrder'
  BY <1>1, <1>2 DEF LoadInv, TypeOK, ThreadInv, NeverOutOfOrder
<1> QED
  BY <1>5, <1>7, <1>8, <1>9 DEF LoadInv

(* What the writer finds in the channel of the producer whose turn it is. *)
LEMMA TurnDelivers ==
  ASSUME LoadInv, writer = "receiving", loaded < recordCount,
         NEW n \in Nat, Dealt(n), Collected(n)
  PROVE  /\ Turn = n % ProducerCount /\ Turn \in Producers /\ loaded = At(n)
         /\ Holds(Turn, n)
<1>1. loaded \in Nat /\ recordCount \in Nat
  BY DEF LoadInv, TypeOK
<1>2. loaded = At(n)
  BY <1>1, AtFacts DEF Collected, Lesser
<1>3. Turn = n % ProducerCount
  BY <1>2, AtNumber, Zenon DEF Turn
<1>4. Turn \in Producers
  BY <1>3, Remainder, Zenon
<1>5. PICK m \in Nat :
        /\ n <= Turn + ProducerCount * m /\ Turn + ProducerCount * m < n + ProducerCount
        /\ Holds(Turn, Turn + ProducerCount * m)
  BY <1>4 DEF Dealt
<1>6. Turn + ProducerCount * m = n
  BY <1>3, <1>4, <1>5, TurnsBatch
<1> QED
  BY <1>2, <1>3, <1>4, <1>5, <1>6, Zenon

LEMMA ReceivesInv ==
  ASSUME LoadInv, Receives
  PROVE  LoadInv'
<1>1. writer = "receiving" /\ loaded < recordCount /\ queue[Turn] # <<>>
  BY DEF Receives
<1>2. TypeOK
  BY DEF LoadInv
<1>3. PICK n \in Nat : Dealt(n) /\ Collected(n)
  BY <1>1 DEF LoadInv, OrderInv, Running
<1>4. PICK p \in Producers :
        p = Turn /\ p = n % ProducerCount /\ loaded = At(n) /\ Holds(p, n)
  BY <1>1, <1>3, TurnDelivers, Zenon
<1> DEFINE s == queue[p]
<1>5. s \in Seq(Batches) /\ Len(s) > 0 /\ Len(s) \in Nat /\ Len(queue[p]) = Len(s)
  BY <1>1, <1>2, <1>4 DEF TypeOK
<1>6. Head(s) = Batch(n) /\ Head(s) \in Batches
  <2>1. s[1] = Batch(n + ProducerCount * (1 - 1))
    BY <1>4, <1>5 DEF Holds
  <2>2. n + ProducerCount * (1 - 1) = n
    OBVIOUS
  <2> QED
    BY <1>5, <2>1, <2>2
<1>7. Head(s).start = loaded
  BY <1>4, <1>6 DEF Batch
<1>8. /\ batch' = Batch(n) /\ batch' \in Batches
      /\ queue' = [queue EXCEPT ![p] = Tail(s)]
      /\ writer' = "writing"
      /\ UNCHANGED <<recordCount, producerVars, open, loaded, database>>
  BY <1>4, <1>6, <1>7 DEF Receives
<1>9. TypeOK'
  <2>1. queue' \in [Producers -> Seq(Batches)]
    <3>1. Tail(s) \in Seq(Batches)
      <4> HIDE DEF s
      <4> QED
        BY <1>5
    <3> QED
      BY <1>2, <1>8, <3>1 DEF TypeOK
  <2> QED
    BY <1>2, <1>8, <2>1 DEF TypeOK, producerVars
<1>10. Dealt(n + 1)'
  <2> SUFFICES ASSUME NEW q \in Producers
               PROVE  \E m \in Nat :
                        /\ n + 1 <= q + ProducerCount * m
                        /\ q + ProducerCount * m < n + 1 + ProducerCount
                        /\ Holds(q, q + ProducerCount * m)'
    BY DEF Dealt
  <2>1. PICK m \in Nat :
          /\ n <= q + ProducerCount * m /\ q + ProducerCount * m < n + ProducerCount
          /\ Holds(q, q + ProducerCount * m)
    BY <1>3 DEF Dealt
  <2>2. q \in Nat /\ ProducerCount * m \in Nat
    BY Products DEF Producers
  <2>3. CASE q # p
    <3>1. queue'[q] = queue[q] /\ start'[q] = start[q]
      BY <1>2, <1>8, <2>3 DEF TypeOK, producerVars
    <3>2. Holds(q, q + ProducerCount * m)'
      BY <1>8, <2>1, <3>1 DEF Holds, Batch, At
    <3>3. q + ProducerCount * m # n
      <4>1. PICK d \in Nat, r \in Producers :
              r = n % ProducerCount /\ n = ProducerCount * d + r
        BY Remainder, Zenon
      <4>2. r = p /\ ProducerCount * d \in Nat /\ r \in Nat
        BY <1>4, <4>1, Products DEF Producers
      <4>3. n = r + ProducerCount * d
        BY <4>1, <4>2
      <4> QED
        BY <2>3, <4>2, <4>3, SameProducer, Zenon
    <3>4. /\ n + 1 <= q + ProducerCount * m
          /\ q + ProducerCount * m < n + 1 + ProducerCount
      <4> DEFINE x == ProducerCount * m
      <4>1. /\ n <= q + x /\ q + x < n + ProducerCount /\ q + x # n
            /\ q \in Nat /\ x \in Nat
        BY <2>1, <2>2, <3>3
      <4> HIDE DEF x
      <4>2. n + 1 <= q + x /\ q + x < n + 1 + ProducerCount
        BY <4>1
      <4> QED
        BY <4>2 DEF x
    <3> QED
      BY <3>2, <3>4, Zenon
  <2>4. CASE q = p
    <3>1. PICK d \in Nat, r \in Producers :
            r = n % ProducerCount /\ n = ProducerCount * d + r
      BY Remainder, Zenon
    <3>2. r = p /\ ProducerCount * d \in Nat /\ r \in Nat
      BY <1>4, <3>1, Products DEF Producers
    <3>3. p + ProducerCount * (d + 1) = n + ProducerCount
      BY <3>1, <3>2
    <3>4. queue'[p] = Tail(s) /\ start'[p] = start[p]
      BY <1>2, <1>4, <1>8 DEF TypeOK, producerVars
    <3>5. Len(queue'[p]) = Len(s) - 1 /\ \A i \in 1 .. (Len(s) - 1) : queue'[p][i] = s[i + 1]
      BY <1>5, <3>4
    <3>6. start'[p] = At((n + ProducerCount) + ProducerCount * (Len(s) - 1))
      <4>1. n + ProducerCount * Len(s) = (n + ProducerCount) + ProducerCount * (Len(s) - 1)
        <5> HIDE DEF s
        <5> QED
          BY <1>5
      <4>2. start[p] = At(n + ProducerCount * Len(s))
        BY <1>4 DEF Holds
      <4> QED
        BY <3>4, <4>1, <4>2, Zenon
    <3>7. ASSUME NEW i \in 1 .. (Len(s) - 1)
          PROVE  /\ queue'[p][i] = Batch((n + ProducerCount) + ProducerCount * (i - 1))
                 /\ queue'[p][i].start < recordCount
      <4>1. i + 1 \in 1 .. Len(s) /\ (i + 1) - 1 = i
        BY <1>5
      <4>2. /\ s[i + 1] = Batch(n + ProducerCount * i)
            /\ s[i + 1].start < recordCount
        BY <1>4, <4>1 DEF Holds
      <4>3. n + ProducerCount * i = (n + ProducerCount) + ProducerCount * (i - 1)
        OBVIOUS
      <4> QED
        BY <3>5, <4>2, <4>3
    <3>8. Holds(p, n + ProducerCount)'
      <4>1. recordCount' = recordCount /\ start'[p] = start[p]
        BY <1>8, <3>4
      <4>2. \A k : Batch(k)' = Batch(k) /\ At(k)' = At(k)
        BY <4>1 DEF Batch, At
      <4> HIDE DEF s
      <4> QED
        BY <3>5, <3>6, <3>7, <4>1, <4>2 DEF Holds
    <3>9. Holds(q, q + ProducerCount * (d + 1))'
      BY <2>4, <3>3, <3>8, Zenon
    <3>10. /\ n + 1 <= q + ProducerCount * (d + 1)
           /\ q + ProducerCount * (d + 1) < n + 1 + ProducerCount
      <4>1. q + ProducerCount * (d + 1) = n + ProducerCount
        BY <2>4, <3>3
      <4>2. n + 1 <= n + ProducerCount /\ n + ProducerCount < n + 1 + ProducerCount
        OBVIOUS
      <4> QED
        BY <4>1, <4>2, Zenon
    <3>11. d + 1 \in Nat
      OBVIOUS
    <3> QED
      BY <3>9, <3>10, <3>11, Zenon
  <2> QED
    BY <2>3, <2>4
<1>11. Collected(n + 1)'
  <2>1. (n + 1) - 1 = n /\ n + 1 > 0
    OBVIOUS
  <2>2. Batch(n)' = Batch(n) /\ At(n)' = At(n)
    BY <1>8 DEF Batch, At
  <2> QED
    BY <1>1, <1>4, <1>8, <2>1, <2>2 DEF Collected
<1>12. OrderInv'
  BY <1>10, <1>11 DEF OrderInv
<1>13. DatabaseInv'
  BY <1>1, <1>8 DEF LoadInv, DatabaseInv, DatabaseContiguous, Running
<1>14. ThreadInv' /\ NeverOutOfOrder'
  BY <1>1, <1>8 DEF LoadInv, ThreadInv, NeverOutOfOrder, producerVars
<1> QED
  BY <1>9, <1>12, <1>13, <1>14 DEF LoadInv

(* The database takes the batch that follows what it holds. *)
LEMMA AppendContiguous ==
  ASSUME LoadInv, writer = "writing", database' = Append(database, batch)
  PROVE  /\ database' \in Seq(Batches) /\ DatabaseContiguous'
         /\ database' # <<>> /\ database'[Len(database')] = batch
<1>1. /\ database \in Seq(Batches) /\ batch \in Batches /\ loaded \in Nat
      /\ Len(database) \in Nat
  BY DEF LoadInv, TypeOK
<1>2. batch.start = loaded
  BY DEF LoadInv, OrderInv, Running, Collected, Batch
<1>3. /\ database' \in Seq(Batches) /\ Len(database') = Len(database) + 1
      /\ \A i \in 1 .. Len(database) : database'[i] = database[i]
      /\ database'[Len(database) + 1] = batch
  BY <1>1
<1>4. ASSUME NEW i \in 1 .. (Len(database) + 1)
      PROVE  database'[i].start = (IF i = 1 THEN 0 ELSE database'[i - 1].end)
  <2>1. CASE i \in 1 .. Len(database)
    <3>1. database[i].start = (IF i = 1 THEN 0 ELSE database[i - 1].end)
      BY <2>1 DEF LoadInv, DatabaseInv, DatabaseContiguous
    <3>2. i # 1 => i - 1 \in 1 .. Len(database)
      BY <1>1, <2>1
    <3> QED
      BY <1>3, <2>1, <3>1, <3>2
  <2>2. CASE i = Len(database) + 1
    <3>1. IF loaded = 0 THEN database = <<>>
          ELSE database # <<>> /\ database[Len(database)].end = loaded
      BY DEF LoadInv, DatabaseInv, Running
    <3>2. CASE database = <<>>
      BY <1>1, <1>2, <1>3, <2>2, <3>1, <3>2
    <3>3. CASE database # <<>>
      <4>1. Len(database) > 0
        BY <1>1, <3>3
      <4>2. database'[i - 1] = database[Len(database)] /\ i # 1
        BY <1>1, <1>3, <2>2, <4>1
      <4> QED
        BY <1>1, <1>2, <1>3, <2>2, <3>1, <3>3, <4>2
    <3> QED
      BY <3>2, <3>3
  <2> QED
    BY <1>1, <2>1, <2>2
<1>5. DatabaseContiguous'
  BY <1>3, <1>4 DEF DatabaseContiguous
<1>6. database' # <<>>
  BY <1>1, <1>3
<1> QED
  BY <1>1, <1>3, <1>5, <1>6

LEMMA WriteSucceedsInv ==
  ASSUME LoadInv, WriteSucceeds
  PROVE  LoadInv'
<1>1. /\ writer = "writing" /\ database' = Append(database, batch)
      /\ loaded' = batch.end /\ batch' = NoBatch /\ writer' = "receiving"
      /\ UNCHANGED <<recordCount, producerVars, queue, open>>
  BY DEF WriteSucceeds
<1>2. PICK n \in Nat : Dealt(n) /\ Collected(n)
  BY <1>1 DEF LoadInv, OrderInv, Running
<1>3. /\ n > 0 /\ loaded = At(n - 1) /\ batch = Batch(n - 1) /\ n - 1 \in Nat
      /\ loaded < recordCount /\ recordCount \in Nat /\ loaded \in Nat
  BY <1>1, <1>2 DEF LoadInv, TypeOK, Collected
<1>4. batch.end = Lesser(At(n), recordCount)
  BY <1>3, AtFacts DEF Batch
<1>5. batch.end \in Nat /\ batch.end <= recordCount /\ batch.end > 0
  BY <1>3, <1>4, AtFacts DEF Lesser
<1>6. TypeOK'
  BY <1>1, <1>5, AppendContiguous DEF LoadInv, TypeOK, NoBatch, Batches, producerVars
<1>7. Dealt(n)'
  <2>1. ASSUME NEW p \in Producers, NEW first, Holds(p, first) PROVE Holds(p, first)'
    BY <1>1, <2>1 DEF Holds, Batch, At, producerVars
  <2> QED
    BY <1>2, <2>1 DEF Dealt
<1>8. Collected(n)'
  BY <1>1, <1>4 DEF Collected, At
<1>9. OrderInv'
  BY <1>7, <1>8 DEF OrderInv
<1>10. DatabaseInv'
  BY <1>1, <1>5, AppendContiguous DEF DatabaseInv
<1>11. ThreadInv' /\ NeverOutOfOrder'
  BY <1>1 DEF LoadInv, ThreadInv, NeverOutOfOrder, producerVars
<1> QED
  BY <1>6, <1>9, <1>10, <1>11 DEF LoadInv

(* The steps of the writer that take or write no batch. *)
LEMMA WriterMoves ==
  ASSUME LoadInv, AllReceived \/ ProducersJoined \/ (Flushes /\ writer' = "done")
  PROVE  LoadInv'
<1>1. /\ writer \in {"receiving", "joining", "flushing"}
      /\ writer' \in {"joining", "flushing", "done"}
      /\ writer = "receiving" => loaded >= recordCount
      /\ writer' \in {"flushing", "done"} => \A p \in Producers : producerState[p] = "returned"
      /\ open' = open \/ writer' = "done"
      /\ open' \in BOOLEAN
      /\ UNCHANGED <<recordCount, producerState, start, queue, batch, loaded, database>>
  <2>1. CASE AllReceived
    BY <2>1 DEF AllReceived, producerVars, LoadInv, TypeOK
  <2>2. CASE ProducersJoined
    BY <2>2 DEF ProducersJoined, producerVars, LoadInv, TypeOK
  <2>3. CASE Flushes /\ writer' = "done"
    BY <2>3 DEF Flushes, Fail, producerVars, LoadInv, ThreadInv, Failures
  <2> QED
    BY <2>1, <2>2, <2>3
<1>2. TypeOK'
  BY <1>1 DEF LoadInv, TypeOK, Outcomes
<1>3. PICK n \in Nat : Dealt(n) /\ Collected(n)
  BY <1>1 DEF LoadInv, OrderInv, Running
<1>4. loaded = recordCount /\ recordCount <= At(n)
  <2>1. loaded \in 0 .. recordCount /\ recordCount \in Nat /\ At(n) \in Nat
    BY AtFacts DEF LoadInv, TypeOK
  <2> QED
    BY <1>1, <1>3, <2>1 DEF Collected, Lesser
<1>5. Dealt(n)'
  <2>1. ASSUME NEW p \in Producers, NEW first, Holds(p, first) PROVE Holds(p, first)'
    BY <1>1, <2>1 DEF Holds, Batch, At
  <2> QED
    BY <1>3, <2>1 DEF Dealt
<1>6. Collected(n)'
  BY <1>1, <1>4 DEF Collected, At
<1>7. OrderInv'
  BY <1>5, <1>6 DEF OrderInv
<1>8. DatabaseInv'
  BY <1>1 DEF LoadInv, DatabaseInv, DatabaseContiguous, Running
<1>9. ThreadInv' /\ NeverOutOfOrder'
  BY <1>1 DEF LoadInv, ThreadInv, NeverOutOfOrder
<1> QED
  BY <1>2, <1>7, <1>8, <1>9 DEF LoadInv

LEMMA WriterFails ==
  ASSUME LoadInv,
         \/ ReceivesNothing \/ WriteFails \/ JoinFails
         \/ (Flushes /\ writer' # "done")
  PROVE  LoadInv'
<1>1. batch' \in Batches /\ UNCHANGED <<recordCount, producerVars, loaded>>
  BY DEF LoadInv, TypeOK, NoBatch, Batches,
         ReceivesNothing, WriteFails, JoinFails, Flushes
<1>2. /\ database \in Seq(Batches) /\ DatabaseContiguous
  BY DEF LoadInv, TypeOK, DatabaseInv
<1>3. CASE WriteFails
  <2>1. /\ writer = "writing" /\ Fail("write_failed")
        /\ database' = database \/ database' = Append(database, batch)
    BY <1>3 DEF WriteFails
  <2>2. database' \in Seq(Batches) /\ DatabaseContiguous'
    BY <1>2, <2>1, AppendContiguous DEF DatabaseContiguous
  <2> QED
    BY <1>1, <2>1, <2>2, FailInv DEF Failures
<1>4. CASE ~WriteFails
  <2>1. database' = database /\ DatabaseContiguous'
    BY <1>2, <1>4 DEF ReceivesNothing, JoinFails, Flushes, DatabaseContiguous
  <2>2. \E f \in Failures \ {"out_of_order"} : Fail(f)
    BY <1>4 DEF ReceivesNothing, JoinFails, Flushes, Failures
  <2> QED
    BY <1>1, <1>2, <2>1, <2>2, FailInv
<1> QED
  BY <1>3, <1>4

LEMMA NextInv == LoadInv /\ [Next]_vars => LoadInv'
<1> SUFFICES ASSUME LoadInv, [Next]_vars PROVE LoadInv'
  OBVIOUS
<1>1. ASSUME NEW p \in Producers, Producer(p) \/ Panics(p) PROVE LoadInv'
  BY <1>1, ProducerInv, SendsInv DEF Producer
<1>2. CASE Writer
  BY <1>2, ReceivesInv, WriteSucceedsInv, WriterMoves, WriterFails DEF Writer
<1>3. CASE UNCHANGED vars
  <2>1. UNCHANGED <<recordCount, producerState, start, queue, open, writer, batch,
                    loaded, database>>
    BY <1>3 DEF vars, producerVars
  <2>2. TypeOK'
    BY <2>1 DEF LoadInv, TypeOK
  <2>3. OrderInv' /\ DatabaseInv'
    BY <2>1, OrderKept, DatabaseKept DEF LoadInv
  <2>4. ThreadInv' /\ NeverOutOfOrder'
    BY <2>1 DEF LoadInv, ThreadInv, NeverOutOfOrder
  <2> QED
    BY <2>2, <2>3, <2>4 DEF LoadInv
<1> QED
  BY <1>1, <1>2, <1>3 DEF Next, Returned

THEOREM Invariance == Spec => []LoadInv
BY InitInv, NextInv, PTL DEF Spec

-----------------------------------------------------------------------------
(* A load that has succeeded has nothing left in a channel. *)
LEMMA NothingLeft ==
  ASSUME LoadInv, writer = "done"
  PROVE  \A p \in Producers : queue[p] = <<>>
<1> SUFFICES ASSUME NEW p \in Producers, queue[p] # <<>> PROVE FALSE
  OBVIOUS
<1>1. PICK n \in Nat : Dealt(n) /\ Collected(n)
  BY DEF LoadInv, OrderInv, Running
<1>2. PICK m \in Nat : /\ n <= p + ProducerCount * m
                      /\ Holds(p, p + ProducerCount * m)
  BY <1>1 DEF Dealt
<1> DEFINE first == p + ProducerCount * m
<1>3. first \in Nat
  <2>1. p \in Nat /\ ProducerCount * m \in Nat
    BY Products DEF Producers
  <2> QED
    BY <2>1
<1>4. 1 \in 1 .. Len(queue[p])
  <2>1. queue[p] \in Seq(Batches)
    BY DEF LoadInv, TypeOK
  <2> QED
    BY <2>1
<1>5. queue[p][1] = Batch(first + ProducerCount * (1 - 1)) /\ queue[p][1].start < recordCount
  BY <1>2, <1>4 DEF Holds
<1>6. first + ProducerCount * (1 - 1) = first
  BY <1>3
<1>7. At(first) < recordCount
  BY <1>5, <1>6 DEF Batch
<1>8. recordCount <= At(n) /\ At(n) <= At(first)
  BY <1>1, <1>2, <1>3, AtMonotone DEF Collected
<1>9. At(n) \in Nat /\ At(first) \in Nat /\ recordCount \in Nat
  BY <1>3, AtFacts DEF LoadInv, TypeOK
<1> HIDE DEF first
<1> QED
  BY <1>7, <1>8, <1>9

(* Every variable keeps its type, and no more records are counted than      *)
(* there are.                                                               *)
THEOREM TypeCorrect == Spec => []TypeOK
<1>1. LoadInv => TypeOK
  BY DEF LoadInv
<1> QED
  BY <1>1, Invariance, PTL

(* The order assertion of populate_dataset never fails.                     *)
THEOREM TurnsAgree == Spec => []NeverOutOfOrder
<1>1. LoadInv => NeverOutOfOrder
  BY DEF LoadInv
<1> QED
  BY <1>1, Invariance, PTL

(* The database holds an unbroken prefix of the dataset, whatever fails.    *)
THEOREM PrefixLoaded == Spec => []DatabaseContiguous
<1>1. LoadInv => DatabaseContiguous
  BY DEF LoadInv, DatabaseInv
<1> QED
  BY <1>1, Invariance, PTL

(* A load that succeeds is complete.                                        *)
THEOREM CompleteLoad == Spec => []LoadComplete
<1>1. LoadInv => LoadComplete
  <2> SUFFICES ASSUME LoadInv, writer = "done"
               PROVE  /\ database # <<>> /\ database[Len(database)].end = recordCount
                      /\ \A p \in Producers : producerState[p] = "returned" /\ queue[p] = <<>>
    BY DEF LoadComplete
  <2>1. loaded = recordCount /\ recordCount # 0
    BY DEF LoadInv, OrderInv, Running, Collected, ThreadInv, TypeOK
  <2>2. database # <<>> /\ database[Len(database)].end = recordCount
    BY <2>1 DEF LoadInv, DatabaseInv, Running
  <2>3. \A p \in Producers : producerState[p] = "returned"
    BY DEF LoadInv, ThreadInv
  <2> QED
    BY <2>2, <2>3, NothingLeft
<1> QED
  BY <1>1, Invariance, PTL

HIDE LoadAssumption

-----------------------------------------------------------------------------
(* The wait for a quiet compactor *)

View == [manifest : Nat, compactions : Nat, statuses : SUBSET Statuses,
         parts : SUBSET {"manifest", "compactions"}]

WaitTyped ==
  /\ manifestId \in 1 .. (1 + MaxManifests)
  /\ compactionsId \in Nat
  /\ compactions \in Seq(Statuses) /\ Len(compactions) <= compactionsId
  /\ compactorRuns \in BOOLEAN
  /\ wait \in {"off", "reading", "judging", "sleeping", "quiet", "failed"}
  /\ view \in View
  /\ lastState \in Nat \X Nat
  /\ stableFor \in 0 .. Quiet /\ idleFor \in 0 .. Quiet
  /\ idleAtRead \in 0 .. Quiet /\ readFor \in 0 .. Quiet

(* What the reads have returned, and at which stage there are any. *)
ReadInv ==
  /\ lastState[1] <= manifestId /\ lastState[2] <= compactionsId
  /\ view.manifest <= manifestId /\ view.compactions <= compactionsId
  /\ wait = "reading" => view.parts # {"manifest", "compactions"}
  /\ wait = "judging" => view.parts = {"manifest", "compactions"}
  /\ wait \notin {"reading", "judging"} => view = Unread
  /\ stage \in {"loading", "closed_load", "loaded"} =>
       wait = "off" /\ lastState = NoState /\ view = Unread

(* The state last judged is that of the given manifest and compactions. *)
Judged(m, c) == lastState[1] = m /\ lastState[2] = c

(* What the wait takes for the stable period has passed without a write. *)
Observed == idleAtRead + readFor >= stableFor

IdleInv ==
  /\ Judged(manifestId, compactionsId) => idleFor >= stableFor
  /\ view.parts = {"manifest"} /\ Judged(view.manifest, compactionsId) => Observed
  /\ view.parts = {"compactions"} /\ Judged(manifestId, view.compactions) => Observed
  /\ wait = "judging" /\ Judged(view.manifest, view.compactions) => Observed
  /\ QuietObserved

(* The write in progress and its measurement. *)
Measurements == [started : BOOLEAN, since : Nat, elapsed : Nat]
Admissions == {"none", "waiting", "full", "blocked", "admitted"}

BackpressureInv ==
  /\ admission \in Admissions
  /\ measurement \in Measurements
  /\ backpressure \in Nat /\ blockedFor \in 0 .. MaxBlocked
  /\ measurement.started <=> admission = "blocked"
  /\ ~measurement.started => measurement.since = 0
  /\ admission = "none" => measurement = NewMeasurement
  /\ admission # "none" <=> stage = "loading" /\ writer = "writing"
  /\ backpressure <= blockedFor
  /\ BackpressureMeasured

(* The LSM tree that the load fills and the compaction works on. *)
LsmInv ==
  /\ stage \in Stages \union Ends
  /\ unflushed \in Nat /\ l0 \in Nat /\ sortedRuns \in Nat
  /\ recordCount <= MaxRecords
  /\ unflushed + l0 <= loaded
  /\ stage = "loading" /\ loaded > 0 => unflushed + l0 > 0
  /\ stage = "loading" /\ writer = "done" => unflushed = 0
  /\ stage = "closed_load" => l0 > 0
  /\ stage \in {"loading", "closed_load", "loaded"} => ~compactorRuns /\ sortedRuns = 0
  /\ ~compactorRuns \/ sortedRuns < manifestId
  /\ sortedRuns <= MaxManifests
  /\ UncompactedAccepted

PrepInv == LoadInv /\ WaitTyped /\ ReadInv /\ IdleInv /\ BackpressureInv /\ LsmInv
-----------------------------------------------------------------------------
(* The load within the preparation. *)

LEMMA StepLoads == [PreparationNext]_allVars => [Next]_vars
<1> SUFFICES ASSUME [PreparationNext]_allVars PROVE [Next]_vars
  OBVIOUS
<1>1. CASE UNCHANGED vars
  BY <1>1
<1>2. ASSUME NEW p \in Producers, LoadProducer(p) \/ Panics(p) PROVE Next
  BY <1>2 DEF LoadProducer, Next
<1>3. CASE LoadWriter
  <2>1. CASE SetsGauge \/ IncrementsCounter
    BY <1>1, <2>1 DEF SetsGauge, IncrementsCounter
  <2>2. CASE ~(SetsGauge \/ IncrementsCounter)
    BY <1>3, <2>2 DEF LoadWriter, ReceivesBatch, WriteReturns, WriteErrs, LoadFlushes,
                      Next, Writer
  <2> QED
    BY <2>1, <2>2
<1>4. CASE FlusherFlushes \/ BlockedTimePasses \/ CompactorActs \/ WaitPolls
           \/ WaitTimePasses \/ Runner \/ Over \/ UNCHANGED allVars
  BY <1>4 DEF FlusherFlushes, BlockedTimePasses, CompactorActs, Installs, Completes,
              WaitPolls, WaitTimePasses, Runner, LoadCloses, Closes, LoadCheckpoints,
              Goes, OpensClone, CompactionCloses, CompactionCheckpoints, Over, allVars
<1> QED
  BY <1>2, <1>3, <1>4 DEF PreparationNext

(* The preparation implements the load, with its fairness left out. *)
THEOREM LoadWithin == PreparationSpec => Spec
<1>1. PreparationInit => Init
  BY DEF PreparationInit
<1> QED
  BY <1>1, StepLoads, PTL DEF PreparationSpec, Spec

-----------------------------------------------------------------------------
(* The wait *)
USE WaitAssumption, PreparationAssumption

WaitInv == WaitTyped /\ ReadInv /\ IdleInv

Early == stage \in {"loading", "closed_load", "loaded"}

LEMMA WaitKept ==
  ASSUME WaitInv, UNCHANGED <<storeVars, pollVars, clockVars>>, compactorRuns' \in BOOLEAN,
         Early' => Early
  PROVE  WaitInv'
<1>1. UNCHANGED <<manifestId, compactionsId, compactions, wait, view, lastState, stableFor,
                  idleFor, idleAtRead, readFor>>
  BY DEF storeVars, pollVars, clockVars
<1>2. WaitTyped'
  BY <1>1 DEF WaitInv, WaitTyped
<1>3. ReadInv'
  BY <1>1 DEF WaitInv, ReadInv, Early
<1>4. IdleInv'
  BY <1>1 DEF WaitInv, IdleInv, Judged, Observed, QuietObserved
<1> QED
  BY <1>2, <1>3, <1>4 DEF WaitInv

(* Every write gives the manifest or the compactions a new identity. *)
LEMMA WriteWaits ==
  ASSUME WaitInv, UNCHANGED stage,
         \/ WritesManifest
         \/ \E cs \in Seq(Statuses) : Len(cs) <= compactionsId + 1 /\ WritesCompactions(cs)
  PROVE  WaitInv'
<1>1. /\ \/ manifestId' = manifestId + 1 /\ manifestId <= MaxManifests
            /\ UNCHANGED <<compactionsId, compactions>>
         \/ compactionsId' = compactionsId + 1 /\ UNCHANGED manifestId
            /\ compactions' \in Seq(Statuses) /\ Len(compactions') <= compactionsId'
      /\ idleFor' = 0
      /\ UNCHANGED <<compactorRuns, wait, view, lastState, stableFor, idleAtRead, readFor>>
  BY DEF WritesManifest, WritesCompactions, pollVars
<1>2. manifestId \in Nat /\ compactionsId \in Nat /\ view \in View
      /\ lastState[1] \in Nat /\ lastState[2] \in Nat
  BY DEF WaitInv, WaitTyped
<1>3. WaitTyped'
  BY <1>1 DEF WaitInv, WaitTyped
<1>4. ReadInv'
  BY <1>1, <1>2 DEF WaitInv, ReadInv, View
<1>5. IdleInv'
  <2>1. ~Judged(manifestId, compactionsId)'
    BY <1>1, <1>2 DEF WaitInv, ReadInv, Judged
  <2>2. Judged(view.manifest, compactionsId)' => Judged(view.manifest, compactionsId)
    BY <1>1, <1>2 DEF WaitInv, ReadInv, Judged
  <2>3. Judged(manifestId, view.compactions)' => Judged(manifestId, view.compactions)
    BY <1>1, <1>2 DEF WaitInv, ReadInv, Judged
  <2>4. Judged(view.manifest, view.compactions)' => Judged(view.manifest, view.compactions)
    BY <1>1 DEF Judged
  <2>5. Observed' <=> Observed
    BY <1>1 DEF Observed
  <2>6. QuietObserved'
    BY <1>1 DEF WaitInv, IdleInv, QuietObserved
  <2> QED
    BY <1>1, <2>1, <2>2, <2>3, <2>4, <2>5, <2>6 DEF WaitInv, IdleInv
<1> QED
  BY <1>3, <1>4, <1>5 DEF WaitInv

LEMMA CompactorWaits ==
  ASSUME WaitInv, CompactorActs
  PROVE  WaitInv'
<1>1. compactions \in Seq(Statuses) /\ Len(compactions) <= compactionsId
      /\ compactionsId \in Nat
  BY DEF WaitInv, WaitTyped
<1>2. UNCHANGED stage
  BY DEF CompactorActs, Installs, Completes, prepVars
<1>3. CASE WritesManifest
  BY <1>2, <1>3, WriteWaits
<1>4. CASE Submits
  <2>1. Append(compactions, "active") \in Seq(Statuses)
        /\ Len(Append(compactions, "active")) <= compactionsId + 1
    BY <1>1 DEF Statuses
  <2> QED
    BY <1>2, <1>4, <2>1, WriteWaits DEF Submits
<1>5. ASSUME NEW i \in DOMAIN compactions, Progresses(i) PROVE WaitInv'
  BY <1>1, <1>2, <1>5, WriteWaits DEF Progresses
<1>6. ASSUME NEW i \in DOMAIN compactions, NEW status \in Statuses, Finishes(i, status)
      PROVE  WaitInv'
  <2> DEFINE cs == [compactions EXCEPT ![i] = status]
  <2>1. cs \in Seq(Statuses) /\ Len(cs) <= compactionsId + 1
    BY <1>1
  <2>2. WritesCompactions(cs)
    BY <1>6 DEF Finishes
  <2> HIDE DEF cs
  <2> QED
    BY <1>2, <2>1, <2>2, WriteWaits
<1> QED
  BY <1>3, <1>4, <1>5, <1>6 DEF CompactorActs, Installs, Completes, Statuses

LEMMA TimeWaits ==
  ASSUME WaitInv, WaitTimePasses
  PROVE  WaitInv'
<1>1. /\ stage = "compacting" /\ UNCHANGED stage
      /\ stableFor' = UpToQuiet(stableFor) /\ idleFor' = UpToQuiet(idleFor)
      /\ readFor' = UpToQuiet(readFor)
      /\ wait' = (IF wait = "sleeping" THEN "reading" ELSE wait)
      /\ UNCHANGED <<manifestId, compactionsId, compactions, compactorRuns, view, lastState,
                     idleAtRead>>
  BY DEF WaitTimePasses, TimePasses, prepVars, storeVars
<1>2. /\ stableFor \in 0 .. Quiet /\ idleFor \in 0 .. Quiet
      /\ idleAtRead \in 0 .. Quiet /\ readFor \in 0 .. Quiet /\ Quiet \in Nat
  BY DEF WaitInv, WaitTyped
<1>3. WaitTyped'
  BY <1>1, <1>2 DEF WaitInv, WaitTyped, UpToQuiet
<1>4. ReadInv'
  BY <1>1 DEF WaitInv, ReadInv, Unread
<1>5. IdleInv'
  <2>1. Observed => Observed'
    BY <1>1, <1>2 DEF Observed, UpToQuiet
  <2>2. idleFor >= stableFor => idleFor' >= stableFor'
    BY <1>1, <1>2 DEF UpToQuiet
  <2>3. QuietObserved'
    BY <1>1, <1>2 DEF WaitInv, IdleInv, QuietObserved, UpToQuiet
  <2> QED
    BY <1>1, <2>1, <2>2, <2>3 DEF WaitInv, IdleInv, Judged
<1> QED
  BY <1>3, <1>4, <1>5 DEF WaitInv

LEMMA ReadWaits ==
  ASSUME WaitInv, NEW part \in {"manifest", "compactions"}, ReadsPart(part),
         stage = "compacting", UNCHANGED stage
  PROVE  WaitInv'
<1>1. /\ wait = "reading" /\ part \notin view.parts
      /\ view' = [manifest |-> IF part = "manifest" THEN manifestId ELSE view.manifest,
                  compactions |-> IF part = "compactions" THEN compactionsId
                                  ELSE view.compactions,
                  statuses |-> IF part = "compactions"
                               THEN {compactions[i] : i \in DOMAIN compactions}
                               ELSE view.statuses,
                  parts |-> view.parts \union {part}]
      /\ IF view.parts = {}
         THEN idleAtRead' = idleFor /\ readFor' = 0 /\ UNCHANGED wait
         ELSE wait' = "judging" /\ UNCHANGED <<idleAtRead, readFor>>
      /\ UNCHANGED <<manifestId, compactionsId, compactions, compactorRuns, lastState,
                     stableFor, idleFor>>
  BY DEF ReadsPart, storeVars
<1>2. WaitTyped /\ ReadInv /\ IdleInv /\ view \in View
  BY DEF WaitInv, WaitTyped
<1>3. /\ view.parts = {} \/ view.parts = {"manifest"} \/ view.parts = {"compactions"}
  BY <1>1, <1>2 DEF ReadInv, View
<1>4. view' \in View
  <2>1. {compactions[i] : i \in DOMAIN compactions} \in SUBSET Statuses
    BY <1>2 DEF WaitTyped
  <2> QED
    BY <1>1, <1>2, <2>1 DEF View, WaitTyped
<1>5. WaitTyped'
  BY <1>1, <1>2, <1>4 DEF WaitTyped
<1>6. /\ view'.parts = view.parts \union {part}
      /\ view'.manifest = (IF part = "manifest" THEN manifestId ELSE view.manifest)
      /\ view'.compactions = (IF part = "compactions" THEN compactionsId ELSE view.compactions)
  BY <1>1
<1>7. ReadInv'
  <2>1. view'.manifest <= manifestId' /\ view'.compactions <= compactionsId'
    BY <1>1, <1>2, <1>6 DEF ReadInv, WaitTyped
  <2>2. wait' \in {"reading", "judging"}
    BY <1>1
  <2>3. wait' = "reading" => view'.parts # {"manifest", "compactions"}
    BY <1>1, <1>6
  <2>4. wait' = "judging" => view'.parts = {"manifest", "compactions"}
    BY <1>1, <1>3, <1>6
  <2> QED
    BY <1>1, <1>2, <2>1, <2>2, <2>3, <2>4 DEF ReadInv
<1>8. IdleInv'
  <2>1. CASE view.parts = {}
    <3>1. Judged(manifestId, compactionsId) => Observed'
      BY <1>1, <1>2, <2>1 DEF IdleInv, Observed, WaitTyped
    <3>2. view'.parts = {part} /\ wait' = "reading"
      BY <1>1, <1>6, <2>1
    <3> QED
      BY <1>1, <1>2, <1>6, <3>1, <3>2 DEF IdleInv, Judged, QuietObserved
  <2>2. CASE view.parts # {}
    <3>1. Observed' <=> Observed
      BY <1>1, <2>2 DEF Observed
    <3>2. wait' = "judging" /\ view'.parts = {"manifest", "compactions"}
      BY <1>1, <1>3, <1>6, <2>2
    <3>3. Judged(view.manifest, view.compactions)' => Observed
      BY <1>1, <1>2, <1>3, <1>6, <2>2 DEF IdleInv, Judged
    <3> QED
      BY <1>1, <1>2, <3>1, <3>2, <3>3 DEF IdleInv, Judged, QuietObserved
  <2> QED
    BY <2>1, <2>2
<1> QED
  BY <1>5, <1>7, <1>8 DEF WaitInv

LEMMA JudgeWaits ==
  ASSUME WaitInv, Judges, stage = "compacting", UNCHANGED stage
  PROVE  WaitInv'
<1> DEFINE elapsed == IF StateVersion # lastState THEN 0 ELSE stableFor
<1>1. /\ wait = "judging"
      /\ lastState' = StateVersion /\ stableFor' = elapsed
      /\ wait' = (IF "Failed" \in view.statuses THEN "failed"
                  ELSE IF "active" \notin view.statuses /\ elapsed >= Quiet THEN "quiet"
                  ELSE "sleeping")
      /\ view' = Unread
      /\ UNCHANGED <<manifestId, compactionsId, compactions, compactorRuns,
                     idleFor, idleAtRead, readFor>>
  BY DEF Judges, storeVars, clockVars
<1>2. WaitTyped /\ ReadInv /\ IdleInv /\ view \in View
  BY DEF WaitInv, WaitTyped
<1>3. /\ StateVersion = <<view.manifest, view.compactions>>
      /\ view.manifest \in Nat /\ view.compactions \in Nat
      /\ lastState = <<lastState[1], lastState[2]>>
  BY <1>2 DEF StateVersion, View, WaitTyped
<1>4. StateVersion = lastState <=> Judged(view.manifest, view.compactions)
  BY <1>3 DEF Judged
<1>5. elapsed \in 0 .. Quiet
  BY <1>2 DEF WaitTyped
<1>6. WaitTyped'
  <2>1. Unread \in View
    BY DEF Unread, View
  <2> QED
    BY <1>1, <1>2, <1>3, <1>5, <2>1 DEF WaitTyped
<1>7. ReadInv'
  BY <1>1, <1>2, <1>3 DEF ReadInv, Unread, WaitTyped
<1>8. IdleInv'
  <2>1. Judged(manifestId, compactionsId)' => idleFor' >= stableFor'
    <3>1. CASE StateVersion = lastState
      BY <1>1, <1>2, <3>1 DEF IdleInv, Judged
    <3>2. CASE StateVersion # lastState
      BY <1>1, <1>2, <3>2 DEF WaitTyped
    <3> QED
      BY <3>1, <3>2
  <2>2. QuietObserved'
    <3> SUFFICES ASSUME wait' = "quiet" PROVE idleAtRead + readFor >= Quiet
      BY <1>1 DEF QuietObserved
    <3>1. elapsed >= Quiet
      BY <1>1
    <3>2. StateVersion = lastState /\ stableFor >= Quiet
      BY <3>1
    <3>3. Observed
      BY <1>1, <1>2, <1>4, <3>2 DEF IdleInv
    <3> QED
      BY <1>2, <3>2, <3>3 DEF Observed, WaitTyped
  <2>3. view'.parts = {} /\ wait' # "judging"
    BY <1>1 DEF Unread
  <2> QED
    BY <2>1, <2>2, <2>3 DEF IdleInv
<1> QED
  BY <1>6, <1>7, <1>8 DEF WaitInv

LEMMA ReadFailsWaits ==
  ASSUME WaitInv, ReadFails, stage = "compacting", UNCHANGED stage
  PROVE  WaitInv'
<1>1. /\ wait' = "failed" /\ view' = Unread
      /\ UNCHANGED <<manifestId, compactionsId, compactions, compactorRuns, lastState,
                     stableFor, idleFor, idleAtRead, readFor>>
  BY DEF ReadFails, storeVars, clockVars
<1>2. Unread \in View /\ Unread.parts = {} /\ Unread.manifest = 0 /\ Unread.compactions = 0
  BY DEF Unread, View
<1>3. WaitTyped'
  BY <1>1, <1>2 DEF WaitInv, WaitTyped
<1>4. ReadInv'
  BY <1>1, <1>2 DEF WaitInv, ReadInv, WaitTyped
<1>5. IdleInv'
  BY <1>1, <1>2 DEF WaitInv, IdleInv, Judged, QuietObserved
<1> QED
  BY <1>3, <1>4, <1>5 DEF WaitInv

LEMMA OpensWaits ==
  ASSUME WaitInv, OpensClone
  PROVE  WaitInv'
<1>1. /\ stage = "loaded" /\ stage' \in {"compacting", "failed"}
      /\ compactorRuns' \in BOOLEAN
      /\ manifestId' = 1 /\ compactionsId' = 0 /\ compactions' = <<>>
      /\ wait' \in {"reading", "off"}
      /\ UNCHANGED <<view, lastState, stableFor, idleFor, idleAtRead, readFor>>
  BY DEF OpensClone, clockVars, Published
<1>2. lastState = NoState /\ view = Unread
  BY <1>1 DEF WaitInv, ReadInv
<1>3. WaitTyped'
  BY <1>1 DEF WaitInv, WaitTyped
<1>4. ReadInv'
  BY <1>1, <1>2 DEF ReadInv, NoState, Unread
<1>5. IdleInv'
  BY <1>1, <1>2 DEF IdleInv, Judged, NoState, Unread, QuietObserved
<1> QED
  BY <1>3, <1>4, <1>5 DEF WaitInv

LEMMA NextWaits ==
  ASSUME WaitInv, [PreparationNext]_allVars
  PROVE  WaitInv'
<1>1. CASE UNCHANGED <<waitVars, stage>>
  BY <1>1, WaitKept DEF waitVars, Early, WaitInv, WaitTyped
<1>2. CASE CompactorActs
  BY <1>2, CompactorWaits
<1>3. CASE WaitPolls
  BY <1>3, ReadWaits, JudgeWaits, ReadFailsWaits DEF WaitPolls, Polls, prepVars
<1>4. CASE WaitTimePasses
  BY <1>4, TimeWaits
<1>5. CASE OpensClone
  BY <1>5, OpensWaits
<1>6. CASE LoadCloses \/ CompactionCloses
  BY <1>6, WaitKept DEF LoadCloses, CompactionCloses, Closes, Early
<1>7. CASE LoadCheckpoints \/ CompactionCheckpoints
  <2>1. UNCHANGED waitVars /\ (Early' => Early)
    BY <1>7 DEF LoadCheckpoints, CompactionCheckpoints, Goes, Early
  <2> QED
    BY <2>1, WaitKept DEF waitVars, WaitInv, WaitTyped
<1>8. CASE \/ LoadWriter \/ FlusherFlushes \/ BlockedTimePasses \/ Over
           \/ \E p \in Producers : LoadProducer(p)
           \/ \E p \in Producers : Panics(p) /\ UNCHANGED <<waitVars, prepVars>>
           \/ UNCHANGED allVars
  <2>1. UNCHANGED <<waitVars, stage>>
    BY <1>8 DEF LoadWriter, ReceivesBatch, SetsGauge, IncrementsCounter, WriteReturns,
                WriteErrs, LoadFlushes, LoadOnly, FlusherFlushes, BlockedTimePasses, Over,
                LoadProducer, prepVars, allVars
  <2> QED
    BY <1>1, <2>1
<1> QED
  BY <1>2, <1>3, <1>4, <1>5, <1>6, <1>7, <1>8 DEF PreparationNext, Runner

-----------------------------------------------------------------------------
(* What the steps of the load do to the records that it has counted. *)
LEMMA LoadFacts ==
  ASSUME LoadInv
  PROVE  /\ recordCount \in Nat /\ loaded \in Nat /\ loaded <= recordCount
         /\ writer = "done" => loaded > 0
         /\ WriteSucceeds => loaded' \in Nat /\ loaded' > loaded
<1>1. recordCount \in Nat /\ loaded \in Nat /\ loaded <= recordCount /\ recordCount > 0
  BY DEF LoadInv, TypeOK, ThreadInv
<1>2. ASSUME writer = "done" PROVE loaded > 0
  BY <1>1, <1>2 DEF LoadInv, OrderInv, Collected, Running
<1>3. ASSUME WriteSucceeds PROVE loaded' \in Nat /\ loaded' > loaded
  <2>1. PICK n \in Nat : n > 0 /\ loaded = At(n - 1) /\ loaded < recordCount
                         /\ batch = Batch(n - 1)
    BY <1>3 DEF WriteSucceeds, LoadInv, OrderInv, Collected, Running
  <2>2. loaded' = Lesser(loaded + BatchRecords, recordCount)
    BY <1>3, <2>1 DEF WriteSucceeds, Batch
  <2> QED
    BY <1>1, <2>1, <2>2, LoadAssumption DEF Lesser
<1> QED
  BY <1>1, <1>2, <1>3

(* The LSM tree *)

(* The steps that leave the tree alone. *)
LEMMA LsmKept ==
  ASSUME LsmInv, UNCHANGED <<stage, lsmVars, loaded, recordCount, compactorRuns>>,
         manifestId \in Nat, manifestId' \in Nat, manifestId <= manifestId',
         stage = "loading" /\ writer' = "done" => writer = "done" \/ unflushed = 0
  PROVE  LsmInv'
<1>1. UNCHANGED <<stage, unflushed, l0, sortedRuns, loaded, recordCount, compactorRuns>>
  BY DEF lsmVars
<1> QED
  BY <1>1 DEF LsmInv, UncompactedAccepted

LEMMA LoadLsm ==
  ASSUME LoadInv, WaitTyped, LsmInv,
         \/ LoadWriter \/ FlusherFlushes \/ BlockedTimePasses
         \/ \E p \in Producers : LoadProducer(p) \/ (Panics(p) /\ UNCHANGED <<waitVars, prepVars>>)
  PROVE  LsmInv'
<1>1. manifestId \in Nat
  BY DEF WaitTyped
<1>2. CASE WriteReturns
  <2>1. /\ stage = "loading" /\ writer' = "receiving" /\ unflushed' = unflushed + 1
        /\ UNCHANGED <<stage, l0, sortedRuns, recordCount, compactorRuns, manifestId>>
    BY <1>2 DEF WriteReturns, WriteSucceeds, waitVars, storeVars
  <2>2. loaded \in Nat /\ loaded' \in Nat /\ loaded' > loaded
    BY <1>2, LoadFacts DEF WriteReturns
  <2> QED
    BY <2>1, <2>2 DEF LsmInv, UncompactedAccepted, Stages, Ends
<1>3. CASE FlusherFlushes
  <2>1. /\ stage = "loading" /\ unflushed > 0
        /\ unflushed' = unflushed - 1 /\ l0' = l0 + 1
        /\ UNCHANGED <<stage, sortedRuns, recordCount, loaded, writer, compactorRuns, manifestId>>
    BY <1>3 DEF FlusherFlushes, vars, waitVars, storeVars
  <2>2. loaded \in Nat
    BY LoadFacts
  <2> QED
    BY <2>1, <2>2 DEF LsmInv, UncompactedAccepted, Stages, Ends
<1>4. CASE ~WriteReturns /\ ~FlusherFlushes
  <2>1. UNCHANGED <<stage, lsmVars, loaded, recordCount, compactorRuns, manifestId>>
    BY <1>4 DEF LoadWriter, ReceivesBatch, SetsGauge, IncrementsCounter, WriteErrs, LoadFlushes,
                LoadOnly, BlockedTimePasses, LoadProducer, prepVars, waitVars, storeVars, vars,
                Receives, WriteFails, ReceivesNothing, AllReceived, ProducersJoined, JoinFails,
                Flushes, Producer, Generates, Sends, SendFails, Panics
  <2>2. stage = "loading" /\ writer' = "done" => writer = "done" \/ unflushed = 0
    BY <1>4 DEF LoadWriter, ReceivesBatch, SetsGauge, IncrementsCounter, WriteErrs, LoadFlushes,
                BlockedTimePasses, LoadProducer, vars, Receives, WriteFails, ReceivesNothing,
                AllReceived, ProducersJoined, JoinFails, Fail,
                Producer, Generates, Sends, SendFails, Panics
  <2> QED
    BY <1>1, <2>1, <2>2, LsmKept
<1> QED
  BY <1>2, <1>3, <1>4

LEMMA CompactorLsm ==
  ASSUME LoadInv, WaitTyped, LsmInv, CompactorActs \/ WaitPolls \/ WaitTimePasses
  PROVE  LsmInv'
<1>1. manifestId \in Nat
  BY DEF WaitTyped
<1>2. UNCHANGED <<vars, stage, compactorRuns>> /\ UNCHANGED <<loaded, recordCount, writer>>
  BY DEF CompactorActs, Installs, Completes, WritesManifest, Finishes, Submits, Progresses,
         WritesCompactions, WaitPolls, Polls, ReadsPart, ReadFails, Judges,
         WaitTimePasses, TimePasses, prepVars, vars
<1>3. CASE Installs
  <2>1. /\ compactorRuns /\ manifestId <= MaxManifests /\ manifestId' = manifestId + 1
        /\ l0' = 0 /\ sortedRuns' = sortedRuns + 1 /\ UNCHANGED unflushed
    BY <1>3 DEF Installs, WritesManifest
  <2>2. loaded \in Nat
    BY LoadFacts
  <2> QED
    BY <1>1, <1>2, <2>1, <2>2 DEF LsmInv, UncompactedAccepted
<1>4. CASE ~Installs
  <2>1. UNCHANGED lsmVars
    BY <1>4 DEF CompactorActs, Completes, WaitPolls, WaitTimePasses, prepVars
  <2>2. manifestId' = manifestId \/ manifestId' = manifestId + 1
    BY <1>4 DEF CompactorActs, Completes, WritesManifest, Finishes, Submits, Progresses,
         WritesCompactions, WaitPolls, Polls, ReadsPart, ReadFails, Judges,
         WaitTimePasses, TimePasses, storeVars
  <2>3. manifestId' \in Nat /\ manifestId <= manifestId'
    BY <1>1, <2>2
  <2> QED
    BY <1>1, <1>2, <2>1, <2>3, LsmKept
<1> QED
  BY <1>3, <1>4

LEMMA RunnerLsm ==
  ASSUME LoadInv, WaitTyped, LsmInv, Runner
  PROVE  LsmInv'
<1>1. UNCHANGED <<unflushed, l0, sortedRuns, loaded, recordCount, writer>>
  BY DEF Runner, LoadCloses, CompactionCloses, Closes, LoadCheckpoints, CompactionCheckpoints,
         Goes, OpensClone, lsmVars, vars
<1>2. loaded \in Nat /\ (writer = "done" => loaded > 0)
  BY LoadFacts
<1>3. CASE LoadCloses
  <2>1. /\ stage = "loading" /\ compactorRuns' = FALSE /\ UNCHANGED manifestId
        /\ stage' = "failed" \/ (stage' = "closed_load" /\ writer = "done")
    BY <1>3 DEF LoadCloses, Closes, storeVars
  <2> QED
    BY <1>1, <1>2, <2>1 DEF LsmInv, UncompactedAccepted, Stages, Ends
<1>4. CASE LoadCheckpoints
  <2>1. /\ stage = "closed_load" /\ UNCHANGED <<manifestId, compactorRuns>>
        /\ stage' \in {"loaded", "failed"}
    BY <1>4 DEF LoadCheckpoints, Goes, Uncompacted, LsmInv, waitVars, storeVars
  <2> QED
    BY <1>1, <2>1 DEF LsmInv, UncompactedAccepted, Stages, Ends
<1>5. CASE OpensClone
  <2>1. /\ stage = "loaded" /\ stage' \in {"compacting", "failed"} /\ manifestId' = 1
    BY <1>5 DEF OpensClone
  <2> QED
    BY <1>1, <2>1 DEF LsmInv, UncompactedAccepted, Stages, Ends
<1>6. CASE CompactionCloses
  <2>1. /\ stage = "compacting" /\ compactorRuns' = FALSE
        /\ stage' \in {"closed_compaction", "failed"}
    BY <1>6 DEF CompactionCloses, Closes
  <2> QED
    BY <1>1, <2>1 DEF LsmInv, UncompactedAccepted, Stages, Ends
<1>7. CASE CompactionCheckpoints
  <2>1. /\ stage = "closed_compaction" /\ UNCHANGED <<manifestId, compactorRuns>>
        /\ stage' \in {"published", "failed"}
    BY <1>7 DEF CompactionCheckpoints, Goes, waitVars, storeVars
  <2> QED
    BY <1>1, <2>1 DEF LsmInv, UncompactedAccepted, Stages, Ends
<1> QED
  BY <1>3, <1>4, <1>5, <1>6, <1>7 DEF Runner

LEMMA NextLsm ==
  ASSUME LoadInv, WaitTyped, LsmInv, [PreparationNext]_allVars
  PROVE  LsmInv'
<1>1. CASE UNCHANGED allVars
  <2>1. UNCHANGED <<stage, lsmVars, loaded, recordCount, compactorRuns, manifestId, writer>>
    BY <1>1 DEF allVars, vars, waitVars, storeVars, prepVars
  <2> QED
    BY <2>1, LsmKept DEF WaitTyped
<1> QED
  BY <1>1, LoadLsm, CompactorLsm, RunnerLsm DEF PreparationNext, Over

-----------------------------------------------------------------------------
(* The backpressure of the load's writes *)

LEMMA MeasurementFacts ==
  ASSUME NEW m \in Measurements, ~m.started => m.since = 0
  PROVE  /\ Finish(m) = m.elapsed + m.since /\ Finish(m) \in Nat
         /\ FinishInterval(m) \in Measurements /\ Finish(FinishInterval(m)) = Finish(m)
         /\ ~FinishInterval(m).started /\ FinishInterval(m).since = 0
         /\ Start(m) \in Measurements /\ Finish(Start(m)) = Finish(m) /\ Start(m).started
<1>1. m = [started |-> m.started, since |-> m.since, elapsed |-> m.elapsed]
      /\ m.started \in BOOLEAN /\ m.since \in Nat /\ m.elapsed \in Nat
  BY DEF Measurements
<1>2. CASE m.started
  <2>1. FinishInterval(m) = [started |-> FALSE, since |-> 0, elapsed |-> m.elapsed + m.since]
        /\ Start(m) = m
    BY <1>2 DEF FinishInterval, Start
  <2>2. FinishInterval(FinishInterval(m)) = FinishInterval(m)
    BY <2>1 DEF FinishInterval
  <2> QED
    BY <1>1, <1>2, <2>1, <2>2 DEF Finish, Measurements
<1>3. CASE ~m.started
  <2>1. FinishInterval(m) = m
    BY <1>3 DEF FinishInterval
  <2>2. Start(m) = [m EXCEPT !.started = TRUE, !.since = 0]
    BY <1>3 DEF Start
  <2>3. Start(m) = [started |-> TRUE, since |-> 0, elapsed |-> m.elapsed]
    BY <1>1, <2>2, Zenon
  <2>4. Start(m) \in Measurements /\ Start(m).started
        /\ Start(m).since = 0 /\ Start(m).elapsed = m.elapsed
    BY <1>1, <2>3 DEF Measurements
  <2>5. Finish(Start(m)) = m.elapsed + 0
    BY <2>4 DEF Finish, FinishInterval
  <2> QED
    BY <1>1, <1>3, <2>1, <2>4, <2>5 DEF Finish
<1> QED
  BY <1>2, <1>3

LEMMA NewFacts ==
  /\ NewMeasurement \in Measurements /\ ~NewMeasurement.started
  /\ NewMeasurement.since = 0 /\ Finish(NewMeasurement) = 0
BY DEF NewMeasurement, Measurements, Finish, FinishInterval

(* The steps that leave the write in progress alone. *)
LEMMA BackpressureKept ==
  ASSUME BackpressureInv, UNCHANGED writeVars,
         stage' = "loading" /\ writer' = "writing" <=> stage = "loading" /\ writer = "writing",
         stage' = "loading" /\ writer' # "write_failed" =>
           stage = "loading" /\ writer # "write_failed"
  PROVE  BackpressureInv'
<1>1. UNCHANGED <<admission, measurement, backpressure, blockedFor>>
  BY DEF writeVars
<1> QED
  BY <1>1 DEF BackpressureInv, BackpressureMeasured

LEMMA WriterBackpressure ==
  ASSUME LoadInv, BackpressureInv, LoadWriter
  PROVE  BackpressureInv'
<1>1. /\ measurement \in Measurements /\ (~measurement.started => measurement.since = 0)
      /\ backpressure \in Nat /\ blockedFor \in 0 .. MaxBlocked
  BY DEF BackpressureInv
<1>2. stage = "loading" /\ UNCHANGED <<stage, blockedFor>>
  BY DEF LoadWriter, ReceivesBatch, SetsGauge, IncrementsCounter, WriteReturns, WriteErrs,
         LoadFlushes, LoadOnly, prepVars, writeVars
<1>3. CASE ReceivesBatch
  <2>1. /\ writer = "receiving" /\ measurement' = NewMeasurement
        /\ writer' \in {"writing", "out_of_order"}
        /\ admission' = (IF writer' = "writing" THEN "waiting" ELSE "none")
        /\ UNCHANGED <<backpressure, blockedFor>>
    BY <1>3 DEF ReceivesBatch, Receives, Fail
  <2>2. measurement = NewMeasurement
    BY <2>1 DEF BackpressureInv
  <2> QED
    BY <1>1, <1>2, <2>1, <2>2, NewFacts DEF BackpressureInv, BackpressureMeasured, Admissions
<1>4. CASE SetsGauge
  <2>1. /\ admission \in {"waiting", "blocked"} /\ admission' \in {"full", "admitted"}
        /\ measurement' = FinishInterval(measurement)
        /\ UNCHANGED <<writer, backpressure, blockedFor>>
    BY <1>4 DEF SetsGauge, vars
  <2> QED
    BY <1>1, <1>2, <2>1, MeasurementFacts DEF BackpressureInv, BackpressureMeasured, Admissions
<1>5. CASE IncrementsCounter
  <2>1. /\ admission \in {"full", "blocked"} /\ admission' = "blocked"
        /\ measurement' = Start(measurement)
        /\ UNCHANGED <<writer, backpressure, blockedFor>>
    BY <1>5 DEF IncrementsCounter, vars
  <2> QED
    BY <1>1, <1>2, <2>1, MeasurementFacts DEF BackpressureInv, BackpressureMeasured, Admissions
<1>6. CASE WriteReturns
  <2>1. /\ admission = "admitted" /\ writer = "writing" /\ writer' = "receiving"
        /\ backpressure' = backpressure + Finish(measurement)
        /\ admission' = "none" /\ measurement' = NewMeasurement
        /\ UNCHANGED blockedFor
    BY <1>6 DEF WriteReturns, WriteSucceeds
  <2>2. backpressure' = blockedFor
    BY <1>1, <1>2, <2>1 DEF BackpressureInv, BackpressureMeasured
  <2>3. backpressure' \in Nat
    BY <1>1, <2>1, MeasurementFacts
  <2> QED
    BY <1>1, <1>2, <2>1, <2>2, <2>3, NewFacts DEF BackpressureInv, BackpressureMeasured, Admissions
<1>7. CASE WriteErrs
  <2>1. /\ writer' = "write_failed" /\ admission' = "none" /\ measurement' = NewMeasurement
        /\ UNCHANGED <<backpressure, blockedFor>>
    BY <1>7 DEF WriteErrs, WriteFails, Fail
  <2> QED
    BY <1>1, <1>2, <2>1, NewFacts DEF BackpressureInv, BackpressureMeasured, Admissions
<1>8. CASE LoadFlushes \/ ((ReceivesNothing \/ AllReceived \/ ProducersJoined \/ JoinFails) /\ LoadOnly)
  <2>1. UNCHANGED writeVars
    BY <1>8 DEF LoadFlushes, LoadOnly, prepVars
  <2>2. writer \notin {"writing", "write_failed"} /\ writer' \notin {"writing", "write_failed"}
    BY <1>8 DEF LoadFlushes, Flushes, ReceivesNothing, AllReceived, ProducersJoined, JoinFails, Fail
  <2> QED
    BY <1>2, <2>1, <2>2, BackpressureKept
<1> QED
  BY <1>3, <1>4, <1>5, <1>6, <1>7, <1>8 DEF LoadWriter

LEMMA BlockedBackpressure ==
  ASSUME BackpressureInv, BlockedTimePasses
  PROVE  BackpressureInv'
<1>1. /\ measurement \in Measurements /\ measurement.started
      /\ backpressure \in Nat /\ blockedFor \in 0 .. MaxBlocked
  BY DEF BackpressureInv, BlockedTimePasses
<1>2. /\ stage = "loading" /\ admission = "blocked" /\ blockedFor < MaxBlocked
      /\ blockedFor' = blockedFor + 1
      /\ measurement' = [measurement EXCEPT !.since = measurement.since + 1]
      /\ UNCHANGED <<stage, admission, backpressure, writer>>
  BY <1>1 DEF BlockedTimePasses, vars
<1>3. /\ measurement' \in Measurements /\ measurement'.started
      /\ measurement'.elapsed = measurement.elapsed
      /\ measurement'.since = measurement.since + 1
      /\ measurement.since \in Nat /\ measurement.elapsed \in Nat
  BY <1>1, <1>2 DEF Measurements
<1>4. Finish(measurement') = measurement'.elapsed + measurement'.since
      /\ Finish(measurement) = measurement.elapsed + measurement.since
  BY <1>1, <1>3, MeasurementFacts
<1>5. blockedFor' \in 0 .. MaxBlocked /\ (blockedFor = backpressure + Finish(measurement) =>
                                       blockedFor' = backpressure' + Finish(measurement'))
  BY <1>1, <1>2, <1>3, <1>4
<1>6. BackpressureMeasured'
  BY <1>2, <1>5 DEF BackpressureInv, BackpressureMeasured
<1> QED
  BY <1>1, <1>2, <1>3, <1>5, <1>6 DEF BackpressureInv, Admissions

LEMMA NextBackpressure ==
  ASSUME LoadInv, BackpressureInv, [PreparationNext]_allVars
  PROVE  BackpressureInv'
<1>1. CASE LoadWriter
  BY <1>1, WriterBackpressure
<1>2. CASE BlockedTimePasses
  BY <1>2, BlockedBackpressure
<1>3. CASE OpensClone
  <2>1. /\ stage = "loaded" /\ stage' # "loading" /\ backpressure' = 0 /\ blockedFor' = 0
        /\ UNCHANGED <<admission, measurement>>
    BY <1>3 DEF OpensClone
  <2> QED
    BY <2>1 DEF BackpressureInv, BackpressureMeasured
<1>4. CASE Runner /\ ~OpensClone
  <2>1. UNCHANGED writeVars /\ stage' # "loading"
        /\ (stage # "loading" \/ writer \in Outcomes)
    BY <1>4 DEF Runner, LoadCloses, CompactionCloses, Closes, LoadCheckpoints,
                CompactionCheckpoints, Goes, Uncompacted
  <2> QED
    BY <2>1, BackpressureKept DEF Outcomes, Failures
<1>5. CASE \/ FlusherFlushes \/ CompactorActs \/ WaitPolls \/ WaitTimePasses \/ Over
           \/ \E p \in Producers : LoadProducer(p)
           \/ \E p \in Producers : Panics(p) /\ UNCHANGED <<waitVars, prepVars>>
           \/ UNCHANGED allVars
  <2>1. UNCHANGED <<writeVars, stage>>
    BY <1>5 DEF FlusherFlushes, CompactorActs, Installs, Completes, WaitPolls, WaitTimePasses,
                Over, LoadProducer, allVars, prepVars
  <2>2. UNCHANGED writer
    BY <1>5 DEF FlusherFlushes, CompactorActs, Installs, Completes, WaitPolls, WaitTimePasses,
                Over, LoadProducer, Producer, Generates, Sends, SendFails, Panics, allVars, vars
  <2> QED
    BY <2>1, <2>2, BackpressureKept
<1> QED
  BY <1>1, <1>2, <1>3, <1>4, <1>5 DEF PreparationNext

-----------------------------------------------------------------------------
LEMMA PreparationInitInv == PreparationInit => PrepInv
<1> SUFFICES ASSUME PreparationInit PROVE PrepInv
  OBVIOUS
<1>1. LoadInv
  BY InitInv DEF PreparationInit
<1>2. /\ manifestId = 1 /\ compactionsId = 0 /\ compactions = <<>>
      /\ wait = "off" /\ view = Unread /\ lastState = NoState
      /\ stableFor = 0 /\ idleFor = 0 /\ idleAtRead = 0 /\ readFor = 0
      /\ compactorRuns = FALSE /\ stage = "loading"
  BY DEF PreparationInit, WaitInit, BulkLoadConfig, Published
<1>3. WaitTyped
  <2>1. Unread \in View /\ NoState \in Nat \X Nat
    BY DEF Unread, View, NoState
  <2>2. compactions \in Seq(Statuses) /\ Len(compactions) <= compactionsId
    BY <1>2
  <2>3. 0 \in 0 .. Quiet /\ manifestId \in 1 .. (1 + MaxManifests)
    BY <1>2
  <2> QED
    BY <1>2, <2>1, <2>2, <2>3, Zenon DEF WaitTyped
<1>4. ReadInv
  BY <1>2 DEF ReadInv, Unread, NoState
<1>5. IdleInv
  BY <1>2 DEF IdleInv, Judged, Unread, NoState, QuietObserved
<1>6. /\ unflushed = 0 /\ l0 = 0 /\ sortedRuns = 0 /\ loaded = 0 /\ writer = "receiving"
      /\ recordCount \in 1 .. MaxRecords
      /\ admission = "none" /\ measurement = NewMeasurement
      /\ backpressure = 0 /\ blockedFor = 0
  BY DEF PreparationInit, Init
<1>7. BackpressureInv
  BY <1>2, <1>6, NewFacts DEF BackpressureInv, BackpressureMeasured, Admissions
<1>8. LsmInv
  BY <1>2, <1>6, LoadAssumption DEF LsmInv, Stages, UncompactedAccepted
<1> QED
  BY <1>1, <1>3, <1>4, <1>5, <1>7, <1>8 DEF PrepInv

LEMMA PreparationNextInv == PrepInv /\ [PreparationNext]_allVars => PrepInv'
<1> SUFFICES ASSUME PrepInv, [PreparationNext]_allVars PROVE PrepInv'
  OBVIOUS
<1>1. LoadInv'
  BY StepLoads, NextInv DEF PrepInv
<1>2. WaitInv'
  BY NextWaits DEF PrepInv, WaitInv
<1>3. LsmInv'
  BY NextLsm DEF PrepInv
<1>4. BackpressureInv'
  BY NextBackpressure DEF PrepInv
<1> QED
  BY <1>1, <1>2, <1>3, <1>4 DEF PrepInv, WaitInv

THEOREM PreparationInvariance == PreparationSpec => []PrepInv
BY PreparationInitInv, PreparationNextInv, PTL DEF PreparationSpec

-----------------------------------------------------------------------------
(* Every variable keeps its type, within the bounds that are given.         *)
THEOREM PreparationTypeCorrect == PreparationSpec => []PreparationTypeOK
<1>1. PrepInv => PreparationTypeOK
  <2> SUFFICES ASSUME PrepInv PROVE PreparationTypeOK
    OBVIOUS
  <2>1. TypeOK
    BY DEF PrepInv, LoadInv
  <2>2. WaitTypeOK
    BY DEF PrepInv, WaitTyped, WaitTypeOK, View
  <2>3. stage \in Stages \union Ends /\ sortedRuns \in 0 .. MaxManifests
        /\ {unflushed, l0} \subseteq 0 .. MaxRecords
    <3>1. loaded \in Nat /\ recordCount \in Nat /\ loaded <= recordCount
      BY LoadFacts DEF PrepInv
    <3> QED
      BY <3>1, LoadAssumption DEF PrepInv, LsmInv
  <2>4. /\ measurement \in Measurements /\ (~measurement.started => measurement.since = 0)
        /\ backpressure \in Nat /\ blockedFor \in 0 .. MaxBlocked /\ admission \in Admissions
        /\ (measurement.started => admission = "blocked") /\ backpressure <= blockedFor
    BY DEF PrepInv, BackpressureInv
  <2>5. {backpressure, blockedFor} \subseteq 0 .. MaxBlocked
    BY <2>4
  <2>6. measurement.elapsed + measurement.since <= MaxBlocked
    <3>1. CASE admission = "none"
      <4>1. measurement.elapsed = 0 /\ measurement.since = 0
        BY <3>1 DEF PrepInv, BackpressureInv, NewMeasurement
      <4> QED
        BY <4>1
    <3>2. CASE admission # "none"
      <4>1. blockedFor = backpressure + Finish(measurement)
        BY <3>2 DEF PrepInv, BackpressureInv, BackpressureMeasured
      <4>2. Finish(measurement) = measurement.elapsed + measurement.since
            /\ Finish(measurement) \in Nat
        BY <2>4, MeasurementFacts
      <4> QED
        BY <2>4, <4>1, <4>2
    <3> QED
      BY <3>1, <3>2
  <2>7. measurement \in [started : BOOLEAN, since : 0 .. MaxBlocked, elapsed : 0 .. MaxBlocked]
    BY <2>4, <2>6 DEF Measurements
  <2> QED
    BY <2>1, <2>2, <2>3, <2>4, <2>5, <2>7 DEF PreparationTypeOK, Admissions
<1> QED
  BY <1>1, PreparationInvariance, PTL

(* All time that the load's writes are blocked for is measured, whichever   *)
(* tasks set the gauge in the meantime and whenever.                        *)
THEOREM BlockedTimeMeasured == PreparationSpec => []BackpressureMeasured
<1>1. PrepInv => BackpressureMeasured
  BY DEF PrepInv, BackpressureInv
<1> QED
  BY <1>1, PreparationInvariance, PTL

(* A wait that ends well has seen a compactor that did nothing for the      *)
(* quiet period, whatever the order of the two reads and their duration.    *)
THEOREM QuietSeen == PreparationSpec => []QuietObserved
<1>1. PrepInv => QuietObserved
  BY DEF PrepInv, IdleInv
<1> QED
  BY <1>1, PreparationInvariance, PTL

(* A load that succeeds leaves data in level 0 and none in sorted runs.     *)
THEOREM NeverRefused == PreparationSpec => []UncompactedAccepted
<1>1. PrepInv => UncompactedAccepted
  BY DEF PrepInv, LsmInv
<1> QED
  BY <1>1, PreparationInvariance, PTL

=============================================================================
